----------------------------- MODULE MCPlaybook -----------------------------
(***************************************************************************)
(* Small playbooks for TLC.  VLAN 10 and 20 are ordinary, 4095 is the      *)
(* reserved one; NONE is direct testing on the interface.                  *)
(***************************************************************************)
EXTENDS Playbook

Row(s, i, v, m, a, rtrs, both) ==
  [stage |-> s, iface |-> i, vlan |-> v, mac |-> m, addr |-> a,
   family |-> IF a % 2 = 0 THEN 4 ELSE 6, routers |-> rtrs, both |-> both]

Set(onFail, skip, always, ipv4, ipv6) ==
  [onFail |-> onFail, skip |-> skip,
   always |-> always, ipv4 |-> ipv4, ipv6 |-> ipv6]

Options(scope, execute, noPrompt, ignore) ==
  [scope |-> scope, execute |-> execute, noPrompt |-> noPrompt,
   ignoreIfaceStateChange |-> ignore,
   excluded |-> {}, stages |-> {}, phases |-> {}]

\* Plays: reachability first, then two scans at once after their target
\* file, then the manual prompt and a last scan that may fail.
InterPlays ==
  << <<Set("stage", FALSE, 0, 1, 1)>>,
     <<Set("phase", FALSE, 1, 0, 0), Set("undefined", FALSE, 1, 1, 0)>>,
     <<Set("undefined", TRUE, 1, 0, 0)>>,
     <<Set("stage", FALSE, 1, 0, 0)>> >>

\* Plays that nothing can disable, and plays that may fail.
PlainPlays   == << <<Set("undefined", FALSE, 1, 1, 0)>> >>
FailingPlays == << <<Set("stage", FALSE, 1, 0, 0)>> >>
TwoPhases    == << <<Set("undefined", FALSE, 1, 0, 0)>>,
                   <<Set("phase", FALSE, 1, 0, 0),
                     Set("undefined", FALSE, 1, 0, 0)>> >>

\* One phase disables the stage and has a second command set; the next phase
\* is the only other one, so only that second set can turn plays on again.
StagePlays ==
  << <<Set("stage", FALSE, 1, 0, 0), Set("undefined", FALSE, 1, 0, 0)>>,
     <<Set("undefined", FALSE, 1, 0, 0)>> >>

\* Two interfaces; one with a VLAN that has two MAC addresses and with a
\* source for direct testing, in a second stage.
InterRows ==
  { Row(1, 1, 10, 1, 2, {1, 2}, TRUE), Row(1, 1, 10, 2, 4, {1}, TRUE),
    Row(1, 2, 20, 0, 6, {}, TRUE), Row(2, 1, NONE, 1, 3, {1}, TRUE) }
InterOptions ==
  { Options("inter", TRUE, np, FALSE) : np \in BOOLEAN }
    \cup { [Options("inter", TRUE, FALSE, FALSE) EXCEPT
             !.excluded = {9}, !.stages = {1}, !.phases = {2, 3}],
           Options("inter", FALSE, TRUE, TRUE) }

\* Two VLANs and direct testing on one interface; a second interface, with a
\* VLAN and a source on the reserved number.
OneIface ==
  { Row(1, 1, 10, 1, 2, {}, FALSE), Row(1, 1, 20, 0, 4, {}, FALSE),
    Row(1, 1, NONE, 1, 6, {}, FALSE) }
TwoIfaces ==
  OneIface \cup { Row(1, 2, 10, 0, 8, {}, FALSE),
                  Row(1, 2, RESERVED, 0, 8, {}, FALSE) }
IntraOptions == { Options("intra", TRUE, TRUE, FALSE) }

\* The same, and a dry run.
IntraBoth ==
  { Options("intra", execute, TRUE, ~execute) : execute \in BOOLEAN }

\* Runs that crash and are started again, with the per-phase interface
\* check off and on.
CrashRows ==
  { Row(1, 1, 10, 1, 2, {1}, TRUE), Row(2, 1, NONE, 0, 3, {1}, FALSE) }
CrashOptions ==
  { Options("inter", TRUE, TRUE, check) : check \in BOOLEAN }

\* One source, with the interface check on.
CheckRows    == { Row(1, 1, 10, 0, 2, {1}, TRUE) }
CheckOptions == { Options("inter", TRUE, TRUE, TRUE) }
=============================================================================
