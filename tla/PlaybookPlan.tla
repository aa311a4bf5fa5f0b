---------------------------- MODULE PlaybookPlan ----------------------------
(***************************************************************************)
(* The work of one nmdb-playbook run as data: which commands each thread   *)
(* issues and in which order.  The control flow of the tool's threads      *)
(* depends only on the rows of the playbook tables, on the plays file and  *)
(* on the command line (a failed command flips flags, it never changes the *)
(* path), so the nested loops of nmdb-playbook.cpp and the constructors    *)
(* and destructors of its RAII guards flatten into one sequence of steps   *)
(* per thread.  Module Playbook runs these sequences concurrently.         *)
(*                                                                         *)
(* Threads: <<>> is main, <<iface>> the thread of a physical interface,    *)
(* <<iface, vlan>> the thread of a VLAN (or, for vlan = NONE, of direct    *)
(* testing on the interface).  Keys are numbers, so that the order of      *)
(* std::map and std::set is the order of the numbers; MAC 0 is the empty   *)
(* string.                                                                 *)
(***************************************************************************)
EXTENDS Naturals, Sequences, FiniteSets, SequencesExt, HostNetwork

CONSTANTS
  Rows,       \* the rows of the scope's playbook table, see RowType below
  Plays,      \* the plays file: a sequence of phases, each of command sets
  OptionSet   \* the command lines (and runtime options) considered

NONE     == 65535   \* VlanId::NONE
RESERVED == 4095    \* VlanId::RESERVED

\* addr identifies an address with its prefix; both says that the source is
\* in the intra-network and in the inter-network table.
RowType ==
  [stage : Nat, iface : Nat, vlan : 0..RESERVED \cup {NONE}, mac : Nat,
   addr : Nat, family : {4, 6}, routers : SUBSET Nat, both : BOOLEAN]

CommandSetType ==
  [onFail : {"undefined", "phase", "stage"}, skip : BOOLEAN,
   always : Nat, ipv4 : Nat, ipv6 : Nat]

OptionType ==
  [scope : {"intra", "inter"}, execute : BOOLEAN, noPrompt : BOOLEAN,
   ignoreIfaceStateChange : BOOLEAN, excluded : SUBSET Nat,
   stages : SUBSET Nat, phases : SUBSET Nat]

ASSUME RowsAssumption ==
  /\ Rows \subseteq RowType /\ IsFiniteSet(Rows)
  /\ \A r \in Rows : IsFiniteSet(r.routers)
  /\ \A r, q \in Rows :        \* UNIQUE (stage, interface, vlan, ip_addr)
       r.stage = q.stage /\ r.iface = q.iface /\ r.vlan = q.vlan
         /\ r.addr = q.addr => r = q

ASSUME OptionsAssumption ==
  /\ OptionSet \subseteq OptionType
  /\ Plays \in Seq(Seq(CommandSetType))

Main    == <<>>
Ifaces  == {r.iface : r \in Rows}
Stages  == {r.stage : r \in Rows}
Threads == {Main} \cup {<<i>> : i \in Ifaces}
             \cup {<<r.iface, r.vlan>> : r \in Rows}

-----------------------------------------------------------------------------
(* Loops.  Concat(n, Item) is Item(1) \o ... \o Item(n); ForEach iterates  *)
(* over the keys of a std::map or std::set in their order.                 *)

Concat(n, Item(_)) == FlattenSeq([k \in 1..n |-> Item(k)])

\* The n-th key is the one with n - 1 keys before it.
Ascending(S) ==
  [n \in 1..Cardinality(S) |->
    CHOOSE x \in S : Cardinality({y \in S : y < x}) = n - 1]

ForEach(S, Body(_)) ==
  LET keys == Ascending(S) IN Concat(Len(keys), LAMBDA n : Body(keys[n]))

-----------------------------------------------------------------------------
(* Steps.  A block is one lock_guard scope on coutMutex with the commands  *)
(* it passes to the command runner; a set is the block of a command set of *)
(* the plays file.                                                         *)

Sleep         == Cmd("sleep", NoLink, 0)
Block(cmds)   == <<[do |-> "block", cmds |-> cmds]>>
Do(what)      == <<[do |-> what, cmds |-> <<>>]>>

\* The guards of Raii*.cpp: each runs its commands and then sleeps.
VlanIfaceName(t) == IF t[2] < RESERVED THEN t ELSE NoLink
LinkName(t)      == IF RESERVED > t[2] THEN VlanIfaceName(t) ELSE Base(t)

RaiiVlan(t) ==
  IF t[2] = NONE \/ RESERVED <= t[2] THEN <<>>
  ELSE Block(<<Cmd("link add", VlanIfaceName(t), 0), Sleep>>)

\* Mutant: the guard of the destructor is inverted.
UndoRaiiVlanInverted(t) ==
  IF t[2] < RESERVED THEN <<>>
  ELSE Block(<<Cmd("link del", VlanIfaceName(t), 0), Sleep>>)

UndoRaiiVlan(t) ==
  IF t[2] > RESERVED THEN <<>>
  ELSE Block(<<Cmd("link del", VlanIfaceName(t), 0), Sleep>>)

RaiiMacAddr(l, mac) ==
  IF mac = 0 THEN <<>> ELSE Block(<<Cmd("mac set", l, mac), Sleep>>)

UndoRaiiMacAddr(l, mac) ==
  IF mac = 0 THEN <<>> ELSE Block(<<Cmd("mac reset", l, 0), Sleep>>)

RaiiIpLink(l) ==
  Block(<<Cmd("sysctl off", l, "autoconf"), Cmd("sysctl off", l, "accept_ra"),
          Cmd("link up", l, 0), Sleep>>)

UndoRaiiIpLink(l) == Block(<<Cmd("link down", l, 0), Sleep>>)

RaiiIpAddr(l, addr) ==
  Block(<<Cmd("sysctl on", l, "autoconf"), Cmd("sysctl on", l, "accept_ra"),
          Cmd("addr add", l, addr), Sleep>>)

UndoRaiiIpAddr(l, addr) ==
  Block(<<Cmd("addr del", l, addr), Cmd("sysctl off", l, "accept_ra"),
          Cmd("sysctl off", l, "autoconf"), Sleep>>)

RaiiIpRoute(l, rtr) ==
  Block(<<Cmd("route add", l, rtr), Cmd("default add", NoLink, rtr),
          Cmd("flush cache", NoLink, 0), Sleep>>)

UndoRaiiIpRoute(l, rtr) ==
  Block(<<Cmd("default del", NoLink, rtr), Cmd("route del", l, rtr),
          Cmd("flush cache", NoLink, 0), Sleep>>)

captureTraffic(l) == Block(<<Cmd("dumpcap", l, 0)>>)

-----------------------------------------------------------------------------
(* The plays of one source (through one router, when inter-network).       *)

SourceLink(src) == LinkName(<<src.iface, src.vlan>>)

\* addPhaseCommands for `always` and then for the source's address family.
PhaseCommands(src, rtr, p, s) ==
  LET set == Plays[p][s]
      size == set.always + IF src.family = 4 THEN set.ipv4 ELSE set.ipv6
  IN  [n \in 1..size |->
        Cmd("play", SourceLink(src),
            [src |-> src, rtr |-> rtr, phase |-> p, set |-> s, n |-> n])]

\* --no-prompt turns the runner off for a `no-prompt: skip` set before the
\* set takes the lock.
runPhaseCommands(o, src, rtr, p, s) ==
  (IF o.noPrompt /\ Plays[p][s].skip THEN Do("disable") ELSE <<>>)
    \o <<[do |-> "set", cmds |-> PhaseCommands(src, rtr, p, s),
          onFail |-> Plays[p][s].onFail]>>

phaseCheck(o, src) ==
  IF o.ignoreIfaceStateChange
  THEN <<[do |-> "check", cmds |-> <<>>, src |-> src]>> ELSE <<>>

phaseActions(o, src, rtr) ==
  Concat(Len(Plays), LAMBDA p :
    phaseCheck(o, src)
      \o (IF o.phases # {} /\ p \notin o.phases THEN <<>>
          ELSE Concat(Len(Plays[p]), LAMBDA s :
                 runPhaseCommands(o, src, rtr, p, s)))
      \o Do("end of phase"))

networkActions(o, src, rtr) ==
  Do("session") \o phaseActions(o, src, rtr) \o Do("reset") \o Block(<<>>)

setCompleted(src) == <<[do |-> "complete", cmds |-> <<>>, src |-> src]>>

\* The tests of a source: once, or inter-network once per router.
sourceTests(o, src) ==
  LET l == SourceLink(src) IN
  IF o.scope = "intra" THEN networkActions(o, src, 0)
  ELSE ForEach(src.routers, LAMBDA rtr :
         RaiiIpRoute(l, rtr) \o networkActions(o, src, rtr)
           \o UndoRaiiIpRoute(l, rtr))

\* Mutant: completion is recorded before the tests.
sourceActionsCompletedEarly(o, src) ==
  RaiiIpAddr(SourceLink(src), src.addr)
    \o setCompleted(src) \o sourceTests(o, src)
    \o UndoRaiiIpAddr(SourceLink(src), src.addr)

sourceActions(o, src) ==
  RaiiIpAddr(SourceLink(src), src.addr)
    \o sourceTests(o, src) \o setCompleted(src)
    \o UndoRaiiIpAddr(SourceLink(src), src.addr)

-----------------------------------------------------------------------------
(* The three kinds of thread.  rows are the rows the run loaded.           *)

SourceAt(rows, addr) == CHOOSE r \in rows : r.addr = addr

vlanIfaceThreadActions(o, rows, stage, t) ==
  LET mine == {r \in rows : /\ r.stage = stage
                            /\ r.iface = t[1] /\ r.vlan = t[2]}
      ofMac(mac) == {r \in mine : r.mac = mac}
      l == LinkName(t)
  IN  RaiiVlan(t)
        \o (IF RESERVED <= t[2] /\ NONE # t[2] THEN <<>>
            ELSE ForEach({r.mac : r \in mine}, LAMBDA mac :
              RaiiMacAddr(l, mac) \o RaiiIpLink(l)
                \o (IF t[2] = NONE THEN captureTraffic(l) ELSE <<>>)
                \o ForEach({r.addr : r \in ofMac(mac)}, LAMBDA addr :
                     sourceActions(o, SourceAt(ofMac(mac), addr)))
                \o UndoRaiiIpLink(l) \o UndoRaiiMacAddr(l, mac)))
        \o UndoRaiiVlan(t)

Spawn(t) == [do |-> "spawn", cmds |-> <<>>, thread |-> t]
Join(t)  == [do |-> "join",  cmds |-> <<>>, thread |-> t]

\* Mutant: the join of the inter-network scope is left out of the loop.
startThreadsTogether(o, ts) ==
  [n \in 1..(2 * Len(ts)) |->
    IF n <= Len(ts) THEN Spawn(ts[n]) ELSE Join(ts[n - Len(ts)])]

\* Intra-network threads are all started and then joined; inter-network
\* ones are joined each before the next is started.
startThreads(o, ts) ==
  [n \in 1..(2 * Len(ts)) |->
    IF o.scope = "intra"
    THEN IF n <= Len(ts) THEN Spawn(ts[n]) ELSE Join(ts[n - Len(ts)])
    ELSE IF n % 2 = 1 THEN Spawn(ts[(n + 1) \div 2]) ELSE Join(ts[n \div 2])]

physIfaceThreadActions(o, rows, stage, t) ==
  LET mine  == {r \in rows : r.stage = stage /\ r.iface = t[1]}
      vlans == Ascending({r.vlan : r \in mine} \ {NONE})
      first == Ascending({r.vlan : r \in mine})[1]
      mac   == Ascending({r.mac : r \in {q \in mine : q.vlan = first}})[1]
      direct == <<t[1], NONE>>
  IN  RaiiMacAddr(t, mac) \o RaiiIpLink(t) \o captureTraffic(t)
        \o startThreads(o, [n \in 1..Len(vlans) |-> <<t[1], vlans[n]>>])
        \o UndoRaiiIpLink(t) \o UndoRaiiMacAddr(t, mac)
        \o (IF \E r \in mine : r.vlan = NONE
            THEN <<Spawn(direct), Join(direct)>> ELSE <<>>)

\* One turn of runTool's loop over the stages.
stageActions(o, rows, stage) ==
  LET ifaces == Ascending({r.iface : r \in {q \in rows : q.stage = stage}})
  IN  Do("stage")
        \o startThreads(o, [n \in 1..Len(ifaces) |-> <<ifaces[n]>>])
        \o Block(<<>>)

\* The stages a run goes through, in order.
enabledStages(o, rows) ==
  Ascending({s \in {r.stage : r \in rows} : o.stages = {} \/ s \in o.stages})

HasRows(rows, stage, t) ==
  \E r \in rows : /\ r.stage = stage
                  /\ Len(t) >= 1 => r.iface = t[1]
                  /\ Len(t) = 2 => r.vlan = t[2]

threadActions(o, rows, stage, t) ==
  IF ~HasRows(rows, stage, t) THEN <<>>
  ELSE IF t = Main THEN stageActions(o, rows, stage)
  ELSE IF Len(t) = 1 THEN physIfaceThreadActions(o, rows, stage, t)
  ELSE vlanIfaceThreadActions(o, rows, stage, t)

\* Every thread's steps, stage by stage, for a run that loaded `rows`.
Plan(o, rows) ==
  LET stages == enabledStages(o, rows)
  IN  [n \in 1..Len(stages) |-> [t \in Threads |->
        threadActions(o, rows, stages[n], t)]]

-----------------------------------------------------------------------------
(* The reference numbering: the commands of a run in the order a serial    *)
(* walk of the plan issues them.  The n-th has command ID n.               *)

Inline(steps, Child(_)) ==
  Concat(Len(steps), LAMBDA n :
    IF steps[n].do = "spawn" THEN Child(steps[n].thread) ELSE steps[n].cmds)

Script(plan) ==
  Concat(Len(plan), LAMBDA n :
    LET P == plan[n]
        Leaf(t) == Inline(P[t], LAMBDA u : <<>>)
    IN  Inline(P[Main], LAMBDA i : Inline(P[i], Leaf)))
=============================================================================
