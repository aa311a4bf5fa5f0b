------------------------- MODULE PlaybookTestProofs -------------------------
(***************************************************************************)
(* That an inter-network source which nmdb-playbook records as completed   *)
(* was tested: every play of the plays file was executed for it or there   *)
(* is a reason for the one that was not.  The argument follows the         *)
(* runner's `execute` flag: whenever it is off, the session that is under  *)
(* way has a reason, and the reasons are kept for as long as they count.   *)
(***************************************************************************)
EXTENDS PlaybookProofs

-----------------------------------------------------------------------------
(* What is kept.                                                           *)

\* A play that was executed, or left out for a reason.
Settled(c) == c \in ran \/ Excused(c)

Covered(src, rtr, p, s) ==
  \A c \in ToSet(PhaseCommands(src, rtr, p, s)) : Settled(c)

\* What has been executed and what has failed are not forgotten by a run.
Remembers ==
  opts' = opts /\ ran \subseteq ran' /\ failed \subseteq failed' /\ errors \subseteq errors'

\* Only the start of a run forgets.
LEMMA NextRemembers ==
  ASSUME [Next]_vars, ~Start
  PROVE  Remembers
<1> USE DEF Remembers
<1>1. CASE StageBegin \/ StageQuit \/ StageEnd \/ Crash \/ Flap \/ UNCHANGED vars
  BY <1>1 DEF StageBegin, StageQuit, StageEnd, Crash, Flap, vars, flow, host, ghost
<1>2. ASSUME NEW t \in Threads, ThreadStep(t) PROVE Remembers
  <2>1. CASE DisableSkippedSet(t) \/ EndPhase(t) \/ EndSession(t)
    BY <2>1, Zenon DEF DisableSkippedSet, EndPhase, EndSession, SetExecute, host, ghost
  <2>2. CASE SpawnThread(t) \/ JoinThread(t) \/ Lock(t) \/ PlayOk(t) \/ Unlock(t)
             \/ BeginSession(t) \/ CheckAborts(t)
    BY <2>2 DEF SpawnThread, JoinThread, Lock, PlayOk, Unlock, BeginSession,
      CheckAborts, flow, host, ghost
  <2>3. CASE SystemExec(t)
    BY <2>3 DEF SystemExec, Issue
  <2>4. CASE StartPlay(t)
    BY <2>4 DEF StartPlay, Issue
  <2>5. CASE PlayFails(t)
    BY <2>5 DEF PlayFails, flow, host
  <2>6. CASE CheckPhase(t) \/ Complete(t)
    BY <2>6 DEF CheckPhase, Complete, ghost
  <2> QED BY <1>2, <2>1, <2>2, <2>3, <2>4, <2>5, <2>6 DEF ThreadStep
<1> QED BY <1>1, <1>2 DEF Next, Progress, Finished

\* A play that is settled stays settled.
LEMMA SettledKept ==
  ASSUME Remembers, NEW c, Settled(c)
  PROVE  Settled(c)'
<1>1. CASE c \in ran
  BY <1>1 DEF Remembers, Settled
<1>2. CASE Excused(c)
  <2>1. Excused(c)'
    BY <1>2 DEF Remembers, Excused, SameSession
  <2> QED BY <2>1 DEF Settled
<1> QED BY <1>1, <1>2 DEF Settled

\* A command set whose plays are settled stays so.
LEMMA CoveredKept ==
  ASSUME Remembers, NEW src, NEW rtr, NEW p, NEW s, Covered(src, rtr, p, s)
  PROVE  Covered(src, rtr, p, s)'
BY SettledKept DEF Covered

-----------------------------------------------------------------------------
(* The invariant.                                                          *)

\* The command sets a thread at A is through with in its session.
Passed(A, p, s) ==
  /\ p \in 1..Len(Plays) /\ s \in 1..Len(Plays[p]) /\ PhaseEnabled(opts, p)
  /\ p < A.phase \/ (p = A.phase /\ s <= A.set)

\* The plays of the sessions tested before A are settled, and those of the
\* sets it is through with in its own.
CoveredAt(A) ==
  /\ \A x \in A.tested : \A p \in 1..Len(Plays) : \A s \in 1..Len(Plays[p]) :
       PhaseEnabled(opts, p) => Covered(x[1], x[2], p, s)
  /\ A.phase # 0 =>
       \A p, s : Passed(A, p, s) => Covered(A.src, A.rtr, p, s)

TestsCovered == \A t \in Threads : pc[t] > 0 => CoveredAt(Now(t))

\* The plays of the current block that were handed to the runner are settled.
IssuedSettled ==
  \A t \in Threads : coutMutex = t /\ At(t, "set") =>
    \A k \in 1..issued[t] : Settled(Cmds(t)[k])

\* A failure of the session thread t is in, in this phase or an earlier one.
FailedBefore(t) ==
  \E f \in failed : /\ f.arg.src = Now(t).src /\ f.arg.rtr = Now(t).rtr
                    /\ f.arg.phase \in Nat /\ f.arg.phase <= Now(t).phase

SkippedBefore(t) ==
  /\ opts.noPrompt /\ Now(t).phase \in 1..Len(Plays)
  /\ \E s \in 1..Len(Plays[Now(t).phase]) :
       s <= Now(t).set + 1 /\ Plays[Now(t).phase][s].skip

Reason(t) ==
  /\ Now(t).phase # 0
  /\ \/ FailedBefore(t) \/ SkippedBefore(t)
     \/ \E e \in errors : e[1] = Now(t).src

\* While the runner is off, a session is under way that has a reason for it,
\* and a thread that will leave it off has had a failure.
OffForReason ==
  /\ ~runnerExecute => \E t \in Threads : pc[t] > 0 /\ Reason(t)
  /\ \A t \in Threads : pc[t] > 0 /\ Now(t).phase # 0 /\ ~stageEnabled[t]
       => FailedBefore(t)

Accounted ==
  proc = "up" /\ opts.execute /\ opts.scope = "inter" =>
    TestsCovered /\ IssuedSettled /\ OffForReason


-----------------------------------------------------------------------------
(* What was tested is settled.                                             *)

\* What lies behind a control point stays settled.
LEMMA CoveredAtKept ==
  ASSUME Remembers, NEW A, CoveredAt(A)
  PROVE  CoveredAt(A)'
<1>1. opts' = opts
  BY DEF Remembers
<1>2. ASSUME NEW x \in A.tested, NEW p \in 1..Len(Plays), NEW s \in 1..Len(Plays[p]),
             PhaseEnabled(opts, p)
      PROVE  Covered(x[1], x[2], p, s)'
  <2>1. Covered(x[1], x[2], p, s)
    BY <1>2 DEF CoveredAt
  <2> QED BY <2>1, CoveredKept
<1>3. ASSUME A.phase # 0, NEW p, NEW s, Passed(A, p, s)
      PROVE  Covered(A.src, A.rtr, p, s)'
  <2>1. Covered(A.src, A.rtr, p, s)
    BY <1>3 DEF CoveredAt
  <2> QED BY <2>1, CoveredKept
<1> QED BY <1>1, <1>2, <1>3 DEF CoveredAt, Passed

\* A step settles what comes to lie behind it, if the plays of a command set
\* are settled when its block ends.
LEMMA CoveredStep ==
  ASSUME NEW t, NEW own, NEW A, NEW x, NEW B, Follows(opts, t, own, A, x, B),
         IsControl(own, A), CoveredAt(A),
         x.do = "set" => Covered(A.src, A.rtr, A.phase, A.set + 1)
  PROVE  CoveredAt(B)
<1> DEFINE Tested(C) ==
             \A y \in C.tested : \A p \in 1..Len(Plays) : \A s \in 1..Len(Plays[p]) :
               PhaseEnabled(opts, p) => Covered(y[1], y[2], p, s)
           Under(C) ==
             C.phase # 0 => \A p, s : Passed(C, p, s) => Covered(C.src, C.rtr, p, s)
<1>0. \A C : CoveredAt(C) <=> Tested(C) /\ Under(C)
  BY DEF CoveredAt
<1>1. Tested(A) /\ Under(A) /\ A.phase \in Nat /\ A.set \in Nat
  BY <1>0 DEF IsControl
<1>2. Len(Plays) \in Nat /\ \A p \in 1..Len(Plays) : Len(Plays[p]) \in Nat
  <2>1. \A p \in 1..Len(Plays) : Plays[p] \in Seq(CommandSetType)
    BY OptionsAssumption, ElementOfSeq
  <2> QED BY <2>1, OptionsAssumption
<1>3. CASE x.do = "session"
  <2>1. B.tested = A.tested /\ B.phase = 1 /\ B.set = 0
    <3>1. SessionFollows(opts, own, A, x, B)
      BY <1>3, FollowsKind
    <3> QED BY <3>1 DEF SessionFollows, Control
  <2>2. \A p, s : ~Passed(B, p, s)
    BY <1>2, <2>1 DEF Passed
  <2> QED BY <1>0, <1>1, <2>1, <2>2
<1>4. CASE x.do = "set"
  <2>1. /\ B.tested = A.tested /\ B.src = A.src /\ B.rtr = A.rtr
        /\ B.phase = A.phase /\ B.set = A.set + 1
    <3>1. SetFollows(A, x, B)
      BY <1>4, FollowsKind
    <3> QED BY <3>1 DEF SetFollows, Control
  <2>2. ASSUME B.phase # 0, NEW p, NEW s, Passed(B, p, s)
        PROVE  Covered(B.src, B.rtr, p, s)
    <3>1. CASE p = A.phase /\ s = A.set + 1
      BY <1>4, <2>1, <3>1
    <3>2. CASE ~(p = A.phase /\ s = A.set + 1)
      <4>1. s \in Nat /\ p \in Nat
        BY <1>2, <2>2 DEF Passed
      <4>2. Passed(A, p, s)
        BY <1>1, <2>1, <2>2, <3>2, <4>1 DEF Passed
      <4> QED BY <1>1, <2>1, <2>2, <4>2
    <3> QED BY <3>1, <3>2
  <2> QED BY <1>0, <1>1, <2>1, <2>2
<1>5. CASE x.do = "end of phase"
  <2>1. /\ B.tested = A.tested /\ B.src = A.src /\ B.rtr = A.rtr
        /\ B.phase = A.phase + 1 /\ B.set = 0 /\ A.phase \in 1..Len(Plays)
    <3>1. EndPhaseFollows(opts, A, x, B)
      BY <1>5, FollowsKind
    <3> QED BY <3>1 DEF EndPhaseFollows, Control
  <2>e. PhaseEnabled(opts, A.phase) => A.set = Len(Plays[A.phase])
    <3>1. EndPhaseFollows(opts, A, x, B)
      BY <1>5, FollowsKind
    <3> QED BY <3>1 DEF EndPhaseFollows
  <2>2. ASSUME NEW p, NEW s, Passed(B, p, s)
        PROVE  Covered(B.src, B.rtr, p, s)
    <3>1. s \in Nat /\ p \in Nat /\ s >= 1 /\ s <= Len(Plays[p]) /\ p < A.phase + 1
      BY <1>1, <1>2, <2>1, <2>2 DEF Passed
    <3>2. p < A.phase \/ (p = A.phase /\ s <= A.set)
      BY <1>1, <2>1, <2>2, <2>e, <3>1 DEF Passed
    <3>3. Passed(A, p, s)
      BY <2>2, <3>2 DEF Passed
    <3>4. A.phase # 0
      BY <1>2, <2>1
    <3> QED BY <1>1, <2>1, <3>3, <3>4
  <2> QED BY <1>0, <1>1, <2>1, <2>2
<1>6. CASE x.do = "reset"
  <2>1. /\ B.tested = A.tested \cup {<<A.src, A.rtr>>}
        /\ A.phase = Len(Plays) + 1 /\ B.phase = 0
    <3>1. ResetFollows(A, x, B)
      BY <1>6, FollowsKind
    <3> QED BY <3>1 DEF ResetFollows, Control
  <2>2. ASSUME NEW p \in 1..Len(Plays), NEW s \in 1..Len(Plays[p]), PhaseEnabled(opts, p)
        PROVE  Covered(A.src, A.rtr, p, s)
    <3>1. A.phase # 0 /\ p < A.phase
      BY <1>2, <2>1
    <3>2. Passed(A, p, s)
      BY <2>2, <3>1 DEF Passed
    <3> QED BY <1>1, <3>1, <3>2
  <2>3. <<A.src, A.rtr>>[1] = A.src /\ <<A.src, A.rtr>>[2] = A.rtr
    OBVIOUS
  <2>4. Tested(B)
    BY <1>1, <2>1, <2>2, <2>3
  <2> QED BY <1>0, <2>1, <2>4
<1>7. CASE x.do = "complete"
  <2>1. B.tested = A.tested /\ B.phase = 0
    <3>1. CompleteFollows(opts, own, A, x, B)
      BY <1>7, FollowsKind
    <3> QED BY <3>1 DEF CompleteFollows, Control
  <2> QED BY <1>0, <1>1, <2>1
<1>8. CASE x.do \notin {"session", "set", "end of phase", "reset", "complete"}
  <2>1. SamePlace(B, A)
    BY <1>8, FollowsElsewhere
  <2>2. \A p, s : Passed(B, p, s) => Passed(A, p, s)
    BY <2>1 DEF SamePlace, Passed
  <2> QED BY <1>0, <1>1, <2>1, <2>2 DEF SamePlace
<1> QED BY <1>3, <1>4, <1>5, <1>6, <1>7, <1>8

\* A thread leaves the block of a command set when it releases the mutex.
LEMMA SetEnds ==
  ASSUME NEW t \in Threads, ThreadStep(t), At(t, "set"), pc' # pc
  PROVE  Unlock(t)
<1>1. ~(DisableSkippedSet(t) \/ EndPhase(t) \/ EndSession(t))
  BY Zenon DEF DisableSkippedSet, EndPhase, EndSession, SetExecute, At
<1>2. ~(SpawnThread(t) \/ JoinThread(t) \/ BeginSession(t) \/ CheckPhase(t)
         \/ CheckAborts(t) \/ Complete(t))
  BY DEF SpawnThread, JoinThread, BeginSession, CheckPhase, CheckAborts, Complete, At
<1>3. ~(Lock(t) \/ SystemExec(t) \/ StartPlay(t) \/ PlayOk(t) \/ PlayFails(t))
  BY DEF Lock, SystemExec, StartPlay, Issue, PlayOk, PlayFails, flow
<1> QED BY <1>1, <1>2, <1>3 DEF ThreadStep

\* A move keeps what was tested covered.
LEMMA MoveCovered ==
  ASSUME Located, Remembers, TestsCovered, IssuedSettled, NEW t \in Threads,
         Moves(t), ThreadStep(t) \/ (StageBegin /\ t = Main)
  PROVE  TestsCovered'
<1> USE DEF Located
<1>1. proc = "up" /\ Alive(t) /\ UNCHANGED <<proc, opts, loaded, plan, stage>>
  BY DEF Moves
<1>2. /\ pc[t] \in Nat /\ pc[t] > 0 /\ IsControl(Sources(t), Now(t))
      /\ Follows(opts, t, Sources(t), Now(t), Step(t), After(t))
  <2>1. pc[t] \in 1..(Len(Steps(t)) + 1) /\ pc[t] > 0
    BY <1>1, StateTraced DEF Alive
  <2> QED BY <1>1, <2>1, StateTraced
<1>3. ASSUME pc' # pc, Step(t).do = "set"
      PROVE  Covered(Now(t).src, Now(t).rtr, Now(t).phase, Now(t).set + 1)
  <2>1. At(t, "set") /\ ThreadStep(t)
    BY <1>1, <1>3 DEF At, StageBegin
  <2>2. Unlock(t)
    BY <1>3, <2>1, SetEnds
  <2>3. coutMutex = t /\ issued[t] = Len(Cmds(t))
    BY <2>2 DEF Unlock
  <2> DEFINE cmds == PhaseCommands(Now(t).src, Now(t).rtr, Now(t).phase, Now(t).set + 1)
  <2>4. SetFollows(Now(t), Step(t), After(t))
    BY <1>2, <1>3, FollowsKind
  <2>5. /\ Cmds(t) = cmds /\ DOMAIN cmds = 1..Len(cmds)
    BY <2>4, PhaseCommandsTyped DEF SetFollows, HasNextSet, Cmds
  <2>6. \A k \in 1..Len(Cmds(t)) : Settled(Cmds(t)[k])
    BY <2>1, <2>3 DEF IssuedSettled
  <2> HIDE DEF cmds
  <2>7. \A k \in DOMAIN cmds : Settled(cmds[k])
    BY <2>5, <2>6
  <2>8. \A c \in ToSet(cmds) : Settled(c)
    BY <2>7 DEF ToSet
  <2> QED BY <2>8 DEF Covered, cmds
<1>4. CoveredAt(Beginning)'
  BY DEF CoveredAt, Beginning, Control
<1>5. ASSUME NEW u \in Threads, pc'[u] > 0
      PROVE  CoveredAt(Now(u))'
  <2>1. CASE u = t /\ pc' # pc
    <3>1. CoveredAt(Now(t))
      BY <1>2 DEF TestsCovered
    <3>2. CoveredAt(After(t))
      BY <1>2, <1>3, <2>1, <3>1, CoveredStep
    <3>3. PICK B : B = After(t)
      OBVIOUS
    <3>4. CoveredAt(B)'
      BY <3>2, <3>3, CoveredAtKept
    <3>5. Now(t)' = B
      BY <2>1, <3>3, Frame
    <3> QED BY <2>1, <3>4, <3>5 DEF CoveredAt, Passed
  <2>2. CASE pc'[u] = pc[u] /\ Now(u)' = Now(u)
    <3>1. CoveredAt(Now(u))
      BY <1>5, <2>2 DEF TestsCovered
    <3>2. PICK A : A = Now(u)
      OBVIOUS
    <3>3. CoveredAt(A)'
      BY <3>1, <3>2, CoveredAtKept
    <3> QED BY <2>2, <3>2, <3>3 DEF CoveredAt, Passed
  <2>3. CASE Now(u)' = Beginning
    BY <1>4, <2>3 DEF CoveredAt, Passed
  <2>4. pc' = pc => pc'[u] = pc[u] /\ Now(u)' = Now(u)
    BY <1>1 DEF Now, Trace
  <2> QED BY <2>1, <2>2, <2>3, <2>4, Frame
<1> QED BY <1>5 DEF TestsCovered


-----------------------------------------------------------------------------
(* The runner is off for a reason.                                         *)

\* The steps of a session are taken by these actions.
LEMMA SessionSteps ==
  ASSUME NEW t \in Threads, ThreadStep(t), pc' # pc
  PROVE  /\ At(t, "session") => BeginSession(t)
         /\ At(t, "end of phase") => EndPhase(t)
         /\ At(t, "reset") => EndSession(t)
<1> SUFFICES ASSUME Step(t).do \in {"session", "end of phase", "reset"}
             PROVE  /\ BeginSession(t) \/ EndPhase(t) \/ EndSession(t)
                    /\ BeginSession(t) => Step(t).do = "session"
                    /\ EndPhase(t) => Step(t).do = "end of phase"
                    /\ EndSession(t) => Step(t).do = "reset"
  BY Zenon DEF At
<1>1. ~DisableSkippedSet(t)
  BY Zenon DEF DisableSkippedSet, SetExecute, At
<1>2. ~(SpawnThread(t) \/ JoinThread(t) \/ CheckPhase(t)
         \/ CheckAborts(t) \/ Complete(t))
  BY DEF SpawnThread, JoinThread, CheckPhase, CheckAborts, Complete, At
<1>3. ~(Lock(t) \/ SystemExec(t) \/ StartPlay(t) \/ PlayOk(t) \/ PlayFails(t) \/ Unlock(t))
  BY DEF Lock, SystemExec, StartPlay, Issue, PlayOk, PlayFails, Unlock, At, AtBlock
<1>4. /\ BeginSession(t) => Step(t).do = "session"
      /\ EndPhase(t) => Step(t).do = "end of phase"
      /\ EndSession(t) => Step(t).do = "reset"
  BY Zenon DEF BeginSession, EndPhase, EndSession, SetExecute, At
<1> QED BY <1>1, <1>2, <1>3, <1>4 DEF ThreadStep

\* A session that is under way goes on, unless it is over.
LEMMA SessionGoesOn ==
  ASSUME Located, NEW t \in Threads, Moves(t), NEW u \in Threads,
         pc[u] > 0, Now(u).phase # 0
  PROVE  /\ pc'[u] > 0 /\ Now(u).phase \in Nat /\ Now(u).set \in Nat
         /\ \/ /\ Now(u)'.src = Now(u).src /\ Now(u)'.rtr = Now(u).rtr
               /\ Now(u)'.phase = Now(u).phase
               /\ Now(u)'.set = Now(u).set \/ Now(u)'.set = Now(u).set + 1
            \/ /\ u = t /\ At(t, "end of phase") /\ pc' # pc
               /\ Now(u)'.src = Now(u).src /\ Now(u)'.rtr = Now(u).rtr
               /\ Now(u)'.phase = Now(u).phase + 1
            \/ u = t /\ At(t, "reset") /\ pc' # pc
<1> USE DEF Located
<1>1. proc = "up" /\ Alive(t) /\ UNCHANGED <<proc, opts, loaded, plan, stage>>
  BY DEF Moves
<1>2. pc[u] \in Nat /\ Now(u).phase \in Nat /\ Now(u).set \in Nat
  <2>1. pc[u] \in 1..(Len(Steps(u)) + 1) /\ pc[u] \in Nat
    BY <1>1, StateTraced DEF Positions
  <2>2. IsControl(Sources(u), Now(u))
    BY <1>1, <2>1, StateTraced
  <2> QED BY <2>1, <2>2 DEF IsControl
<1>3. CASE pc'[u] = pc[u] /\ Now(u)' = Now(u)
  BY <1>2, <1>3
<1>4. CASE u = t /\ pc' # pc
  <2>1. pc'[t] = pc[t] + 1 /\ Now(t)' = After(t)
    BY <1>4, Frame
  <2>2. Follows(opts, t, Sources(t), Now(t), Step(t), After(t))
    BY <1>1, StateTraced
  <2>3. CASE Step(t).do = "session"
    <3>1. SessionFollows(opts, Sources(t), Now(t), Step(t), After(t))
      BY <2>2, <2>3, FollowsKind
    <3> QED BY <1>4, <3>1 DEF SessionFollows
  <2>4. CASE Step(t).do = "set"
    <3>1. SetFollows(Now(t), Step(t), After(t))
      BY <2>2, <2>4, FollowsKind
    <3>2. /\ After(t).src = Now(t).src /\ After(t).rtr = Now(t).rtr
          /\ After(t).phase = Now(t).phase /\ After(t).set = Now(t).set + 1
      BY <3>1 DEF SetFollows, Control
    <3> QED BY <1>2, <1>4, <2>1, <3>2
  <2>5. CASE Step(t).do = "end of phase"
    <3>1. /\ After(t).src = Now(t).src /\ After(t).rtr = Now(t).rtr
          /\ After(t).phase = Now(t).phase + 1
      <4>1. Now(t).phase # 0 =>
              \/ /\ Step(t).do \notin {"end of phase", "reset"}
                 /\ After(t).src = Now(t).src /\ After(t).rtr = Now(t).rtr
                 /\ After(t).phase = Now(t).phase
              \/ /\ Step(t).do = "end of phase"
                 /\ After(t).src = Now(t).src /\ After(t).rtr = Now(t).rtr
                 /\ After(t).phase = Now(t).phase + 1
              \/ /\ Step(t).do = "reset"
                 /\ <<Now(t).src, Now(t).rtr>> \in After(t).tested
        BY <2>2, FollowsSession
      <4> QED BY <1>4, <2>5, <4>1
    <3>2. At(t, "end of phase")
      BY <1>1, <2>5 DEF At
    <3>3. pc'[u] > 0
      BY <1>2, <1>4, <2>1
    <3>4. Now(u)' = After(t) /\ Now(u) = Now(t)
      BY <1>4, <2>1
    <3> QED BY <1>2, <1>4, <3>1, <3>2, <3>3, <3>4
  <2>6. CASE Step(t).do = "reset"
    BY <1>1, <1>2, <1>4, <2>1, <2>6 DEF At
  <2>7. CASE Step(t).do = "complete"
    <3>1. CompleteFollows(opts, Sources(t), Now(t), Step(t), After(t))
      BY <2>2, <2>7, FollowsKind
    <3> QED BY <1>4, <3>1 DEF CompleteFollows
  <2>8. CASE Step(t).do \notin {"session", "set", "end of phase", "reset", "complete"}
    <3>1. SamePlace(After(t), Now(t))
      BY <2>2, <2>8, FollowsElsewhere
    <3>2. /\ After(t).src = Now(t).src /\ After(t).rtr = Now(t).rtr
          /\ After(t).phase = Now(t).phase /\ After(t).set = Now(t).set
      BY <3>1 DEF SamePlace
    <3> QED BY <1>2, <1>4, <2>1, <3>2
  <2> QED BY <2>3, <2>4, <2>5, <2>6, <2>7, <2>8
<1>5. pc' = pc => pc'[u] = pc[u] /\ Now(u)' = Now(u)
  BY <1>1 DEF Now, Trace
<1>6. u # t => pc'[u] = pc[u] /\ Now(u)' = Now(u)
  BY <1>2, Frame
<1> QED BY <1>3, <1>4, <1>5, <1>6

\* A session that is under way was under way before, or begins.
LEMMA SessionWentOn ==
  ASSUME Located, NEW t \in Threads, Moves(t), NEW u \in Threads,
         pc'[u] > 0, Now(u)'.phase # 0, ~(u = t /\ At(t, "session") /\ pc' # pc)
  PROVE  pc[u] > 0 /\ Now(u).phase # 0
<1> USE DEF Located
<1>1. proc = "up" /\ Alive(t) /\ UNCHANGED <<proc, opts, loaded, plan, stage>>
  BY DEF Moves
<1>2. Beginning.phase = 0
  BY DEF Beginning, Control
<1>3. CASE u # t
  BY <1>2, <1>3, Frame
<1>4. CASE u = t /\ pc' = pc
  BY <1>1, <1>4 DEF Now, Trace
<1>5. CASE u = t /\ pc' # pc
  <2>1. pc'[t] = pc[t] + 1 /\ Now(t)' = After(t)
    BY <1>5, Frame
  <2>2. /\ Follows(opts, t, Sources(t), Now(t), Step(t), After(t))
        /\ pc[t] > 0
    BY <1>1, StateTraced DEF Alive
  <2>3. CASE Step(t).do = "session"
    BY <1>1, <1>5, <2>3 DEF At
  <2>4. CASE Step(t).do = "set"
    <3>1. SetFollows(Now(t), Step(t), After(t))
      BY <2>2, <2>4, FollowsKind
    <3>2. After(t).phase = Now(t).phase
      BY <3>1 DEF SetFollows, Control
    <3> QED BY <1>5, <2>1, <2>2, <3>2
  <2>5. CASE Step(t).do = "end of phase"
    <3>1. EndPhaseFollows(opts, Now(t), Step(t), After(t))
      BY <2>2, <2>5, FollowsKind
    <3>2. Now(t).phase \in 1..Len(Plays)
      BY <3>1 DEF EndPhaseFollows
    <3> QED BY <1>5, <2>2, <3>2
  <2>6. CASE Step(t).do = "reset"
    <3>1. ResetFollows(Now(t), Step(t), After(t))
      BY <2>2, <2>6, FollowsKind
    <3>2. After(t).phase = 0
      BY <3>1 DEF ResetFollows, Control
    <3> QED BY <1>5, <2>1, <3>2
  <2>7. CASE Step(t).do = "complete"
    <3>1. CompleteFollows(opts, Sources(t), Now(t), Step(t), After(t))
      BY <2>2, <2>7, FollowsKind
    <3>2. After(t).phase = 0
      BY <3>1 DEF CompleteFollows, Control
    <3> QED BY <1>5, <2>1, <3>2
  <2>8. CASE Step(t).do \notin {"session", "set", "end of phase", "reset", "complete"}
    <3>1. SamePlace(After(t), Now(t))
      BY <2>2, <2>8, FollowsElsewhere
    <3>2. After(t).phase = Now(t).phase
      BY <3>1 DEF SamePlace
    <3> QED BY <1>5, <2>1, <2>2, <3>2
  <2> QED BY <2>3, <2>4, <2>5, <2>6, <2>7, <2>8
<1> QED BY <1>3, <1>4, <1>5


\* A failure and a reason count as long as the session goes on.
LEMMA FailedBeforeKept ==
  ASSUME Remembers, NEW u, FailedBefore(u),
         Now(u)'.src = Now(u).src, Now(u)'.rtr = Now(u).rtr, Now(u).phase \in Nat,
         Now(u)'.phase = Now(u).phase \/ Now(u)'.phase = Now(u).phase + 1
  PROVE  FailedBefore(u)'
<1>1. PICK f \in failed : /\ f.arg.src = Now(u).src /\ f.arg.rtr = Now(u).rtr
                          /\ f.arg.phase \in Nat /\ f.arg.phase <= Now(u).phase
  BY DEF FailedBefore
<1>2. f \in failed' /\ f.arg.phase <= Now(u)'.phase
  BY <1>1 DEF Remembers
<1> QED BY <1>1, <1>2 DEF FailedBefore

\* The reason for a session to be off outlasts a step of the session that
\* stays in its phase.
LEMMA ReasonKept ==
  ASSUME Remembers, NEW u, Reason(u),
         Now(u)'.src = Now(u).src, Now(u)'.rtr = Now(u).rtr,
         Now(u)'.phase = Now(u).phase, Now(u).phase \in Nat, Now(u).set \in Nat,
         Now(u)'.set = Now(u).set \/ Now(u)'.set = Now(u).set + 1
  PROVE  Reason(u)'
<1>1. CASE FailedBefore(u)
  <2>1. FailedBefore(u)'
    BY <1>1, FailedBeforeKept
  <2> QED BY <2>1 DEF Reason
<1>2. CASE SkippedBefore(u)
  <2>1. PICK s \in 1..Len(Plays[Now(u).phase]) :
          s <= Now(u).set + 1 /\ Plays[Now(u).phase][s].skip
    BY <1>2 DEF SkippedBefore
  <2>2. s <= Now(u)'.set + 1
    <3>1. Len(Plays[Now(u).phase]) \in Nat
      <4>1. Now(u).phase \in 1..Len(Plays)
        BY <1>2 DEF SkippedBefore
      <4>2. Plays[Now(u).phase] \in Seq(CommandSetType)
        BY <4>1, OptionsAssumption, ElementOfSeq
      <4> QED BY <4>2
    <3>2. s \in Nat
      BY <3>1
    <3> QED BY <2>1, <3>2
  <2>3. opts' = opts
    BY DEF Remembers
  <2>4. SkippedBefore(u)'
    BY <1>2, <2>1, <2>2, <2>3 DEF SkippedBefore
  <2> QED BY <2>4 DEF Reason
<1>3. CASE \E e \in errors : e[1] = Now(u).src
  <2>1. \E e \in errors' : e[1] = Now(u)'.src
    BY <1>3 DEF Remembers
  <2> QED BY <2>1 DEF Reason
<1> QED BY <1>1, <1>2, <1>3 DEF Reason

Flags == <<runnerExecute, stageEnabled>>

\* Only the updates of a runner, the runtime check and a failing play change
\* the flags, apart from the beginning of a session, which turns its own on.
LEMMA FlagsKept ==
  ASSUME TypeOK, NEW t \in Threads, ThreadStep(t), ~DisableSkippedSet(t), ~EndPhase(t),
         ~EndSession(t), ~CheckPhase(t), ~PlayFails(t)
  PROVE  /\ runnerExecute' = runnerExecute
         /\ \A u \in Threads : ~stageEnabled'[u] =>
              ~stageEnabled[u] /\ ~(u = t /\ BeginSession(t))
<1>0. ASSUME stageEnabled' = [stageEnabled EXCEPT ![t] = TRUE], NEW u \in Threads
      PROVE  stageEnabled'[u] \/ (u # t /\ stageEnabled'[u] = stageEnabled[u])
  <2>1. stageEnabled \in [Threads -> BOOLEAN]
    BY DEF TypeOK
  <2>2. CASE u = t
    BY <1>0, <2>1, <2>2, Zenon
  <2>3. CASE u # t
    BY <1>0, <2>1, <2>3, Zenon
  <2> QED BY <2>2, <2>3
<1>1. CASE Lock(t)
  <2>1. stageEnabled' = stageEnabled \/ stageEnabled' = [stageEnabled EXCEPT ![t] = TRUE]
    BY <1>1 DEF Lock
  <2>2. \A u \in Threads : stageEnabled'[u] \/ stageEnabled'[u] = stageEnabled[u]
    BY <1>0, <2>1
  <2>3. ~BeginSession(t)
    BY <1>1 DEF Lock, BeginSession, At, AtBlock
  <2> QED BY <1>1, <2>2, <2>3 DEF Lock
<1>2. CASE BeginSession(t)
  <2>1. /\ stageEnabled' = [stageEnabled EXCEPT ![t] = TRUE]
        /\ runnerExecute' = runnerExecute
    BY <1>2 DEF BeginSession, runner
  <2>2. \A u \in Threads : stageEnabled'[u] \/ (u # t /\ stageEnabled'[u] = stageEnabled[u])
    BY <1>0, <2>1
  <2> QED BY <2>1, <2>2
<1>3. CASE SpawnThread(t) \/ JoinThread(t) \/ SystemExec(t) \/ StartPlay(t)
           \/ PlayOk(t) \/ Unlock(t) \/ CheckAborts(t) \/ Complete(t)
  <2>1. UNCHANGED Flags
    BY <1>3 DEF SpawnThread, JoinThread, SystemExec, StartPlay, Issue, PlayOk,
      Unlock, CheckAborts, Complete, runner, Flags
  <2>2. ~BeginSession(t)
    BY <1>3 DEF SpawnThread, JoinThread, SystemExec, StartPlay, Issue, PlayOk,
      Unlock, CheckAborts, Complete, BeginSession, At, AtBlock
  <2> QED BY <2>1, <2>2 DEF Flags
<1> QED BY <1>1, <1>2, <1>3 DEF ThreadStep


\* A failure is one of the session its thread is in.
LEMMA FailsNow ==
  ASSUME Located, NEW t \in Threads, PlayFails(t)
  PROVE  /\ \A u \in Threads : Now(u)' = Now(u)
         /\ pc' = pc /\ pc[t] > 0 /\ Now(t).phase # 0
         /\ FailedBefore(t)'
<1>1. /\ proc = "up" /\ UNCHANGED <<proc, opts, loaded, plan, stage, pc>>
      /\ coutMutex = t
  BY DEF PlayFails, At, flow
<1>2. PICK f \in running : failed' = failed \cup {f}
  BY DEF PlayFails
<1>3. /\ IsControl(Sources(t), Now(t)) /\ Now(t).phase # 0 /\ pc[t] > 0
      /\ f.arg.src = Now(t).src /\ f.arg.rtr = Now(t).rtr /\ f.arg.phase = Now(t).phase
  BY <1>1, <1>2, RunningOf
<1>4. f.arg.phase \in Nat /\ f.arg.phase <= Now(t).phase
  BY <1>3 DEF IsControl
<1>5. \A u \in Threads : Now(u)' = Now(u)
  BY <1>1 DEF Now, Trace
<1>6. FailedBefore(t)'
  BY <1>2, <1>3, <1>4, <1>5 DEF FailedBefore
<1> QED BY <1>1, <1>3, <1>5, <1>6

\* After the reset its thread is in no session.
LEMMA ResetEnds ==
  ASSUME Located, NEW t \in Threads, Moves(t), At(t, "reset"), pc' # pc
  PROVE  Now(t)'.phase = 0
<1>1. Now(t)' = After(t)
  BY Frame DEF Located
<1>2. ResetFollows(Now(t), Step(t), After(t))
  BY StateTraced, FollowsKind DEF At, Located
<1>3. After(t).phase = 0
  BY <1>2 DEF ResetFollows, Control
<1> QED BY <1>1, <1>3

\* A thread whose stage is disabled has had a failure in its session.
LEMMA MoveStageOff ==
  ASSUME Located, Remembers, OffForReason, NEW t \in Threads, Moves(t), ThreadStep(t),
         NEW u \in Threads, pc'[u] > 0, Now(u)'.phase # 0, ~stageEnabled'[u]
  PROVE  FailedBefore(u)'
<1>k. ASSUME ~stageEnabled[u], ~(u = t /\ BeginSession(t)) PROVE FailedBefore(u)'
  <2>1. ~(u = t /\ At(t, "session") /\ pc' # pc)
    BY <1>k, SessionSteps
  <2>2. pc[u] > 0 /\ Now(u).phase # 0
    BY <2>1, SessionWentOn
  <2>3. FailedBefore(u)
    BY <1>k, <2>2 DEF OffForReason
  <2>4. ~(u = t /\ At(t, "reset") /\ pc' # pc)
    BY ResetEnds
  <2>5. /\ Now(u).phase \in Nat
        /\ Now(u)'.src = Now(u).src /\ Now(u)'.rtr = Now(u).rtr
        /\ Now(u)'.phase = Now(u).phase \/ Now(u)'.phase = Now(u).phase + 1
    BY <2>2, <2>4, SessionGoesOn
  <2> QED BY <2>3, <2>5, FailedBeforeKept
<1>1. CASE PlayFails(t)
  <2>1. CASE u = t
    BY <1>1, <2>1, FailsNow
  <2>2. CASE u # t
    <3>1. stageEnabled \in [Threads -> BOOLEAN]
      BY DEF Located, TypeInv, TypeOK
    <3>2. stageEnabled' = stageEnabled \/ stageEnabled' = [stageEnabled EXCEPT ![t] = FALSE]
      BY <1>1 DEF PlayFails
    <3>3. ~stageEnabled[u]
      BY <2>2, <3>1, <3>2, Zenon
    <3> QED BY <1>k, <2>2, <3>3
  <2> QED BY <2>1, <2>2
<1>2. CASE DisableSkippedSet(t) \/ EndPhase(t) \/ EndSession(t) \/ CheckPhase(t)
  <2>1. stageEnabled' = stageEnabled /\ ~BeginSession(t)
    <3>1. CASE DisableSkippedSet(t) \/ EndPhase(t) \/ EndSession(t)
      BY <3>1, Zenon DEF DisableSkippedSet, EndPhase, EndSession, SetExecute,
        BeginSession, At
    <3>2. CASE CheckPhase(t)
      BY <3>2 DEF CheckPhase, BeginSession, At
    <3> QED BY <1>2, <3>1, <3>2
  <2> QED BY <1>k, <2>1
<1>3. CASE ~(DisableSkippedSet(t) \/ EndPhase(t) \/ EndSession(t) \/ CheckPhase(t)
             \/ PlayFails(t))
  <2>1. ~stageEnabled[u] /\ ~(u = t /\ BeginSession(t))
    BY <1>3, FlagsKept DEF Located, TypeInv
  <2> QED BY <1>k, <2>1
<1> QED BY <1>1, <1>2, <1>3

\* The runner is off for a reason after a move, too.
LEMMA MoveOff ==
  ASSUME Located, Remembers, OffForReason, opts.execute, NEW t \in Threads,
         Moves(t), ThreadStep(t), ~runnerExecute'
  PROVE  \E u \in Threads : pc'[u] > 0 /\ Reason(u)'
<1>0. /\ proc = "up" /\ Alive(t) /\ UNCHANGED <<proc, opts, loaded, plan, stage>>
      /\ pc[t] > 0 /\ pc[t] \in Nat /\ pc \in [Threads -> Nat]
      /\ Follows(opts, t, Sources(t), Now(t), Step(t), After(t))
  BY StateTraced DEF Moves, Located, Alive, TypeInv, TypeOK
<1>k. ASSUME ~runnerExecute, ~EndPhase(t), ~EndSession(t)
      PROVE  \E u \in Threads : pc'[u] > 0 /\ Reason(u)'
  <2>1. PICK u \in Threads : pc[u] > 0 /\ Reason(u)
    BY <1>k DEF OffForReason
  <2>2. Now(u).phase # 0
    BY <2>1 DEF Reason
  <2>3. /\ ~(u = t /\ At(t, "end of phase") /\ pc' # pc)
        /\ ~(u = t /\ At(t, "reset") /\ pc' # pc)
    BY <1>k, SessionSteps
  <2>4. /\ pc'[u] > 0 /\ Now(u).phase \in Nat /\ Now(u).set \in Nat
        /\ Now(u)'.src = Now(u).src /\ Now(u)'.rtr = Now(u).rtr
        /\ Now(u)'.phase = Now(u).phase
        /\ Now(u)'.set = Now(u).set \/ Now(u)'.set = Now(u).set + 1
    BY <2>1, <2>2, <2>3, SessionGoesOn
  <2>5. Reason(u)'
    BY <2>1, <2>4, ReasonKept
  <2> QED BY <2>4, <2>5
<1>1. CASE PlayFails(t)
  <2>1. pc'[t] > 0 /\ Now(t)'.phase # 0 /\ FailedBefore(t)'
    BY <1>1, FailsNow
  <2> QED BY <2>1 DEF Reason
<1>m. ASSUME pc' = [pc EXCEPT ![t] = @ + 1] PROVE pc'[t] > 0 /\ Now(t)' = After(t)
  <2>1. pc'[t] = pc[t] + 1 /\ pc' # pc
    BY <1>0, <1>m
  <2> QED BY <1>0, <2>1, Frame DEF Located
<1>2. CASE DisableSkippedSet(t)
  <2>1. At(t, "disable") /\ pc' = [pc EXCEPT ![t] = @ + 1]
    BY <1>2, Zenon DEF DisableSkippedSet, SetExecute, Advance
  <2>2. DisableFollows(opts, Now(t), Step(t), After(t))
    BY <1>0, <2>1, FollowsKind DEF At
  <2>3. /\ After(t) = Now(t) /\ opts.noPrompt
        /\ Now(t).phase \in 1..Len(Plays)
        /\ Now(t).set + 1 \in 1..Len(Plays[Now(t).phase])
        /\ Plays[Now(t).phase][Now(t).set + 1].skip
    BY <2>2 DEF DisableFollows, HasNextSet
  <2>4. Now(t).set + 1 <= Now(t).set + 1 /\ Now(t).phase # 0
    <3>1. IsControl(Sources(t), Now(t))
      BY <1>0, StateTraced DEF Located, Alive
    <3> QED BY <2>3, <3>1 DEF IsControl
  <2>5. pc'[t] > 0 /\ Now(t)' = Now(t)
    BY <1>m, <2>1, <2>3
  <2>6. SkippedBefore(t)'
    BY <1>0, <2>3, <2>4, <2>5 DEF SkippedBefore
  <2> QED BY <2>4, <2>5, <2>6 DEF Reason
<1>3. CASE EndPhase(t)
  <2>1. /\ At(t, "end of phase") /\ pc' = [pc EXCEPT ![t] = @ + 1]
        /\ runnerExecute' = (opts.execute /\ stageEnabled[t])
    BY <1>3, Zenon DEF EndPhase, SetExecute, Advance
  <2>2. ~stageEnabled[t]
    BY <2>1
  <2>3. EndPhaseFollows(opts, Now(t), Step(t), After(t))
    BY <1>0, <2>1, FollowsKind DEF At
  <2>4. Now(t).phase \in 1..Len(Plays)
    BY <2>3 DEF EndPhaseFollows
  <2>5. Now(t).phase # 0 /\ pc' # pc
    <3>1. pc'[t] = pc[t] + 1
      BY <1>0, <2>1
    <3> QED BY <1>0, <2>4, <3>1
  <2>6. FailedBefore(t)
    BY <1>0, <2>2, <2>5 DEF OffForReason
  <2>7. /\ pc'[t] > 0 /\ Now(t).phase \in Nat
        /\ Now(t)'.src = Now(t).src /\ Now(t)'.rtr = Now(t).rtr
        /\ Now(t)'.phase = Now(t).phase \/ Now(t)'.phase = Now(t).phase + 1
    <3>1. ~At(t, "reset")
      BY <2>1 DEF At
    <3> QED BY <1>0, <2>5, <3>1, SessionGoesOn
  <2>8. FailedBefore(t)'
    BY <2>6, <2>7, FailedBeforeKept
  <2>9. Now(t)'.phase # 0
    BY <2>5, <2>7
  <2> QED BY <2>7, <2>8, <2>9 DEF Reason
<1>4. CASE EndSession(t)
  <2>1. runnerExecute' = opts.execute
    BY <1>4, Zenon DEF EndSession, SetExecute
  <2> QED BY <2>1
<1>5. CASE CheckPhase(t)
  <2>1. CASE ~runnerExecute
    <3>1. ~EndPhase(t) /\ ~EndSession(t)
      BY <1>5, Zenon DEF CheckPhase, EndPhase, EndSession, SetExecute, At
    <3> QED BY <1>k, <2>1, <3>1
  <2>2. CASE runnerExecute
    <3>1. /\ At(t, "check") /\ pc' = [pc EXCEPT ![t] = @ + 1]
          /\ errors' = errors \cup RuntimeErrors(Step(t).src)
          /\ RuntimeErrors(Step(t).src) # {}
      BY <1>5, <2>2 DEF CheckPhase, Advance
    <3>2. CheckFollows(Now(t), Step(t), After(t))
      BY <1>0, <3>1, FollowsKind DEF At
    <3>3. /\ After(t).src = Now(t).src /\ After(t).phase = Now(t).phase
          /\ Step(t).src = Now(t).src /\ Now(t).phase # 0
      BY <3>2 DEF CheckFollows, Control
    <3>4. PICK e \in RuntimeErrors(Step(t).src) : TRUE
      BY <3>1
    <3>5. e[1] = Step(t).src
      BY <3>4 DEF RuntimeErrors
    <3>6. /\ pc'[t] > 0
          /\ Now(t)'.src = Now(t).src /\ Now(t)'.phase = Now(t).phase
      BY <1>m, <3>1, <3>3
    <3>7. \E d \in errors' : d[1] = Now(t)'.src
      BY <3>1, <3>3, <3>4, <3>5, <3>6
    <3> QED BY <3>3, <3>6, <3>7 DEF Reason
  <2> QED BY <2>1, <2>2
<1>6. CASE ~(DisableSkippedSet(t) \/ EndPhase(t) \/ EndSession(t) \/ CheckPhase(t)
             \/ PlayFails(t))
  <2>1. runnerExecute' = runnerExecute
    BY <1>6, FlagsKept DEF Located, TypeInv
  <2> QED BY <1>k, <1>6, <2>1
<1> QED BY <1>1, <1>2, <1>3, <1>4, <1>5, <1>6


-----------------------------------------------------------------------------
(* What was handed to the runner is settled.                               *)

\* The command issued next is one of its block.
LEMMA IssuedInBlock ==
  ASSUME Located, NEW t \in Threads, StartPlay(t)
  PROVE  /\ issued'[t] \in 1..Len(Cmds(t)) /\ issued'[t] = issued[t] + 1
         /\ issued[t] \in Nat
         /\ Cmds(t)[issued'[t]].arg.src = Now(t).src
         /\ Cmds(t)[issued'[t]].arg.rtr = Now(t).rtr
         /\ Cmds(t)[issued'[t]].arg.phase = Now(t).phase
         /\ Cmds(t)[issued'[t]].arg.set = Now(t).set + 1
<1>1. /\ proc = "up" /\ At(t, "set")
      /\ issued[t] < Len(Cmds(t)) /\ issued'[t] = issued[t] + 1 /\ issued[t] \in Nat
  BY DEF StartPlay, Issue, At, Located, TypeInv, TypeOK
<1>2. SetFollows(Now(t), Step(t), After(t))
  BY <1>1, StateTraced, FollowsKind DEF At, Located
<1> DEFINE A == Now(t)
<1>3. /\ Cmds(t) = PhaseCommands(A.src, A.rtr, A.phase, A.set + 1)
      /\ A.phase \in 1..Len(Plays) /\ A.set + 1 \in 1..Len(Plays[A.phase])
  BY <1>2 DEF SetFollows, HasNextSet, Cmds
<1> HIDE DEF A
<1>4. /\ Len(Cmds(t)) \in Nat
      /\ \A k \in 1..Len(Cmds(t)) :
           /\ Cmds(t)[k].arg.src = A.src /\ Cmds(t)[k].arg.rtr = A.rtr
           /\ Cmds(t)[k].arg.phase = A.phase /\ Cmds(t)[k].arg.set = A.set + 1
  BY <1>3, PhaseCommandsTyped
<1>5. issued'[t] \in 1..Len(Cmds(t))
  BY <1>1, <1>4
<1> QED BY <1>1, <1>4, <1>5 DEF A

\* A play that is issued is executed, or was left out for a reason: the
\* session that has one is the one under way.
LEMMA PlaySettled ==
  ASSUME Located, OneVlanActive, OffForReason, opts.scope = "inter",
         Remembers, NEW t \in Threads, StartPlay(t), NEW k, k = issued'[t]
  PROVE  Settled(Cmds(t)[k])'
<1> DEFINE c == Cmds(t)[issued'[t]]
<1>1. PICK d : d = c
  OBVIOUS
<1>2. /\ proc = "up" /\ At(t, "set") /\ UNCHANGED <<opts, plan, stage, pc>>
      /\ ran' = ran \cup (IF Executes THEN {c} ELSE {})
  BY DEF StartPlay, Issue, At
<1>3. Cmds(t)' = Cmds(t)
  BY <1>2 DEF Cmds, Step, Steps
<1>4. /\ d.arg.src = Now(t).src /\ d.arg.rtr = Now(t).rtr
      /\ d.arg.phase = Now(t).phase /\ d.arg.set = Now(t).set + 1
  BY <1>1, IssuedInBlock
<1> HIDE DEF c
<1>5. Settled(d)'
  <2>1. CASE Executes
    BY <1>1, <1>2, <2>1 DEF Settled
  <2>2. CASE ~isEnabled(commandIdNumber')
    <3>1. opts'.excluded # {}
      BY <1>2, <2>2 DEF isEnabled
    <3> QED BY <3>1 DEF Settled, Excused
  <2>3. CASE ~runnerExecute
    <3>1. PICK u \in Threads : pc[u] > 0 /\ Reason(u)
      BY <2>3 DEF OffForReason
    <3>2. Alive(t) /\ pc[t] > 0
      BY <1>2, StateTraced DEF At, Alive, Located
    <3>3. Now(t).phase # 0 /\ IsControl(Sources(t), Now(t))
      <4>1. SetFollows(Now(t), Step(t), After(t))
        BY <1>2, StateTraced, FollowsKind DEF At, Located
      <4>2. Now(t).phase \in 1..Len(Plays)
        BY <4>1 DEF SetFollows, HasNextSet
      <4>3. pc[t] \in 1..(Len(Steps(t)) + 1)
        BY <1>2, <3>2, StateTraced DEF Alive, Located
      <4> QED BY <1>2, <4>2, <4>3, StateTraced DEF Located
    <3>4. u = t
      BY <1>2, <3>1, <3>2, <3>3, OneSession DEF Reason
    <3>5. Excused(d)
      <4>1. CASE FailedBefore(t)
        BY <1>4, <4>1 DEF FailedBefore, Excused, SameSession
      <4>2. CASE SkippedBefore(t)
        <5>1. PICK s \in 1..Len(Plays[Now(t).phase]) :
                s <= Now(t).set + 1 /\ Plays[Now(t).phase][s].skip
          BY <4>2 DEF SkippedBefore
        <5>2. Plays[Now(t).phase] \in Seq(CommandSetType) /\ Now(t).set \in Nat
          BY <3>3, <4>2, OptionsAssumption, ElementOfSeq DEF SkippedBefore, IsControl
        <5>3. s \in 1..(Now(t).set + 1)
          BY <5>1, <5>2
        <5> QED BY <1>4, <4>2, <5>1, <5>3 DEF SkippedBefore, Excused
      <4>3. CASE \E e \in errors : e[1] = Now(t).src
        BY <1>4, <4>3 DEF Excused
      <4> QED BY <3>1, <3>4, <4>1, <4>2, <4>3 DEF Reason
    <3> QED BY <3>5, SettledKept DEF Settled
  <2> QED BY <2>1, <2>2, <2>3 DEF Executes
<1>6. Cmds(t)'[k] = d
  BY <1>1, <1>3 DEF c
<1> QED BY <1>5, <1>6 DEF Settled, Excused, SameSession

\* A move of a thread keeps what was issued settled.
LEMMA MoveIssued ==
  ASSUME Located, OneVlanActive, OffForReason, IssuedSettled, opts.scope = "inter",
         Remembers, NEW t \in Threads, Moves(t), ThreadStep(t)
  PROVE  IssuedSettled'
<1>0. /\ proc = "up" /\ UNCHANGED <<proc, plan, stage>>
      /\ issued \in [Threads -> Nat] /\ t # Nobody /\ Nobody \notin Threads
  BY NobodyIsNoThread DEF Moves, Located, TypeInv, TypeOK
<1>k. ASSUME NEW u \in Threads, coutMutex = u, At(u, "set"), pc'[u] = pc[u],
             NEW k \in 1..issued[u]
      PROVE  Settled(Cmds(u)[k])'
  <2>1. PICK c : c = Cmds(u)[k]
    OBVIOUS
  <2>2. Settled(c)'
    BY <1>k, <2>1, SettledKept DEF IssuedSettled
  <2>3. Cmds(u)' = Cmds(u)
    BY <1>0, <1>k, StepKept
  <2> QED BY <2>1, <2>2, <2>3 DEF Settled, Excused, SameSession
<1>1. CASE Lock(t)
  <2>1. coutMutex = Nobody /\ coutMutex' = t /\ issued' = issued
    BY <1>1 DEF Lock, flow
  <2>2. issued'[t] = 0
    BY <1>0, <2>1 DEF Located, RunnerExclusive
  <2>3. 1..issued'[t] = {}
    BY <2>2
  <2> QED BY <2>1, <2>3 DEF IssuedSettled
<1>2. CASE SystemExec(t)
  <2>1. coutMutex' = t /\ pc' = pc /\ ~At(t, "set")
    BY <1>2 DEF SystemExec, Issue, At
  <2>2. ~At(t, "set")'
    BY <1>0, <2>1, StepKept
  <2> QED BY <2>1, <2>2 DEF IssuedSettled
<1>3. CASE StartPlay(t)
  <2>1. coutMutex = t /\ coutMutex' = t /\ pc' = pc /\ At(t, "set")
    BY <1>3 DEF StartPlay, Issue
  <2>2. issued'[t] = issued[t] + 1 /\ issued[t] \in Nat
    BY <1>3, IssuedInBlock
  <2>3. \A k \in 1..issued'[t] : k \in 1..issued[t] \/ k = issued'[t]
    BY <2>2
  <2>4. \A k \in 1..issued'[t] : Settled(Cmds(t)[k])'
    <3> TAKE k \in 1..issued'[t]
    <3>1. CASE k \in 1..issued[t]
      BY <1>k, <2>1, <3>1
    <3>2. CASE k = issued'[t]
      BY <1>3, <3>2, PlaySettled
    <3> QED BY <2>3, <3>1, <3>2
  <2> QED BY <2>1, <2>4 DEF IssuedSettled
<1>4. CASE PlayOk(t) \/ PlayFails(t)
  <2>1. coutMutex = t /\ coutMutex' = t /\ pc' = pc /\ issued' = issued /\ At(t, "set")
    BY <1>4 DEF PlayOk, PlayFails, flow
  <2>2. \A k \in 1..issued'[t] : Settled(Cmds(t)[k])'
    BY <1>k, <2>1
  <2> QED BY <2>1, <2>2 DEF IssuedSettled
<1>5. CASE Unlock(t)
  <2>1. coutMutex' = Nobody
    BY <1>5 DEF Unlock
  <2> QED BY <1>0, <2>1 DEF IssuedSettled
<1>6. CASE ~(Lock(t) \/ SystemExec(t) \/ StartPlay(t) \/ PlayOk(t) \/ PlayFails(t)
             \/ Unlock(t))
  <2>1. UNCHANGED <<coutMutex, issued>> /\ ~AtBlock(t)
    <3>1. CASE SpawnThread(t) \/ JoinThread(t)
      BY <3>1 DEF SpawnThread, JoinThread, At, AtBlock, runner
    <3>2. CASE BeginSession(t) \/ CheckPhase(t) \/ Complete(t)
      BY <3>2 DEF BeginSession, CheckPhase, Complete, At, AtBlock, runner
    <3>3. CASE DisableSkippedSet(t) \/ EndPhase(t) \/ EndSession(t)
      BY <3>3, Zenon DEF DisableSkippedSet, EndPhase, EndSession, SetExecute, At, AtBlock
    <3>4. ~CheckAborts(t)
      BY <1>0 DEF CheckAborts
    <3> QED BY <1>6, <3>1, <3>2, <3>3, <3>4 DEF ThreadStep
  <2>2. ASSUME NEW u \in Threads, coutMutex' = u, At(u, "set")', NEW k \in 1..issued'[u]
        PROVE  Settled(Cmds(u)[k])'
    <3>1. AtBlock(u) /\ u # t
      BY <1>0, <2>1, <2>2 DEF Located, Locked
    <3>2. pc[u] # 0
      BY <3>1 DEF AtBlock, At, Alive
    <3>3. pc'[u] = pc[u]
      BY <3>1, <3>2, Frame DEF Located
    <3>4. At(u, "set")
      BY <1>0, <2>2, <3>3, StepKept
    <3> QED BY <1>k, <2>1, <2>2, <3>3, <3>4
  <2> QED BY <2>2 DEF IssuedSettled
<1> QED BY <1>1, <1>2, <1>3, <1>4, <1>5, <1>6


-----------------------------------------------------------------------------
(* Accounted is inductive.                                                 *)

\* A stage begins with nothing to account for.
LEMMA FreshAccounted ==
  ASSUME TypeInv', proc' = "up", pc' = OnlyMain, coutMutex' = Nobody, runnerExecute'
  PROVE  Accounted'
<1>1. \A t \in Threads : pc'[t] > 0 => Now(t)' = Beginning
  <2>1. Main \in Threads
    BY DEF Threads
  <2> QED BY <2>1, FreshStage
<1>2. /\ Beginning.phase = 0
      /\ Beginning.tested = {}
  BY DEF Beginning, Control
<1>3. \A t \in Threads : pc'[t] > 0 => Now(t)'.phase = 0 /\ Now(t)'.tested = {}
  BY <1>1, <1>2
<1>4. TestsCovered'
  BY <1>3 DEF TestsCovered, CoveredAt
<1>5. IssuedSettled'
  BY NobodyIsNoThread DEF IssuedSettled
<1>6. OffForReason'
  BY <1>3 DEF OffForReason
<1> QED BY <1>4, <1>5, <1>6 DEF Accounted

\* Between two stages no session is under way, and the runner is on.
LEMMA StageAccounted ==
  ASSUME Located, OffForReason, StageEnd, proc' = "up", TypeInv'
  PROVE  Accounted'
<1>1. /\ proc = "up" /\ Returned(Main) /\ UNCHANGED <<runnerExecute, coutMutex>>
      /\ pc' = OnlyMain
  BY DEF StageEnd, runner
<1>2. coutMutex = Nobody
  BY <1>1, MutexFree
<1>3. runnerExecute
  <2> SUFFICES ASSUME ~runnerExecute PROVE FALSE
    OBVIOUS
  <2>1. PICK u \in Threads : pc[u] > 0 /\ Reason(u)
    BY DEF OffForReason
  <2>2. pc[u] = Len(Steps(u)) + 1
    BY <1>1, <2>1, AllReturned DEF Located
  <2>3. Now(u).phase = 0
    BY <1>1, <2>2, StateTraced DEF Located
  <2> QED BY <2>1, <2>3 DEF Reason
<1> QED BY <1>1, <1>2, <1>3, FreshAccounted

\* main's prompt changes nothing for the sessions.
LEMMA PromptAccounted ==
  ASSUME Located, TestsCovered, IssuedSettled, OffForReason, Remembers, StageBegin
  PROVE  Accounted'
<1>1. /\ Main \in Threads /\ Moves(Main) /\ At(Main, "stage")
      /\ coutMutex' = Nobody /\ UNCHANGED <<runnerExecute, stageEnabled>>
  BY DEF StageBegin, Moves, At, Advance, Threads, runner
<1>2. TestsCovered'
  BY <1>1, MoveCovered
<1>3. IssuedSettled'
  BY <1>1, NobodyIsNoThread DEF IssuedSettled
<1>4. /\ ~At(Main, "session") /\ ~At(Main, "end of phase") /\ ~At(Main, "reset")
  BY <1>1 DEF At
<1>5. ASSUME ~runnerExecute' PROVE \E u \in Threads : pc'[u] > 0 /\ Reason(u)'
  <2>1. PICK u \in Threads : pc[u] > 0 /\ Reason(u)
    BY <1>1, <1>5 DEF OffForReason
  <2>2. Now(u).phase # 0
    BY <2>1 DEF Reason
  <2>3. /\ pc'[u] > 0 /\ Now(u).phase \in Nat /\ Now(u).set \in Nat
        /\ Now(u)'.src = Now(u).src /\ Now(u)'.rtr = Now(u).rtr
        /\ Now(u)'.phase = Now(u).phase
        /\ Now(u)'.set = Now(u).set \/ Now(u)'.set = Now(u).set + 1
    BY <1>1, <1>4, <2>1, <2>2, SessionGoesOn
  <2>4. Reason(u)'
    BY <2>1, <2>3, ReasonKept
  <2> QED BY <2>3, <2>4
<1>6. ASSUME NEW u \in Threads, pc'[u] > 0, Now(u)'.phase # 0, ~stageEnabled'[u]
      PROVE  FailedBefore(u)'
  <2>1. pc[u] > 0 /\ Now(u).phase # 0
    BY <1>1, <1>4, <1>6, SessionWentOn
  <2>2. FailedBefore(u)
    BY <1>1, <1>6, <2>1 DEF OffForReason
  <2>3. /\ Now(u).phase \in Nat
        /\ Now(u)'.src = Now(u).src /\ Now(u)'.rtr = Now(u).rtr
        /\ Now(u)'.phase = Now(u).phase
    BY <1>1, <1>4, <2>1, SessionGoesOn
  <2> QED BY <2>2, <2>3, FailedBeforeKept
<1>7. OffForReason'
  BY <1>5, <1>6 DEF OffForReason
<1> QED BY <1>2, <1>3, <1>7 DEF Accounted

\* Every step keeps the account of the flags and of what is settled.
LEMMA NextAccounted ==
  Located /\ OneVlanActive /\ Accounted /\ [Next]_vars => Accounted'
<1> SUFFICES ASSUME Located, OneVlanActive, Accounted, [Next]_vars,
                    proc' = "up", opts'.execute, opts'.scope = "inter"
             PROVE  Accounted'
  BY DEF Accounted
<1>0. TypeInv'
  BY NextTypeInv DEF Located
<1>1. CASE Start
  <2>1. pc' = OnlyMain /\ coutMutex' = Nobody /\ runnerExecute'
    BY <1>1 DEF Start
  <2> QED BY <1>0, <2>1, FreshAccounted
<1>2. CASE ~Start
  <2>1. Remembers /\ opts' = opts
    BY <1>2, NextRemembers DEF Remembers
  <2>2. proc = "up"
    <3>1. CASE StageQuit \/ StageBegin \/ StageEnd
      BY <3>1 DEF StageQuit, StageBegin, StageEnd, At
    <3>2. ASSUME NEW t \in Threads, ThreadStep(t) PROVE proc = "up"
      BY <3>2, ThreadMoves DEF Moves, CheckAborts, At
    <3>3. CASE Crash \/ Flap \/ UNCHANGED vars
      BY <3>3 DEF Crash, Flap, vars, flow
    <3> QED BY <1>2, <3>1, <3>2, <3>3 DEF Next, Progress, Finished
  <2>3. TestsCovered /\ IssuedSettled /\ OffForReason
    BY <2>1, <2>2 DEF Accounted
  <2>4. CASE StageBegin
    BY <2>1, <2>3, <2>4, PromptAccounted
  <2>5. CASE StageQuit
    BY <2>5 DEF StageQuit
  <2>6. CASE StageEnd
    BY <1>0, <2>3, <2>6, StageAccounted
  <2>7. ASSUME NEW t \in Threads, ThreadStep(t) PROVE Accounted'
    <3>1. ~CheckAborts(t)
      BY DEF CheckAborts
    <3>2. Moves(t)
      BY <2>7, <3>1, ThreadMoves
    <3>3. TestsCovered'
      BY <2>1, <2>3, <2>7, <3>2, MoveCovered
    <3>4. IssuedSettled'
      BY <2>1, <2>3, <2>7, <3>2, MoveIssued
    <3>5. ~runnerExecute' => \E u \in Threads : pc'[u] > 0 /\ Reason(u)'
      BY <2>1, <2>3, <2>7, <3>2, MoveOff
    <3>6. \A u \in Threads : pc'[u] > 0 /\ Now(u)'.phase # 0 /\ ~stageEnabled'[u]
                               => FailedBefore(u)'
      BY <2>1, <2>3, <2>7, <3>2, MoveStageOff
    <3>7. OffForReason'
      BY <3>5, <3>6 DEF OffForReason
    <3> QED BY <3>3, <3>4, <3>7 DEF Accounted
  <2>8. CASE Crash
    BY <2>8 DEF Crash
  <2>9. CASE Flap \/ UNCHANGED vars
    <3>1. /\ UNCHANGED <<proc, opts, loaded, plan, stage, pc, issued, stageEnabled>>
          /\ UNCHANGED <<runnerExecute, coutMutex, errors, ran, failed>>
      BY <2>9 DEF Flap, vars, flow, runner, host, ghost
    <3>2. \A u : Now(u)' = Now(u)
      BY <3>1 DEF Now, Trace
    <3>3. TestsCovered'
      BY <2>3, <3>1, <3>2 DEF TestsCovered, CoveredAt, Passed, Covered, Settled,
        Excused, SameSession
    <3>4. IssuedSettled'
      BY <2>3, <3>1 DEF IssuedSettled, At, Alive, Cmds, Step, Steps, Settled,
        Excused, SameSession
    <3>5. OffForReason'
      BY <2>3, <3>1, <3>2 DEF OffForReason, Reason, FailedBefore, SkippedBefore
    <3> QED BY <3>3, <3>4, <3>5 DEF Accounted
  <2> QED BY <1>2, <2>4, <2>5, <2>6, <2>7, <2>8, <2>9 DEF Next, Progress, Finished
<1> QED BY <1>1, <1>2


-----------------------------------------------------------------------------
(* A completed source was scanned.                                         *)

\* The plays of a source are those of its routers, of the enabled phases and
\* their command sets.
LEMMA PlannedPlay ==
  ASSUME NEW src, NEW c \in PlannedPlays(src)
  PROVE  /\ c.arg.src = src
         /\ \E rtr \in RoutersOf(opts, src) :
              \E p \in 1..Len(Plays) : \E s \in 1..Len(Plays[p]) :
                PhaseEnabled(opts, p) /\ c \in ToSet(PhaseCommands(src, rtr, p, s))
<1> DEFINE rtrs == IF opts.scope = "intra" THEN {0} ELSE src.routers
           phases == {p \in 1..Len(Plays) : opts.phases = {} \/ p \in opts.phases}
           sets == UNION {{<<p, s>> : s \in 1..Len(Plays[p])} : p \in phases}
<1>0. PlannedPlays(src) = UNION {ToSet(PhaseCommands(src, rtr, ps[1], ps[2])) :
                                   rtr \in rtrs, ps \in sets}
  BY DEF PlannedPlays
<1>1. PICK rtr \in rtrs, ps \in sets :
        c \in ToSet(PhaseCommands(src, rtr, ps[1], ps[2]))
  <2> HIDE DEF rtrs, sets
  <2> QED BY <1>0
<1>2. PICK p \in phases : \E s \in 1..Len(Plays[p]) : ps = <<p, s>>
  OBVIOUS
<1>3. PICK s \in 1..Len(Plays[p]) : ps = <<p, s>>
  BY <1>2
<1>4. ps[1] = p /\ ps[2] = s
  BY <1>3
<1>5. p \in 1..Len(Plays) /\ PhaseEnabled(opts, p)
  BY DEF PhaseEnabled
<1>6. rtr \in RoutersOf(opts, src)
  BY DEF RoutersOf
<1>7. c \in ToSet(PhaseCommands(src, rtr, p, s))
  BY <1>1, <1>4
<1>8. c.arg.src = src
  <2> DEFINE cmds == PhaseCommands(src, rtr, p, s)
  <2>1. /\ DOMAIN cmds = 1..Len(cmds)
        /\ \A k \in 1..Len(cmds) : cmds[k].arg.src = src
    BY <1>5, PhaseCommandsTyped
  <2> HIDE DEF cmds
  <2>2. \A d \in ToSet(cmds) : d.arg.src = src
    BY <2>1 DEF ToSet
  <2> QED BY <1>7, <2>2 DEF cmds
<1> QED BY <1>3, <1>5, <1>6, <1>7, <1>8

\* The plays planned for a source depend on the command line only.
LEMMA PlannedKept ==
  ASSUME opts' = opts, NEW src PROVE PlannedPlays(src)' = PlannedPlays(src)
BY DEF PlannedPlays

\* A source that is completed now has been through with all its sessions.
LEMMA CompletesScanned ==
  ASSUME Located, TestsCovered, NEW t \in Threads, Complete(t),
         NEW c \in PlannedPlays(Step(t).src)
  PROVE  Settled(c)
<1>1. proc = "up" /\ Alive(t) /\ Step(t).do = "complete"
  BY DEF Complete, At
<1>2. /\ Follows(opts, t, Sources(t), Now(t), Step(t), After(t))
      /\ pc[t] > 0
  BY <1>1, StateTraced DEF Located, Alive
<1>3. CompleteFollows(opts, Sources(t), Now(t), Step(t), After(t))
  BY <1>1, <1>2, FollowsKind
<1> DEFINE src == Step(t).src
<1>4. \A rtr \in RoutersOf(opts, src) : <<src, rtr>> \in Now(t).tested
  BY <1>3 DEF CompleteFollows
<1> HIDE DEF src
<1>5. PICK rtr \in RoutersOf(opts, src) :
        \E p \in 1..Len(Plays) : \E s \in 1..Len(Plays[p]) :
          PhaseEnabled(opts, p) /\ c \in ToSet(PhaseCommands(src, rtr, p, s))
  <2>1. c \in PlannedPlays(src)
    BY DEF src
  <2> QED BY <2>1, PlannedPlay
<1>51. PICK p \in 1..Len(Plays) : \E s \in 1..Len(Plays[p]) :
        PhaseEnabled(opts, p) /\ c \in ToSet(PhaseCommands(src, rtr, p, s))
  BY <1>5
<1>52. PICK s \in 1..Len(Plays[p]) :
        PhaseEnabled(opts, p) /\ c \in ToSet(PhaseCommands(src, rtr, p, s))
  BY <1>51
<1>6. CoveredAt(Now(t))
  BY <1>2 DEF TestsCovered
<1>7. PICK x : x = <<src, rtr>>
  OBVIOUS
<1>8. x \in Now(t).tested /\ x[1] = src /\ x[2] = rtr
  BY <1>4, <1>7
<1>9. Covered(src, rtr, p, s)
  BY <1>52, <1>6, <1>8 DEF CoveredAt
<1> QED BY <1>52, <1>9 DEF Covered

\* Only Complete adds to the completed sources.
LEMMA CompletedNow ==
  ASSUME [Next]_vars, \A t \in Threads : ~Complete(t)
  PROVE  completed' = completed
<1>1. CASE Start \/ StageBegin \/ StageQuit \/ StageEnd \/ Crash \/ Flap \/ UNCHANGED vars
  BY <1>1 DEF Start, StageBegin, StageQuit, StageEnd, Crash, Flap, vars, host
<1>2. ASSUME NEW t \in Threads, ThreadStep(t) PROVE completed' = completed
  <2>1. CASE DisableSkippedSet(t) \/ EndPhase(t) \/ EndSession(t)
    BY <2>1, Zenon DEF DisableSkippedSet, EndPhase, EndSession, SetExecute, host
  <2> QED BY <1>2, <2>1 DEF ThreadStep, SpawnThread, JoinThread,
        Lock, SystemExec, StartPlay, Issue, PlayOk, PlayFails, Unlock,
        BeginSession, CheckPhase, CheckAborts, host
<1> QED BY <1>1, <1>2 DEF Next, Progress, Finished

InterScanned == opts.scope = "inter" => CompletedWasScanned

\* A run that starts forgets nothing of the completed sources.
LEMMA StartScanned ==
  ASSUME CompletedWasScanned, Start
  PROVE  CompletedWasScanned'
<1>1. /\ opts' = opts /\ completed' = completed /\ errors' = errors
      /\ ran' = {c \in ran : c.arg.src \in completed}
      /\ failed' = {c \in failed : c.arg.src \in completed}
  BY DEF Start, host
<1>2. ASSUME NEW src \in completed, NEW c \in PlannedPlays(src)
      PROVE  (c \in ran \/ Excused(c))'
  <2>1. c.arg.src = src
    BY PlannedPlay
  <2>2. CASE c \in ran
    BY <1>1, <2>1, <2>2
  <2>3. CASE Excused(c)
    <3>1. CASE \E f \in failed : SameSession(c, f) /\ f.arg.phase <= c.arg.phase
      <4>1. PICK f \in failed : SameSession(c, f) /\ f.arg.phase <= c.arg.phase
        BY <3>1
      <4>2. f \in failed'
        BY <1>1, <2>1, <4>1 DEF SameSession
      <4> QED BY <4>1, <4>2 DEF Excused, SameSession
    <3>2. CASE \/ opts.noPrompt /\ \E s \in 1..c.arg.set : Plays[c.arg.phase][s].skip
               \/ \E e \in errors : e[1] = c.arg.src
               \/ opts.excluded # {}
      BY <1>1, <3>2 DEF Excused
    <3> QED BY <2>3, <3>1, <3>2 DEF Excused
  <2> QED BY <1>2, <2>2, <2>3 DEF CompletedWasScanned
<1> QED BY <1>1, <1>2, PlannedKept DEF CompletedWasScanned

\* Every step keeps it: a run only adds a source that has been through with
\* its sessions, and nothing it adds to takes a reason away.
LEMMA NextScanned ==
  Located /\ Accounted /\ InterScanned /\ [Next]_vars => InterScanned'
<1> SUFFICES ASSUME Located, Accounted, InterScanned, [Next]_vars,
                    opts'.scope = "inter"
             PROVE  CompletedWasScanned'
  BY DEF InterScanned
<1>1. CASE Start
  <2>1. CompletedWasScanned
    BY <1>1 DEF InterScanned, Start
  <2> QED BY <1>1, <2>1, StartScanned
<1>2. CASE ~Start
  <2>1. Remembers /\ opts' = opts
    BY <1>2, NextRemembers DEF Remembers
  <2>2. CompletedWasScanned
    BY <2>1 DEF InterScanned
  <2>3. ASSUME NEW src \in completed, NEW c \in PlannedPlays(src)
        PROVE  Settled(c)'
    <3>1. Settled(c)
      BY <2>2 DEF CompletedWasScanned, Settled
    <3> QED BY <2>1, <3>1, SettledKept
  <2>4. ASSUME NEW src \in completed', src \notin completed, NEW c \in PlannedPlays(src)
        PROVE  Settled(c)'
    <3>1. PICK t \in Threads : Complete(t)
      BY <2>4, CompletedNow
    <3>2. src = Step(t).src /\ opts.execute /\ proc = "up"
      BY <2>4, <3>1 DEF Complete, At
    <3>3. TestsCovered
      BY <2>1, <3>2 DEF Accounted
    <3>4. Settled(c)
      BY <3>1, <3>2, <3>3, CompletesScanned
    <3> QED BY <2>1, <3>4, SettledKept
  <2>5. \A src \in completed' : \A c \in PlannedPlays(src) : Settled(c)'
    BY <2>3, <2>4
  <2> QED BY <2>1, <2>5, PlannedKept DEF CompletedWasScanned, Settled
<1> QED BY <1>1, <1>2

\* Inter-network, a source is recorded as completed only when every play of
\* the plays file was executed for it, apart from those that a failure, a
\* skipped set, a runtime error or the command line disabled, in any
\* playbook and plays file and with any failures, crashes and restarts.
THEOREM InterScans == Spec => [](opts.scope = "inter" => CompletedWasScanned)
<1>1. Init => Serial /\ Accounted /\ InterScanned
  BY DEF Init, Serial, Accounted, InterScanned, CompletedWasScanned
<1>2. Located => TypeInv
  BY DEF Located
<1>3. InterScanned => (opts.scope = "inter" => CompletedWasScanned)
  BY DEF InterScanned
<1> QED BY <1>1, <1>2, <1>3, InitLocated, NextLocated, NextSerial, SerialImpliesOne,
      NextAccounted, NextScanned, PTL DEF Spec
=============================================================================
