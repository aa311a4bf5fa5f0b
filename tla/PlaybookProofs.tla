--------------------------- MODULE PlaybookProofs ---------------------------
(***************************************************************************)
(* Proofs about nmdb-playbook, for every playbook, plays file, command     *)
(* line and bound, and for every interleaving, failure, crash and restart: *)
(* types, the mutex, dry runs, one VLAN at a time; then, along the control *)
(* points of module PlanProofs, what is completed and what is disabled.    *)
(***************************************************************************)
EXTENDS Playbook, PlanProofs

-----------------------------------------------------------------------------
(* The plan.                                                               *)

\* The stages of a run are finitely many, and its plan has one entry each.
LEMMA PlanLength ==
  ASSUME NEW o, NEW rows \in SUBSET Rows
  PROVE  /\ Len(Plan(o, rows)) \in Nat
         /\ DOMAIN Plan(o, rows) = 1..Len(Plan(o, rows))
         /\ Plan(o, rows) # <<>> => Len(Plan(o, rows)) >= 1
<1> DEFINE S == {s \in {r.stage : r \in rows} : o.stages = {} \/ s \in o.stages}
<1>1. IsFiniteSet(rows)
  BY RowsAssumption, FS_Subset
<1>2. IsFiniteSet({r.stage : r \in rows})
  <2> DEFINE f == [r \in rows |-> r.stage]
  <2>1. {r.stage : r \in rows} = {f[r] : r \in rows}
    OBVIOUS
  <2>f. IsFiniteSet({f[r] : r \in rows})
    <3> HIDE DEF f
    <3> QED
      BY <1>1, FiniteImage
  <2> QED
    BY <2>1, <2>f
<1>3. IsFiniteSet(S)
  BY <1>2, FS_Subset
<1>4. enabledStages(o, rows) = Ascending(S)
  BY DEF enabledStages
<1>5. Len(enabledStages(o, rows)) = Cardinality(S) /\ Cardinality(S) \in Nat
  BY <1>3, <1>4, AscendingLength
<1> DEFINE c == Len(enabledStages(o, rows))
           f == [n \in 1..c |-> [t \in Threads |->
                  threadActions(o, rows, enabledStages(o, rows)[n], t)]]
<1>6. Plan(o, rows) = f
  BY DEF Plan
<1>7. c \in Nat
  BY <1>5
<1>8. f \in Seq(Range(f)) /\ Len(f) = c
  <2>1. DOMAIN f = 1..c /\ \A n \in 1..c : f[n] \in Range(f)
    BY DEF Range
  <2>2. f = [n \in 1..c |-> f[n]]
    BY <2>1
  <2> HIDE DEF f, c
  <2> QED
    BY <1>7, <2>1, <2>2
<1> HIDE DEF f, c
<1> QED
  BY <1>6, <1>7, <1>8

-----------------------------------------------------------------------------
(* Type correctness.  The plan a process runs is one that Plan computed,   *)
(* which is what bounds `stage`.                                           *)

PlanLoaded ==
  proc = "up" => plan = Plan(opts, loaded) /\ loaded \in SUBSET Rows

TypeInv == TypeOK /\ PlanLoaded

\* Of the command line only --execute is needed below.
LEMMA OptionsTyped ==
  ASSUME opts \in OptionSet
  PROVE  opts.execute \in BOOLEAN
BY OptionsAssumption DEF OptionType

BudgetType ==
  [runs : 0..MaxRuns, crashes : 0..MaxCrashes, flaps : 0..MaxFlaps]

\* Spending from the bounds on runs, crashes and flaps stays within them.
LEMMA BudgetSpent ==
  ASSUME NEW b \in BudgetType
  PROVE  /\ b.runs < MaxRuns => [b EXCEPT !.runs = @ + 1] \in BudgetType
         /\ b.crashes < MaxCrashes => [b EXCEPT !.crashes = @ + 1] \in BudgetType
         /\ b.flaps < MaxFlaps => [b EXCEPT !.flaps = @ + 1] \in BudgetType
<1>1. b.runs \in 0..MaxRuns /\ b.crashes \in 0..MaxCrashes
        /\ b.flaps \in 0..MaxFlaps
  BY DEF BudgetType
<1>2. ASSUME b.runs < MaxRuns
      PROVE  [b EXCEPT !.runs = @ + 1] \in BudgetType
  <2>1. b.runs + 1 \in 0..MaxRuns
    BY <1>1, <1>2, BoundsAssumption
  <2> QED
    BY <2>1 DEF BudgetType
<1>3. ASSUME b.crashes < MaxCrashes
      PROVE  [b EXCEPT !.crashes = @ + 1] \in BudgetType
  <2>1. b.crashes + 1 \in 0..MaxCrashes
    BY <1>1, <1>3, BoundsAssumption
  <2> QED
    BY <2>1 DEF BudgetType
<1>4. ASSUME b.flaps < MaxFlaps
      PROVE  [b EXCEPT !.flaps = @ + 1] \in BudgetType
  <2>1. b.flaps + 1 \in 0..MaxFlaps
    BY <1>1, <1>4, BoundsAssumption
  <2> QED
    BY <2>1 DEF BudgetType
<1> QED
  BY <1>2, <1>3, <1>4

\* The types and the loaded plan hold at the start.
LEMMA InitTypeInv == Init => TypeInv
<1> SUFFICES ASSUME Init PROVE TypeInv
  OBVIOUS
<1>1. budget \in BudgetType
  BY BoundsAssumption DEF Init, BudgetType
<1>2. stageEnabled \in [Threads -> BOOLEAN] /\ runnerExecute \in BOOLEAN
  BY Zenon DEF Init
<1>3. pc \in [Threads -> Nat] /\ issued \in [Threads -> Nat]
  BY DEF Init, NoThreads
<1> QED
  BY <1>1, <1>2, <1>3 DEF Init, TypeInv, TypeOK, PlanLoaded, BudgetType

\* Every step keeps the types and keeps the plan the one that was loaded.
LEMMA NextTypeInv == TypeInv /\ [Next]_vars => TypeInv'
<1> SUFFICES ASSUME TypeInv, [Next]_vars
             PROVE  TypeInv'
  OBVIOUS
<1> USE OptionsTyped DEF TypeInv, TypeOK
<1>b. budget \in BudgetType
  BY DEF BudgetType
<1>0. Main \in Threads
  BY DEF Threads
<1>1. CASE Start
  <2>1. Pending \in SUBSET Rows
    BY DEF Pending
  <2>2. PlanLoaded'
    BY <1>1, <2>1 DEF Start, PlanLoaded
  <2>3. proc' = "up" => stage' \in 1..Len(plan')
    BY <1>1, <2>1, PlanLength DEF Start
  <2>4. OnlyMain \in [Threads -> Nat] /\ NoThreads \in [Threads -> Nat]
    BY DEF OnlyMain, NoThreads
  <2>5. budget' \in BudgetType
    BY <1>1, <1>b, BudgetSpent DEF Start
  <2>6. stageEnabled' \in [Threads -> BOOLEAN]
    BY <1>1, Zenon DEF Start
  <2>7. opts' \in OptionSet /\ runnerExecute' \in BOOLEAN
    BY <1>1 DEF Start
  <2> QED
    BY <1>1, <2>2, <2>3, <2>4, <2>5, <2>6, <2>7 DEF Start, BudgetType
<1>2. CASE StageBegin
  BY <1>0, <1>2 DEF StageBegin, Advance, PlanLoaded, runner, host, ghost
<1>3. CASE StageQuit
  BY <1>3 DEF StageQuit, PlanLoaded, runner, host, ghost
<1>4. CASE StageEnd
  <2>1. Len(plan) \in Nat
    BY <1>4, PlanLength DEF StageEnd, PlanLoaded
  <2>2. OnlyMain \in [Threads -> Nat]
    BY DEF OnlyMain, NoThreads
  <2> QED
    BY <1>4, <2>1, <2>2 DEF StageEnd, PlanLoaded, runner, host, ghost
<1>5. ASSUME NEW t \in Threads, ThreadStep(t)
      PROVE  TypeInv'
  <2> USE DEF PlanLoaded, flow, runner, host, ghost, Advance
  <2>1. CASE SpawnThread(t)
    <3> DEFINE pc1 == [pc EXCEPT ![t] = @ + 1]
    <3>1. pc1 \in [Threads -> Nat] /\ pc' = [pc1 EXCEPT ![Step(t).thread] = 1]
      BY <2>1 DEF SpawnThread
    <3>2. pc' \in [Threads -> Nat]
      BY <3>1
    <3> QED
      BY <2>1, <3>2 DEF SpawnThread
  <2>2. CASE JoinThread(t)
    BY <2>2 DEF JoinThread
  <2>3. CASE Lock(t)
    BY <2>3 DEF Lock
  <2>4. CASE SystemExec(t)
    BY <2>4 DEF SystemExec, Issue
  <2>5. CASE StartPlay(t)
    BY <2>5 DEF StartPlay, Issue
  <2>6. CASE PlayOk(t)
    BY <2>6 DEF PlayOk
  <2>7. CASE PlayFails(t)
    BY <2>7 DEF PlayFails
  <2>8. CASE Unlock(t)
    BY <2>8 DEF Unlock
  <2>9. CASE BeginSession(t)
    BY <2>9 DEF BeginSession
  <2>10. CASE DisableSkippedSet(t)
    <3>1. runnerExecute' \in BOOLEAN
      BY <2>10 DEF DisableSkippedSet, SetExecute
    <3> QED
      BY <2>10, <3>1 DEF DisableSkippedSet, SetExecute
  <2>11. CASE CheckPhase(t)
    BY <2>11 DEF CheckPhase
  <2>12. CASE CheckAborts(t)
    BY <2>12 DEF CheckAborts
  <2>13. CASE EndPhase(t)
    <3>1. runnerExecute' \in BOOLEAN
      BY <2>13 DEF EndPhase, SetExecute
    <3>2. pc' = [pc EXCEPT ![t] = @ + 1]
      BY <2>13, Zenon DEF EndPhase, SetExecute
    <3>3. UNCHANGED <<proc, opts, loaded, plan, stage, issued, stageEnabled,
                      commandIdNumber, coutMutex, budget>>
      BY <2>13, Zenon DEF EndPhase, SetExecute
    <3> QED
      BY <3>1, <3>2, <3>3
  <2>14. CASE EndSession(t)
    BY <2>14 DEF EndSession, SetExecute
  <2>15. CASE Complete(t)
    BY <2>15 DEF Complete
  <2> QED
    BY <1>5, <2>1, <2>2, <2>3, <2>4, <2>5, <2>6, <2>7, <2>8, <2>9, <2>10,
       <2>11, <2>12, <2>13, <2>14, <2>15 DEF ThreadStep
<1>6. CASE Crash
  <2>1. budget' \in BudgetType
    BY <1>6, <1>b, BudgetSpent DEF Crash
  <2> QED
    BY <1>6, <2>1 DEF Crash, PlanLoaded, runner, host, BudgetType
<1>7. CASE Flap
  <2>1. budget' \in BudgetType
    BY <1>7, <1>b, BudgetSpent DEF Flap
  <2> QED
    BY <1>7, <2>1 DEF Flap, PlanLoaded, flow, runner, BudgetType
<1>8. CASE UNCHANGED vars
  BY <1>8 DEF vars, flow, runner, host, ghost, PlanLoaded
<1> QED
  BY <1>1, <1>2, <1>3, <1>4, <1>5, <1>6, <1>7, <1>8
  DEF Next, Progress, Finished

\* Every variable keeps its type; in particular the current stage is always
\* one of the stages loaded.
THEOREM TypeCorrect == Spec => []TypeOK
<1>1. TypeInv => TypeOK
  BY DEF TypeInv
<1> QED
  BY <1>1, InitTypeInv, NextTypeInv, PTL DEF Spec

-----------------------------------------------------------------------------
(* Dry runs.                                                               *)

\* No step of a dry run turns the runner on, so none has an effect: the
\* property is inductive by itself.
LEMMA NextDryRun == TypeOK /\ DryRunHarmless /\ [Next]_vars => DryRunHarmless'
<1> SUFFICES ASSUME TypeOK, DryRunHarmless, [Next]_vars, ~opts'.execute
             PROVE  /\ ~runnerExecute'
                    /\ net' = net
                    /\ running' = {} /\ ran' = {}
                    /\ completed' = {} /\ errors' = {}
  BY DEF DryRunHarmless, Next, Progress, Start, StageBegin, StageQuit, StageEnd,
         ThreadStep, SpawnThread, JoinThread, Lock, SystemExec, StartPlay,
         Issue, PlayOk, PlayFails, Unlock, BeginSession, DisableSkippedSet,
         EndPhase, EndSession, SetExecute, CheckPhase, CheckAborts, Complete,
         Crash, Flap, Finished, vars, flow
<1>0. opts' = opts
  BY DEF Next, Progress, Start, StageBegin, StageQuit, StageEnd,
         ThreadStep, SpawnThread, JoinThread, Lock, SystemExec, StartPlay,
         Issue, PlayOk, PlayFails, Unlock, BeginSession, DisableSkippedSet,
         EndPhase, EndSession, SetExecute, CheckPhase, CheckAborts, Complete,
         Crash, Flap, Finished, vars, flow
<1>d. /\ ~opts.execute /\ ~runnerExecute
      /\ running = {} /\ ran = {} /\ completed = {} /\ errors = {}
  BY <1>0 DEF DryRunHarmless
<1> USE <1>d
<1>1. CASE Start
  BY <1>1 DEF Start, host
<1>2. CASE StageBegin \/ StageQuit \/ StageEnd
  BY <1>2 DEF StageBegin, StageQuit, StageEnd, runner, host, ghost
<1>3. ASSUME NEW t \in Threads, ThreadStep(t)
      PROVE  /\ ~runnerExecute'
             /\ net' = net
             /\ running' = {} /\ ran' = {}
             /\ completed' = {} /\ errors' = {}
  <2> USE DEF flow, runner, host, ghost
  <2>1. CASE SpawnThread(t) \/ JoinThread(t)
    BY <2>1 DEF SpawnThread, JoinThread
  <2>2. CASE Lock(t) \/ Unlock(t)
    BY <2>2 DEF Lock, Unlock
  <2>3. CASE SystemExec(t)
    BY <2>3 DEF SystemExec, Issue, Executes
  <2>4. CASE StartPlay(t)
    BY <2>4 DEF StartPlay, Issue, Executes
  <2>5. CASE PlayOk(t) \/ PlayFails(t)
    BY <2>5 DEF PlayOk, PlayFails
  <2>6. CASE BeginSession(t)
    BY <2>6 DEF BeginSession
  <2>7. CASE DisableSkippedSet(t) \/ EndPhase(t) \/ EndSession(t)
    BY <2>7 DEF DisableSkippedSet, EndPhase, EndSession, SetExecute
  <2>8. CASE CheckPhase(t)
    <3>1. RuntimeErrors(Step(t).src) = {}
      BY DEF RuntimeErrors
    <3> QED
      BY <2>8, <3>1 DEF CheckPhase
  <2>9. CASE CheckAborts(t)
    BY <2>9 DEF CheckAborts
  <2>10. CASE Complete(t)
    BY <2>10 DEF Complete
  <2> QED
    BY <1>3, <2>1, <2>2, <2>3, <2>4, <2>5, <2>6, <2>7, <2>8, <2>9, <2>10
    DEF ThreadStep
<1>4. CASE Crash \/ Flap
  BY <1>4 DEF Crash, Flap, flow, runner, host, ghost
<1>5. CASE UNCHANGED vars
  BY <1>5 DEF vars, runner, host, ghost
<1> QED
  BY <1>1, <1>2, <1>3, <1>4, <1>5 DEF Next, Progress, Finished

\* A run without --execute never touches the host or the database, whatever
\* the playbook, the plays file and the interleaving of the threads: no
\* assignment to the runner's flag, in any thread, can turn it on.
THEOREM DryRunSafe == Spec => []DryRunHarmless
<1>1. Init => DryRunHarmless
  BY DEF Init, DryRunHarmless
<1>2. TypeInv => TypeOK
  BY DEF TypeInv
<1> QED
  BY <1>1, <1>2, InitTypeInv, NextTypeInv, NextDryRun, PTL DEF Spec

-----------------------------------------------------------------------------
(* The mutex.                                                              *)

\* The mutex is free when its holder is Nobody, who is no thread.
LEMMA NobodyIsNoThread == Nobody \notin Threads
BY DEF Nobody, Threads, Main

\* Lock, the only way into the runner, needs the mutex, and Unlock leaves
\* both: the property is inductive by itself.
LEMMA NextExclusive == TypeOK /\ RunnerExclusive /\ [Next]_vars => RunnerExclusive'
<1> SUFFICES ASSUME TypeOK, RunnerExclusive, [Next]_vars, proc' = "up"
             PROVE  /\ \A u \in Threads : issued'[u] > 0 => coutMutex' = u
                    /\ running' # {} => coutMutex' # Nobody
  BY DEF RunnerExclusive
<1> USE NobodyIsNoThread
<1>1. CASE Start
  BY <1>1 DEF Start, NoThreads
<1>2. CASE StageBegin \/ StageQuit \/ StageEnd
  BY <1>2 DEF StageBegin, StageQuit, StageEnd, At, RunnerExclusive, runner
<1>3. ASSUME NEW t \in Threads, ThreadStep(t)
      PROVE  /\ \A u \in Threads : issued'[u] > 0 => coutMutex' = u
             /\ running' # {} => coutMutex' # Nobody
  <2> USE DEF flow, runner, RunnerExclusive, TypeOK
  <2>0. proc = "up"
    BY <1>3 DEF ThreadStep, SpawnThread, JoinThread, Lock, SystemExec,
      StartPlay, Issue, PlayOk, PlayFails, Unlock, BeginSession,
      DisableSkippedSet, EndPhase, EndSession, SetExecute, CheckPhase,
      CheckAborts, Complete, At, AtBlock
  <2>1. CASE SpawnThread(t) \/ JoinThread(t)
    BY <2>0, <2>1 DEF SpawnThread, JoinThread
  <2>2. CASE Lock(t)
    BY <2>0, <2>2 DEF Lock
  <2>3. CASE SystemExec(t) \/ StartPlay(t)
    BY <2>0, <2>3 DEF SystemExec, StartPlay, Issue
  <2>4. CASE PlayOk(t) \/ PlayFails(t)
    BY <2>0, <2>4 DEF PlayOk, PlayFails
  <2>5. CASE Unlock(t)
    BY <2>0, <2>5 DEF Unlock
  <2>6. CASE BeginSession(t) \/ CheckPhase(t) \/ CheckAborts(t) \/ Complete(t)
    BY <2>0, <2>6 DEF BeginSession, CheckPhase, CheckAborts, Complete
  <2>7. CASE DisableSkippedSet(t) \/ EndPhase(t) \/ EndSession(t)
    BY <2>0, <2>7, Zenon DEF DisableSkippedSet, EndPhase, EndSession, SetExecute
  <2> QED
    BY <1>3, <2>1, <2>2, <2>3, <2>4, <2>5, <2>6, <2>7 DEF ThreadStep
<1>4. CASE Crash \/ Flap
  BY <1>4 DEF Crash, Flap, RunnerExclusive, flow, runner
<1>5. CASE UNCHANGED vars
  BY <1>5 DEF vars, flow, runner, RunnerExclusive
<1> QED
  BY <1>1, <1>2, <1>3, <1>4, <1>5 DEF Next, Progress, Finished

\* No two threads are ever inside the command runner: commandIdNumber and
\* the plays being executed belong to the holder of coutMutex.
THEOREM RunnerSafe == Spec => []RunnerExclusive
<1>1. Init => RunnerExclusive
  BY DEF Init, RunnerExclusive
<1>2. TypeInv => TypeOK
  BY DEF TypeInv
<1> QED
  BY <1>1, <1>2, InitTypeInv, NextTypeInv, NextExclusive, PTL DEF Spec

-----------------------------------------------------------------------------
(* Inter-network runs are serial.  The plan of a thread that starts others *)
(* follows each start at once by the join of the same thread, so a thread  *)
(* at work has its parent waiting for it, and the parent waits for one     *)
(* thread at a time.                                                       *)

\* Each start in the steps s of thread p is followed by its join.
Paired(p, s) ==
  \A k \in 1..Len(s) : s[k].do = "spawn" =>
    /\ k + 1 \in 1..Len(s)
    /\ s[k + 1] = Join(s[k].thread)
    /\ IsChild(p, s[k].thread)

\* Action lists that join what they start can be put one after the other.
LEMMA PairedConcat ==
  ASSUME NEW p, NEW a, NEW b, IsSeq(a), IsSeq(b), Paired(p, a), Paired(p, b)
  PROVE  IsSeq(a \o b) /\ Paired(p, a \o b)
<1>2. /\ Len(a) \in Nat /\ Len(b) \in Nat
      /\ Len(a \o b) = Len(a) + Len(b)
      /\ \A k \in 1..Len(a) : (a \o b)[k] = a[k]
      /\ \A k \in 1..Len(b) : (a \o b)[Len(a) + k] = b[k]
  BY ConcatSeq
<1>3. IsSeq(a \o b)
  BY ConcatSeq
<1>4. Paired(p, a \o b)
  <2> SUFFICES ASSUME NEW k \in 1..(Len(a) + Len(b)), (a \o b)[k].do = "spawn"
               PROVE  /\ k + 1 \in 1..(Len(a) + Len(b))
                      /\ (a \o b)[k + 1] = Join((a \o b)[k].thread)
                      /\ IsChild(p, (a \o b)[k].thread)
    BY <1>2 DEF Paired
  <2>1. CASE k \in 1..Len(a)
    BY <1>2, <2>1 DEF Paired
  <2>2. CASE k \notin 1..Len(a)
    <3>1. k - Len(a) \in 1..Len(b) /\ Len(a) + (k - Len(a)) = k
      BY <1>2, <2>2
    <3>2. (a \o b)[k] = b[k - Len(a)]
      BY <1>2, <3>1
    <3>3. /\ (k - Len(a)) + 1 \in 1..Len(b)
          /\ b[(k - Len(a)) + 1] = Join(b[k - Len(a)].thread)
          /\ IsChild(p, b[k - Len(a)].thread)
      BY <3>1, <3>2 DEF Paired
    <3>4. (a \o b)[Len(a) + ((k - Len(a)) + 1)] = b[(k - Len(a)) + 1]
      BY <1>2, <3>3
    <3>5. Len(a) + ((k - Len(a)) + 1) = k + 1 /\ k + 1 \in 1..(Len(a) + Len(b))
      BY <1>2, <3>1, <3>3
    <3> QED
      BY <3>2, <3>3, <3>4, <3>5
  <2> QED
    BY <2>1, <2>2
<1> QED
  BY <1>3, <1>4

\* A step that starts no thread.
LEMMA PairedSingle ==
  ASSUME NEW p, NEW s, s.do # "spawn"
  PROVE  IsSeq(<<s>>) /\ Paired(p, <<s>>)
BY DEF IsSeq, Paired, Range

\* The empty list starts nothing.
LEMMA PairedEmpty == ASSUME NEW p PROVE IsSeq(<<>>) /\ Paired(p, <<>>)
BY DEF IsSeq, Paired, Range

\* The guards of a link, their undoing and a capture start no thread.
LEMMA PairedGuards ==
  ASSUME NEW p, NEW l, NEW mac
  PROVE  /\ \A cmds : IsSeq(Block(cmds)) /\ Paired(p, Block(cmds))
         /\ \A w : w # "spawn" => IsSeq(Do(w)) /\ Paired(p, Do(w))
         /\ IsSeq(RaiiMacAddr(l, mac)) /\ Paired(p, RaiiMacAddr(l, mac))
         /\ IsSeq(UndoRaiiMacAddr(l, mac)) /\ Paired(p, UndoRaiiMacAddr(l, mac))
         /\ IsSeq(RaiiIpLink(l)) /\ Paired(p, RaiiIpLink(l))
         /\ IsSeq(UndoRaiiIpLink(l)) /\ Paired(p, UndoRaiiIpLink(l))
         /\ IsSeq(captureTraffic(l)) /\ Paired(p, captureTraffic(l))
<1>1. ASSUME NEW cmds PROVE IsSeq(Block(cmds)) /\ Paired(p, Block(cmds))
  BY PairedSingle DEF Block
<1>2. ASSUME NEW w, w # "spawn" PROVE IsSeq(Do(w)) /\ Paired(p, Do(w))
  BY <1>2, PairedSingle DEF Do
<1> QED
  BY <1>1, <1>2, PairedEmpty
  DEF RaiiMacAddr, UndoRaiiMacAddr, RaiiIpLink, UndoRaiiIpLink, captureTraffic

\* startThreads joins each inter-network thread before it starts the next.
LEMMA PairedThreads ==
  ASSUME NEW p, NEW o, o.scope = "inter", NEW ts, Len(ts) \in Nat,
         \A n \in 1..Len(ts) : IsChild(p, ts[n])
  PROVE  IsSeq(startThreads(o, ts)) /\ Paired(p, startThreads(o, ts))
<1> DEFINE L == Len(ts)
           st == startThreads(o, ts)
<1>1. st = [n \in 1..(2 * L) |->
              IF n % 2 = 1 THEN Spawn(ts[(n + 1) \div 2]) ELSE Join(ts[n \div 2])]
  BY DEF startThreads
<1> HIDE DEF st, L
<1>2. L \in Nat /\ \A n \in 1..L : IsChild(p, ts[n])
  BY DEF L
<1>3. IsSeq(st) /\ Len(st) = 2 * L
  <2>1. DOMAIN st = 1..(2 * L) /\ \A n \in 1..(2 * L) : st[n] \in Range(st)
    BY <1>1 DEF Range
  <2>2. st = [n \in 1..(2 * L) |-> st[n]]
    BY <1>1
  <2> QED
    BY <1>2, <2>1, <2>2 DEF IsSeq
<1>4. ASSUME NEW k \in 1..(2 * L), st[k].do = "spawn"
      PROVE  /\ k + 1 \in 1..(2 * L)
             /\ st[k + 1] = Join(st[k].thread)
             /\ IsChild(p, st[k].thread)
  <2>1. k % 2 = 1
    BY <1>1, <1>4 DEF Join
  <2>2. k + 1 \in 1..(2 * L) /\ (k + 1) % 2 # 1 /\ (k + 1) \div 2 \in 1..L
    BY <1>2, <2>1
  <2>3. st[k] = Spawn(ts[(k + 1) \div 2])
    BY <1>1, <2>1
  <2>4. st[k + 1] = Join(ts[(k + 1) \div 2])
    BY <1>1, <2>2
  <2> QED
    BY <1>2, <2>2, <2>3, <2>4 DEF Spawn
<1> QED
  BY <1>3, <1>4 DEF Paired, st

\* An inter-network interface thread joins each VLAN thread it starts.
LEMMA PairedPhys ==
  ASSUME NEW o, o.scope = "inter", NEW rows \in SUBSET Rows, NEW stg, NEW i
  PROVE  Paired(<<i>>, physIfaceThreadActions(o, rows, stg, <<i>>))
<1> DEFINE t == <<i>>
           mine == {r \in rows : r.stage = stg /\ r.iface = t[1]}
           keys == {r.vlan : r \in mine} \ {NONE}
           vlans == Ascending(keys)
           first == Ascending({r.vlan : r \in mine})[1]
           mac == Ascending({r.mac : r \in {q \in mine : q.vlan = first}})[1]
           direct == <<t[1], NONE>>
           ts == [n \in 1..Len(vlans) |-> <<t[1], vlans[n]>>]
           D == IF \E r \in mine : r.vlan = NONE
                THEN <<Spawn(direct), Join(direct)>> ELSE <<>>
<1>1. IsFiniteSet(mine)
  BY RowsAssumption, FS_Subset
<1>2. IsFiniteSet(keys)
  <2> DEFINE f == [r \in mine |-> r.vlan]
  <2>1. {r.vlan : r \in mine} = {f[r] : r \in mine}
    OBVIOUS
  <2>f. IsFiniteSet({f[r] : r \in mine})
    <3> HIDE DEF f
    <3> QED
      BY <1>1, FiniteImage
  <2>2. IsFiniteSet({r.vlan : r \in mine})
    BY <2>1, <2>f
  <2> QED
    BY <2>2, FS_Subset
<1>3. Len(vlans) \in Nat
  BY <1>2, AscendingLength
<1>4. Len(ts) = Len(vlans) /\ \A n \in 1..Len(vlans) : ts[n] = <<i, vlans[n]>>
  <2> HIDE DEF vlans
  <2> QED
    BY <1>3
<1>5. \A n \in 1..Len(ts) : IsChild(t, ts[n])
  BY <1>4 DEF IsChild
<1>6. IsSeq(startThreads(o, ts)) /\ Paired(t, startThreads(o, ts))
  <2> HIDE DEF ts, vlans
  <2> QED
    BY <1>3, <1>4, <1>5, PairedThreads
<1>7. IsSeq(D) /\ Paired(t, D)
  <2>1. CASE D = <<>>
    BY <2>1, PairedEmpty
  <2>2. CASE D = <<Spawn(direct), Join(direct)>>
    <3>1. IsChild(t, direct)
      BY DEF IsChild
    <3> HIDE DEF D, direct
    <3>2. D[1] = Spawn(direct) /\ D[2] = Join(direct) /\ Len(D) = 2
      BY <2>2
    <3>3. Paired(t, D)
      BY <3>1, <3>2 DEF Paired, Spawn, Join
    <3>4. IsSeq(D)
      BY <2>2 DEF IsSeq, Range
    <3> QED
      BY <3>3, <3>4
  <2> QED
    BY <2>1, <2>2
<1>8. physIfaceThreadActions(o, rows, stg, t)
        = RaiiMacAddr(t, mac) \o RaiiIpLink(t) \o captureTraffic(t)
            \o startThreads(o, ts)
            \o UndoRaiiIpLink(t) \o UndoRaiiMacAddr(t, mac) \o D
  BY DEF physIfaceThreadActions
<1> HIDE DEF t, mine, keys, vlans, first, mac, direct, ts, D
<1> DEFINE s1 == RaiiMacAddr(t, mac) \o RaiiIpLink(t)
           s2 == s1 \o captureTraffic(t)
           s3 == s2 \o startThreads(o, ts)
           s4 == s3 \o UndoRaiiIpLink(t)
           s5 == s4 \o UndoRaiiMacAddr(t, mac)
<1>9. IsSeq(s1) /\ Paired(t, s1)
  BY PairedGuards, PairedConcat
<1> HIDE DEF s1
<1>10. IsSeq(s2) /\ Paired(t, s2)
  BY <1>9, PairedGuards, PairedConcat
<1> HIDE DEF s2
<1>11. IsSeq(s3) /\ Paired(t, s3)
  BY <1>6, <1>10, PairedConcat
<1> HIDE DEF s3
<1>12. IsSeq(s4) /\ Paired(t, s4)
  BY <1>11, PairedGuards, PairedConcat
<1> HIDE DEF s4
<1>13. IsSeq(s5) /\ Paired(t, s5)
  BY <1>12, PairedGuards, PairedConcat
<1> HIDE DEF s5
<1>14. Paired(t, s5 \o D)
  BY <1>7, <1>13, PairedConcat
<1>15. physIfaceThreadActions(o, rows, stg, t) = s5 \o D
  BY <1>8 DEF s1, s2, s3, s4, s5
<1> QED
  BY <1>14, <1>15 DEF t

\* The main thread of an inter-network run joins each interface thread.
LEMMA PairedStage ==
  ASSUME NEW o, o.scope = "inter", NEW rows \in SUBSET Rows, NEW stg
  PROVE  Paired(Main, stageActions(o, rows, stg))
<1> DEFINE mine == {q \in rows : q.stage = stg}
           keys == {r.iface : r \in mine}
           ifaces == Ascending(keys)
           ts == [n \in 1..Len(ifaces) |-> <<ifaces[n]>>]
<1>1. IsFiniteSet(mine)
  BY RowsAssumption, FS_Subset
<1>2. IsFiniteSet(keys)
  <2> DEFINE f == [r \in mine |-> r.iface]
  <2>1. keys = {f[r] : r \in mine}
    OBVIOUS
  <2>f. IsFiniteSet({f[r] : r \in mine})
    <3> HIDE DEF f
    <3> QED
      BY <1>1, FiniteImage
  <2> QED
    BY <2>1, <2>f
<1>3. Len(ifaces) \in Nat
  BY <1>2, AscendingLength
<1>4. Len(ts) = Len(ifaces) /\ \A n \in 1..Len(ifaces) : ts[n] = <<ifaces[n]>>
  <2> HIDE DEF ifaces
  <2> QED
    BY <1>3
<1>5. \A n \in 1..Len(ts) : IsChild(Main, ts[n])
  BY <1>4 DEF IsChild
<1>6. IsSeq(startThreads(o, ts)) /\ Paired(Main, startThreads(o, ts))
  <2> HIDE DEF ts, ifaces
  <2> QED
    BY <1>3, <1>4, <1>5, PairedThreads
<1>7. stageActions(o, rows, stg)
        = (Do("stage") \o startThreads(o, ts)) \o Block(<<>>)
  BY DEF stageActions
<1> HIDE DEF ts
<1>8. /\ IsSeq(Do("stage") \o startThreads(o, ts))
      /\ Paired(Main, Do("stage") \o startThreads(o, ts))
  BY <1>6, PairedGuards, PairedConcat
<1> QED
  BY <1>7, <1>8, PairedGuards, PairedConcat

\* Every plan of an inter-network run pairs each start with its join.
LEMMA PairedPlan ==
  ASSUME NEW o, o.scope = "inter", NEW rows \in SUBSET Rows,
         NEW n \in 1..Len(Plan(o, rows)), NEW p \in Threads, Len(p) < 2
  PROVE  Paired(p, Plan(o, rows)[n][p])
<1> DEFINE stg == enabledStages(o, rows)[n]
<1>1. Plan(o, rows)[n][p] = threadActions(o, rows, stg, p)
  <2>1. n \in DOMAIN Plan(o, rows)
    BY PlanLength
  <2> QED
    BY <2>1 DEF Plan
<1>2. p = Main \/ \E i : p = <<i>>
  <2>1. CASE \E r \in Rows : p = <<r.iface, r.vlan>>
    BY <2>1
  <2> QED
    BY <2>1 DEF Threads
<1>3. CASE ~HasRows(rows, stg, p)
  BY <1>1, <1>3, PairedEmpty DEF threadActions
<1>4. CASE HasRows(rows, stg, p) /\ p = Main
  BY <1>1, <1>4, PairedStage DEF threadActions
<1>5. CASE HasRows(rows, stg, p) /\ \E i : p = <<i>>
  <2>1. PICK i : p = <<i>>
    BY <1>5
  <2>2. p # Main /\ Len(p) = 1
    BY <2>1 DEF Main
  <2>3. Plan(o, rows)[n][p] = physIfaceThreadActions(o, rows, stg, p)
    BY <1>1, <1>5, <2>2 DEF threadActions
  <2> QED
    BY <2>1, <2>3, PairedPhys
<1> QED
  BY <1>2, <1>3, <1>4, <1>5

\* The inductive invariant: the parent of a thread at work waits for it.
ParentWaits(t) ==
  \E p \in Threads : IsChild(p, t) /\ Alive(p) /\ Step(p) = Join(t)

Serial ==
  proc = "up" /\ opts.scope = "inter" =>
    \A t \in Threads : t # Main /\ Alive(t) => ParentWaits(t)

\* A thread has one parent, which is another thread.
LEMMA OneParent ==
  ASSUME NEW p, NEW q, NEW c, IsChild(p, c)
  PROVE  /\ IsChild(q, c) => p = q
         /\ p # c /\ Len(p) < 2
         /\ c # Main
<1>1. CASE p = Main /\ \E i : c = <<i>>
  BY <1>1 DEF IsChild, Main
<1>2. CASE \E i, v : p = <<i>> /\ c = <<i, v>>
  BY <1>2 DEF IsChild, Main
<1> QED
  BY <1>1, <1>2 DEF IsChild

\* A step that neither starts nor joins a thread.
Quiet(p) ==
  /\ Alive(p) /\ Step(p).do \notin {"spawn", "join"}
  /\ UNCHANGED <<proc, opts, loaded, plan, stage>>
  /\ pc' = pc \/ Advance(p)

\* A step that neither starts nor joins a thread keeps Serial.
LEMMA QuietSerial ==
  ASSUME TypeOK, Serial, proc = "up", NEW p \in Threads, Quiet(p)
  PROVE  Serial'
<1> SUFFICES ASSUME opts.scope = "inter", NEW t \in Threads, t # Main, Alive(t)'
             PROVE  ParentWaits(t)'
  BY DEF Serial, Quiet
<1>1. Alive(t)
  BY DEF Alive, Steps, Quiet, Advance, TypeOK
<1>2. PICK q \in Threads : IsChild(q, t) /\ Alive(q) /\ Step(q) = Join(t)
  BY <1>1 DEF Serial, ParentWaits
<1>3. q # p
  BY <1>2 DEF Quiet, Join
<1>4. pc'[q] = pc[q]
  BY <1>3 DEF Quiet, Advance, TypeOK
<1>5. Alive(q)' /\ Step(q)' = Join(t)
  BY <1>2, <1>4 DEF Alive, Step, Steps, Quiet
<1> QED
  BY <1>2, <1>5 DEF ParentWaits

\* Starting a thread keeps Serial: the next step of its parent is the join.
LEMMA SpawnSerial ==
  ASSUME TypeInv, Serial, NEW p \in Threads, SpawnThread(p)
  PROVE  Serial'
<1> SUFFICES ASSUME opts.scope = "inter", NEW t \in Threads, t # Main, Alive(t)'
             PROVE  ParentWaits(t)'
  BY DEF Serial, SpawnThread
<1> DEFINE c == Step(p).thread
<1>0. /\ proc = "up" /\ Alive(p) /\ Step(p).do = "spawn" /\ Len(p) < 2
      /\ UNCHANGED <<proc, opts, loaded, plan, stage>>
      /\ pc' = [pc EXCEPT ![p] = @ + 1, ![c] = 1]
      /\ pc \in [Threads -> Nat]
  BY DEF SpawnThread, At, TypeInv, TypeOK
<1>1. Paired(p, Steps(p))
  <2>1. plan = Plan(opts, loaded) /\ loaded \in SUBSET Rows
    BY <1>0 DEF TypeInv, PlanLoaded
  <2>2. stage \in 1..Len(plan)
    BY <1>0 DEF TypeInv, TypeOK
  <2> QED
    BY <1>0, <2>1, <2>2, PairedPlan DEF Steps
<1>2. /\ pc[p] + 1 \in 1..Len(Steps(p))
      /\ Steps(p)[pc[p] + 1] = Join(c)
      /\ IsChild(p, c)
  BY <1>0, <1>1 DEF Paired, Alive, Step
<1>3. p # c /\ Len(p) < 2
  BY <1>2, OneParent
<1> HIDE DEF c
<1>4. pc'[p] = pc[p] + 1 /\ \A u \in Threads : u # p /\ u # c => pc'[u] = pc[u]
  BY <1>0, <1>3
<1>5. CASE t = c
  <2>1. Alive(p)' /\ Step(p)' = Join(t)
    BY <1>0, <1>2, <1>4, <1>5 DEF Alive, Step, Steps
  <2> QED
    BY <1>2, <1>5, <2>1 DEF ParentWaits
<1>6. CASE t # c
  <2>1. Alive(t)
    <3>1. CASE t = p
      BY <1>0, <3>1
    <3>2. CASE t # p
      BY <1>0, <1>4, <1>6, <3>2 DEF Alive, Steps
    <3> QED
      BY <3>1, <3>2
  <2>2. PICK q \in Threads : IsChild(q, t) /\ Alive(q) /\ Step(q) = Join(t)
    BY <1>0, <2>1 DEF Serial, ParentWaits
  <2>3. q # p
    BY <1>0, <2>2 DEF Join
  <2>4. q # c
    <3> SUFFICES ASSUME q = c PROVE FALSE
      OBVIOUS
    <3>1. c # Main /\ c \in Threads
      BY <1>2, OneParent
    <3>2. PICK u \in Threads : IsChild(u, c) /\ Step(u) = Join(c)
      BY <1>0, <2>2, <3>1 DEF Serial, ParentWaits
    <3>3. u = p
      BY <1>2, <3>2, OneParent
    <3> QED
      BY <1>0, <3>2, <3>3 DEF Join
  <2>5. pc'[q] = pc[q]
    BY <1>4, <2>3, <2>4
  <2>6. Alive(q)' /\ Step(q)' = Join(t)
    BY <1>0, <2>2, <2>5 DEF Alive, Step, Steps
  <2> QED
    BY <2>2, <2>6 DEF ParentWaits
<1> QED
  BY <1>5, <1>6

\* A join only lets a parent go on whose child has returned.
LEMMA JoinSerial ==
  ASSUME TypeOK, Serial, NEW p \in Threads, JoinThread(p)
  PROVE  Serial'
<1> SUFFICES ASSUME opts.scope = "inter", NEW t \in Threads, t # Main, Alive(t)'
             PROVE  ParentWaits(t)'
  BY DEF Serial, JoinThread
<1>0. /\ proc = "up" /\ Alive(p) /\ Returned(Step(p).thread)
      /\ UNCHANGED <<proc, opts, loaded, plan, stage>>
      /\ \A u \in Threads : u # p => pc'[u] = pc[u]
      /\ pc \in [Threads -> Nat]
  BY DEF JoinThread, At, Advance, TypeOK
<1>1. Alive(t)
  BY <1>0 DEF Alive, Steps
<1>2. PICK q \in Threads : IsChild(q, t) /\ Alive(q) /\ Step(q) = Join(t)
  BY <1>0, <1>1 DEF Serial, ParentWaits
<1>3. q # p
  <2> SUFFICES ASSUME q = p PROVE FALSE
    OBVIOUS
  <2>1. Step(p).thread = t
    BY <1>2 DEF Join
  <2>2. pc[t] > Len(Steps(t)) /\ pc[t] \in 1..Len(Steps(t))
    BY <1>0, <1>1, <2>1 DEF Returned, Alive
  <2> HIDE DEF Steps
  <2> QED
    BY <2>2
<1>4. Alive(q)' /\ Step(q)' = Join(t)
  BY <1>0, <1>2, <1>3 DEF Alive, Step, Steps
<1> QED
  BY <1>2, <1>4 DEF ParentWaits

\* Serial is inductive, given the types.
LEMMA NextSerial == TypeInv /\ Serial /\ [Next]_vars => Serial'
<1> SUFFICES ASSUME TypeInv, Serial, [Next]_vars, proc' = "up"
             PROVE  Serial'
  BY DEF Serial
<1>t. TypeOK /\ Main \in Threads
  BY DEF TypeInv, Threads
<1>m. ASSUME pc' = OnlyMain PROVE Serial'
  BY <1>m DEF Serial, Alive, OnlyMain, NoThreads
<1>1. CASE Start
  BY <1>1, <1>m DEF Start
<1>2. CASE StageBegin
  <2>1. Quiet(Main) /\ proc = "up"
    BY <1>2 DEF StageBegin, At, Quiet
  <2> QED
    BY <1>t, <2>1, QuietSerial
<1>3. CASE StageQuit
  BY <1>3 DEF StageQuit
<1>4. CASE StageEnd
  BY <1>4, <1>m DEF StageEnd
<1>5. ASSUME NEW t \in Threads, ThreadStep(t)
      PROVE  Serial'
  <2>1. CASE SpawnThread(t)
    BY <2>1, SpawnSerial
  <2>2. CASE JoinThread(t)
    BY <1>t, <2>2, JoinSerial
  <2>3. CASE ~SpawnThread(t) /\ ~JoinThread(t)
    <3> USE <2>3 DEF Quiet, At, AtBlock, flow
    <3>1. CASE Lock(t)
      BY <3>1, QuietSerial, <1>t DEF Lock
    <3>2. CASE SystemExec(t) \/ StartPlay(t)
      BY <3>2, QuietSerial, <1>t DEF SystemExec, StartPlay, Issue
    <3>3. CASE PlayOk(t) \/ PlayFails(t)
      BY <3>3, QuietSerial, <1>t DEF PlayOk, PlayFails
    <3>4. CASE Unlock(t)
      BY <3>4, QuietSerial, <1>t DEF Unlock
    <3>5. CASE BeginSession(t) \/ CheckPhase(t) \/ Complete(t)
      BY <3>5, QuietSerial, <1>t DEF BeginSession, CheckPhase, Complete
    <3>6. CASE CheckAborts(t)
      BY <3>6 DEF CheckAborts
    <3>7. CASE DisableSkippedSet(t) \/ EndPhase(t) \/ EndSession(t)
      <4>1. Quiet(t) /\ proc = "up"
        BY <3>7, Zenon
        DEF DisableSkippedSet, EndPhase, EndSession, SetExecute
      <4> QED
        BY <1>t, <4>1, QuietSerial
    <3> QED
      BY <1>5, <3>1, <3>2, <3>3, <3>4, <3>5, <3>6, <3>7 DEF ThreadStep
  <2> QED
    BY <2>1, <2>2, <2>3
<1>6. CASE Crash
  BY <1>6 DEF Crash
<1>7. CASE Flap \/ UNCHANGED vars
  BY <1>7 DEF Flap, vars, flow, Serial, ParentWaits, Alive, Step, Steps
<1> QED
  BY <1>1, <1>2, <1>3, <1>4, <1>5, <1>6, <1>7 DEF Next, Progress, Finished

\* If every live thread is waited for by its parent, the live threads form
\* one chain, with one VLAN thread at its end.
LEMMA SerialImpliesOne == Serial => OneVlanActive
<1> SUFFICES ASSUME Serial, proc = "up", opts.scope = "inter",
                    NEW t \in VlanThreads, NEW u \in VlanThreads,
                    Alive(t), Alive(u)
             PROVE  t = u
  BY DEF OneVlanActive
<1>1. ASSUME NEW w \in VlanThreads, Alive(w)
      PROVE  \E p \in Threads : /\ IsChild(p, w) /\ Step(p) = Join(w)
                                /\ Step(Main) = Join(p)
  <2>1. w \in Threads /\ Len(w) = 2 /\ w # Main
    BY DEF VlanThreads, Main
  <2>2. PICK p \in Threads : IsChild(p, w) /\ Alive(p) /\ Step(p) = Join(w)
    BY <1>1, <2>1 DEF Serial, ParentWaits
  <2>3. \E i : p = <<i>>
    <3>1. CASE \E i : w = <<i>>
      BY <2>1, <3>1
    <3> QED
      BY <2>2, <3>1 DEF IsChild
  <2>4. p # Main /\ Len(p) = 1
    BY <2>3 DEF Main
  <2>5. PICK q \in Threads : IsChild(q, p) /\ Step(q) = Join(p)
    BY <2>2, <2>4 DEF Serial, ParentWaits
  <2>6. q = Main
    <3>1. CASE \E i, v : p = <<i, v>>
      BY <2>4, <3>1
    <3> QED
      BY <2>5, <3>1 DEF IsChild
  <2> QED
    BY <2>2, <2>5, <2>6
<1>2. PICK p \in Threads : /\ IsChild(p, t) /\ Step(p) = Join(t)
                           /\ Step(Main) = Join(p)
  BY <1>1
<1>3. PICK q \in Threads : /\ IsChild(q, u) /\ Step(q) = Join(u)
                           /\ Step(Main) = Join(q)
  BY <1>1
<1>4. p = q
  <2>1. Join(p).thread = p /\ Join(q).thread = q
    BY DEF Join
  <2> QED
    BY <1>2, <1>3, <2>1
<1>5. Join(t).thread = t /\ Join(u).thread = u
  BY DEF Join
<1> QED
  BY <1>2, <1>3, <1>4, <1>5

\* Whatever the playbook, an inter-network run works on one VLAN of one
\* interface at a time.
THEOREM InterSerial == Spec => []OneVlanActive
<1>1. Init => Serial
  BY DEF Init, Serial
<1> QED
  BY <1>1, InitTypeInv, NextTypeInv, NextSerial, SerialImpliesOne, PTL DEF Spec

-----------------------------------------------------------------------------
(* Where the threads are.                                                  *)

\* The stage with index n of a run, the sources of thread t in it, and a
\* trace of its steps.
StageOf(o, rows, n)      == enabledStages(o, rows)[n]
SourcesOf(o, rows, n, t) == Own(rows, StageOf(o, rows, n), t)
TraceOf(o, rows, n, t)   ==
  CHOOSE c : ThreadTrace(o, rows, StageOf(o, rows, n), t, Plan(o, rows)[n][t], c)

\* The sources of thread t in the current stage, and the control points
\* before and after its next step.
Sources(t) == SourcesOf(opts, loaded, stage, t)
Trace(t)   == TraceOf(opts, loaded, stage, t)
Now(t)     == Trace(t)[pc[t]]
After(t)   == Trace(t)[pc[t] + 1]

\* Every thread of a plan has a trace.
LEMMA PlanTraced ==
  ASSUME NEW o \in OptionSet, NEW rows \in SUBSET Rows,
         NEW n \in 1..Len(Plan(o, rows)), NEW t \in Threads
  PROVE  LET s == Plan(o, rows)[n][t]
             own == SourcesOf(o, rows, n, t)
             kids == Kids(rows, StageOf(o, rows, n), t)
             c == TraceOf(o, rows, n, t)
         IN  /\ Len(s) \in Nat
             /\ c[1] = Beginning
             /\ \A k \in 1..(Len(s) + 1) : IsControl(own, c[k])
             /\ \A k \in 1..Len(s) : Follows(o, t, own, c[k], s[k], c[k + 1])
             /\ c[Len(s) + 1].phase = 0 /\ c[Len(s) + 1].done = own
             /\ c[Len(s) + 1].kids = kids /\ c[Len(s) + 1].joined = kids
<1> DEFINE s == Plan(o, rows)[n][t]
           stg == StageOf(o, rows, n)
           c == TraceOf(o, rows, n, t)
<1>1. s = threadActions(o, rows, stg, t)
  <2>1. n \in DOMAIN Plan(o, rows)
    BY PlanLength
  <2> QED BY <2>1 DEF Plan, StageOf
<1>2. o \in OptionType
  BY OptionsAssumption
<1> HIDE DEF s
<1>3. IsSeq(s) /\ \E d : ThreadTrace(o, rows, stg, t, s, d)
  <2> HIDE DEF stg
  <2> QED BY <1>1, <1>2, ThreadsFollowLoops
<1>4. c = CHOOSE d : ThreadTrace(o, rows, stg, t, s, d)
  BY DEF TraceOf, s
<1> HIDE DEF c
<1>5. ThreadTrace(o, rows, stg, t, s, c)
  BY <1>3, <1>4
<1>6. Len(s) \in Nat
  BY <1>3 DEF IsSeq
<1> QED BY <1>5, <1>6 DEF ThreadTrace, Traces, SourcesOf, s, c

\* A thread that is at work stands at a control point and its next step
\* follows from it; one that has returned stands at the last.
LEMMA StateTraced ==
  ASSUME TypeInv, proc = "up", NEW t \in Threads
  PROVE  /\ Len(Steps(t)) \in Nat /\ pc[t] \in Nat
         /\ pc[t] \in 1..(Len(Steps(t)) + 1) => IsControl(Sources(t), Now(t))
         /\ pc[t] = 1 => Now(t) = Beginning
         /\ Alive(t) => Follows(opts, t, Sources(t), Now(t), Step(t), After(t))
         /\ pc[t] = Len(Steps(t)) + 1 =>
              /\ Now(t).phase = 0 /\ Now(t).done = Sources(t)
              /\ Now(t).kids = Kids(loaded, StageOf(opts, loaded, stage), t)
              /\ Now(t).joined = Now(t).kids
<1>1. /\ plan = Plan(opts, loaded) /\ loaded \in SUBSET Rows
      /\ opts \in OptionSet /\ stage \in 1..Len(plan) /\ pc[t] \in Nat
  BY DEF TypeInv, TypeOK, PlanLoaded
<1>2. stage \in 1..Len(Plan(opts, loaded)) /\ Steps(t) = Plan(opts, loaded)[stage][t]
  BY <1>1 DEF Steps
<1> QED BY <1>1, <1>2, PlanTraced DEF Alive, Step, Now, After, Trace, Sources

-----------------------------------------------------------------------------
(* How the threads move.                                                   *)

\* Thread t takes a step, or part of one, or starts another thread.
Moves(t) ==
  /\ proc = "up" /\ Alive(t)
  /\ UNCHANGED <<proc, opts, loaded, plan, stage>>
  /\ \/ pc' = pc
     \/ pc' = [pc EXCEPT ![t] = @ + 1] /\ Step(t).do # "spawn"
     \/ /\ pc' = [pc EXCEPT ![t] = @ + 1, ![Step(t).thread] = 1]
        /\ Step(t).do = "spawn" /\ Len(t) < 2

\* Everything a thread does is such a move, or ends the process.
LEMMA ThreadMoves ==
  ASSUME NEW t \in Threads, ThreadStep(t)
  PROVE  CheckAborts(t) \/ Moves(t)
<1> USE DEF Moves, At, AtBlock, flow
<1>1. CASE SpawnThread(t)
  BY <1>1 DEF SpawnThread
<1>2. CASE JoinThread(t)
  BY <1>2 DEF JoinThread, Advance
<1>3. CASE Lock(t)
  BY <1>3 DEF Lock
<1>4. CASE SystemExec(t) \/ StartPlay(t)
  BY <1>4 DEF SystemExec, StartPlay, Issue
<1>5. CASE PlayOk(t) \/ PlayFails(t)
  BY <1>5 DEF PlayOk, PlayFails
<1>6. CASE Unlock(t)
  BY <1>6 DEF Unlock, Advance
<1>7. CASE BeginSession(t) \/ CheckPhase(t) \/ Complete(t)
  BY <1>7 DEF BeginSession, CheckPhase, Complete, Advance
<1>8. CASE DisableSkippedSet(t) \/ EndPhase(t) \/ EndSession(t)
  <2>1. /\ proc = "up" /\ Alive(t)
        /\ UNCHANGED <<proc, opts, loaded, plan, stage>>
        /\ pc' = [pc EXCEPT ![t] = @ + 1]
        /\ Step(t).do # "spawn"
    BY <1>8, Zenon DEF DisableSkippedSet, EndPhase, EndSession, SetExecute, Advance
  <2> QED BY <2>1
<1> QED BY <1>1, <1>2, <1>3, <1>4, <1>5, <1>6, <1>7, <1>8 DEF ThreadStep


\* No thread is past its end, and main has always been started.
Positions ==
  proc = "up" =>
    pc[Main] > 0 /\ \A t \in Threads : pc[t] <= Len(Steps(t)) + 1

\* A thread that was started was started by its parent, in this stage; one
\* that was joined has returned.
Family ==
  proc = "up" =>
    \A p, c \in Threads :
      /\ IsChild(p, c) /\ pc[c] > 0 => pc[p] > 0 /\ c \in Now(p).kids
      /\ pc[p] > 0 /\ c \in Now(p).joined => Returned(c)

\* The mutex is held by a thread at a block, and the plays running are of
\* its command set.
Locked ==
  proc = "up" =>
    /\ coutMutex # Nobody => coutMutex \in Threads /\ AtBlock(coutMutex)
    /\ \A c \in running :
         /\ At(coutMutex, "set")
         /\ \E k \in 1..Len(Cmds(coutMutex)) : c = Cmds(coutMutex)[k]

Located == TypeInv /\ RunnerExclusive /\ Positions /\ Family /\ Locked

\* What a step of thread t does to the positions: t stays or goes on to its
\* next control point, a thread it starts is at its first one, and all other
\* threads stay.
LEMMA Frame ==
  ASSUME TypeInv, Family, NEW t \in Threads, Moves(t)
  PROVE  /\ \A u \in Threads : /\ Steps(u)' = Steps(u) /\ Trace(u)' = Trace(u)
                               /\ Sources(u)' = Sources(u)
         /\ \A u \in Threads \ {t} :
              \/ pc'[u] = pc[u] /\ Now(u)' = Now(u)
              \/ /\ Step(t).do = "spawn" /\ u = Step(t).thread
                 /\ pc[u] = 0 /\ pc'[u] = 1
                 /\ Now(u)' = Beginning
         /\ \/ pc' = pc /\ Now(t)' = Now(t)
            \/ pc'[t] = pc[t] + 1 /\ Now(t)' = After(t)
<1>1. /\ UNCHANGED <<proc, opts, loaded, plan, stage>>
      /\ proc = "up" /\ Alive(t) /\ pc \in [Threads -> Nat]
  BY DEF Moves, TypeInv, TypeOK
<1>2. \A u \in Threads : /\ Steps(u)' = Steps(u) /\ Trace(u)' = Trace(u)
                         /\ Sources(u)' = Sources(u)
  BY <1>1 DEF Steps, Trace, Sources
<1>3. \A u : Now(u)' = Trace(u)[pc'[u]]
  BY <1>1 DEF Now, Trace
<1>4. CASE pc' = pc
  BY <1>2, <1>3, <1>4 DEF Now
<1>5. CASE pc' = [pc EXCEPT ![t] = @ + 1]
  <2>1. pc'[t] = pc[t] + 1 /\ \A u \in Threads \ {t} : pc'[u] = pc[u]
    BY <1>1, <1>5
  <2> QED BY <1>2, <1>3, <2>1 DEF Now, After
<1>6. CASE /\ pc' = [pc EXCEPT ![t] = @ + 1, ![Step(t).thread] = 1]
           /\ Step(t).do = "spawn"
  <2> DEFINE c == Step(t).thread
             pc1 == [pc EXCEPT ![t] = @ + 1]
  <2>1. Follows(opts, t, Sources(t), Now(t), Step(t), After(t))
    BY <1>1, StateTraced
  <2>2. IsChild(t, c) /\ c \notin Now(t).kids
    <3>1. SpawnFollows(t, Now(t), Step(t), After(t))
      BY <1>6, <2>1 DEF Follows, BlockFollows, JoinFollows, SessionFollows,
        CheckFollows, DisableFollows, SetFollows, EndPhaseFollows, ResetFollows, CompleteFollows
    <3> QED BY <3>1 DEF SpawnFollows
  <2>3. t # c
    BY <2>2, OneParent
  <2>4. pc1 \in [Threads -> Nat] /\ pc' = [pc1 EXCEPT ![c] = 1]
    BY <1>1, <1>6
  <2> HIDE DEF c
  <2>5. pc'[t] = pc[t] + 1
    BY <1>1, <2>3, <2>4
  <2>6. \A u \in Threads \ {t, c} : pc'[u] = pc[u]
    BY <1>1, <2>4
  <2>7. ASSUME c \in Threads
        PROVE  pc[c] = 0 /\ pc'[c] = 1
    <3>1. pc[c] \in Nat /\ ~(pc[c] > 0)
      BY <1>1, <2>2, <2>7 DEF Family
    <3> QED BY <2>4, <2>7, <3>1
  <2>8. ASSUME c \in Threads
        PROVE  Trace(c)[1] = Beginning
    <3>1. /\ plan = Plan(opts, loaded) /\ loaded \in SUBSET Rows
          /\ opts \in OptionSet /\ stage \in 1..Len(plan)
      BY <1>1 DEF TypeInv, TypeOK, PlanLoaded
    <3> QED BY <2>8, <3>1, PlanTraced DEF Trace
  <2> QED BY <1>2, <1>3, <1>6, <2>5, <2>6, <2>7, <2>8 DEF Now, After, c
<1> QED BY <1>4, <1>5, <1>6 DEF Moves


\* Only the steps that start and join threads change what was started and
\* joined.
LEMMA FollowsFamily ==
  ASSUME NEW o, NEW t, NEW own, NEW A, NEW x, NEW B, Follows(o, t, own, A, x, B)
  PROVE  /\ x.do = "spawn" => /\ IsChild(t, x.thread) /\ x.thread \notin A.kids
                              /\ B.kids = A.kids \cup {x.thread}
         /\ x.do # "spawn" => B.kids = A.kids
         /\ x.do = "join" => B.joined = A.joined \cup {x.thread}
         /\ x.do # "join" => B.joined = A.joined
<1> USE DEF Control
<1>1. CASE (x.do = "stage" /\ B = A) \/ BlockFollows(o, t, A, x, B)
  BY <1>1 DEF BlockFollows, Holding
<1>2. CASE SpawnFollows(t, A, x, B)
  BY <1>2 DEF SpawnFollows
<1>3. CASE JoinFollows(A, x, B)
  BY <1>3 DEF JoinFollows
<1>4. CASE SessionFollows(o, own, A, x, B)
  BY <1>4 DEF SessionFollows
<1>5. CASE CheckFollows(A, x, B) \/ DisableFollows(o, A, x, B)
  BY <1>5 DEF CheckFollows, DisableFollows
<1>6. CASE SetFollows(A, x, B) \/ EndPhaseFollows(o, A, x, B)
  <2>1. /\ x.do # "spawn" /\ x.do # "join"
        /\ \E p, s, k : B = Control(A.kids, A.joined, A.done, A.tested, A.src, A.rtr,
                                 p, s, k, A.held)
    BY <1>6 DEF SetFollows, EndPhaseFollows, Control
  <2> QED BY <2>1
<1>7. CASE ResetFollows(A, x, B) \/ CompleteFollows(o, own, A, x, B)
  BY <1>7 DEF ResetFollows, CompleteFollows
<1> QED BY <1>1, <1>2, <1>3, <1>4, <1>5, <1>6, <1>7 DEF Follows

\* A move keeps the family in order, if a join waits for its thread.
LEMMA MoveFamily ==
  ASSUME TypeInv, Positions, Family, NEW t \in Threads, Moves(t),
         pc' # pc /\ Step(t).do = "join" => Returned(Step(t).thread)
  PROVE  Positions' /\ Family'
<1> DEFINE start == Beginning
<1>1. /\ \A u \in Threads : Steps(u)' = Steps(u)
      /\ \A u \in Threads \ {t} :
           \/ pc'[u] = pc[u] /\ Now(u)' = Now(u)
           \/ /\ Step(t).do = "spawn" /\ u = Step(t).thread
              /\ pc[u] = 0 /\ pc'[u] = 1 /\ Now(u)' = start
      /\ \/ pc' = pc /\ Now(t)' = Now(t)
         \/ pc'[t] = pc[t] + 1 /\ Now(t)' = After(t)
  BY Frame
<1>2. /\ proc = "up" /\ proc' = "up" /\ Alive(t) /\ Main \in Threads
      /\ pc[t] \in 1..Len(Steps(t))
  BY DEF Moves, Alive, Threads
<1>3. \A u \in Threads : pc[u] \in Nat /\ Len(Steps(u)) \in Nat
  BY <1>2, StateTraced
<1>4. Follows(opts, t, Sources(t), Now(t), Step(t), After(t))
  BY <1>2, StateTraced
<1>5. /\ Step(t).do = "spawn" => /\ IsChild(t, Step(t).thread)
                                 /\ After(t).kids = Now(t).kids \cup {Step(t).thread}
      /\ Step(t).do # "spawn" => After(t).kids = Now(t).kids
      /\ Step(t).do = "join" => After(t).joined = Now(t).joined \cup {Step(t).thread}
      /\ Step(t).do # "join" => After(t).joined = Now(t).joined
  BY <1>4, FollowsFamily
<1>6. start.joined = {}
  BY DEF Beginning, Control
<1> HIDE DEF start
<1>7. \A u \in Threads : Returned(u) =>
        u # t /\ pc[u] # 0 /\ pc'[u] = pc[u] /\ Returned(u)'
  <2> TAKE u \in Threads
  <2> HAVE Returned(u)
  <2>1. u # t /\ pc[u] # 0
    BY <1>2, <1>3 DEF Returned
  <2>2. pc'[u] = pc[u]
    BY <1>1, <2>1
  <2> QED BY <1>1, <2>1, <2>2 DEF Returned
<1>8. Positions'
  <2>1. \A u \in Threads : pc'[u] <= Len(Steps(u)) + 1
    BY <1>1, <1>2, <1>3 DEF Positions
  <2>2. pc'[Main] > 0
    BY <1>1, <1>2, <1>3 DEF Positions
  <2> QED BY <1>1, <2>1, <2>2 DEF Positions
<1>9. ASSUME NEW p \in Threads, NEW c \in Threads, IsChild(p, c), pc'[c] > 0
      PROVE  pc'[p] > 0 /\ c \in Now(p)'.kids
  <2>1. CASE pc[c] > 0
    <3>1. pc[p] > 0 /\ c \in Now(p).kids
      BY <1>2, <1>9, <2>1 DEF Family
    <3>2. CASE p = t
      BY <1>1, <1>3, <1>5, <3>1, <3>2
    <3>3. CASE p # t
      BY <1>1, <3>1, <3>3
    <3> QED BY <3>2, <3>3
  <2>2. CASE ~(pc[c] > 0)
    <3>1. pc[c] = 0 /\ c # t
      BY <1>2, <1>3, <2>2
    <3>2. Step(t).do = "spawn" /\ c = Step(t).thread /\ pc'[c] # pc[c]
      BY <1>1, <1>9, <3>1
    <3>3. p = t /\ pc' # pc
      BY <1>5, <1>9, <3>2, OneParent
    <3> QED BY <1>1, <1>3, <1>5, <3>2, <3>3
  <2> QED BY <2>1, <2>2
<1>10. ASSUME NEW p \in Threads, NEW c \in Threads, pc'[p] > 0, c \in Now(p)'.joined
       PROVE  Returned(c)'
  <2>1. CASE p # t
    <3>1. pc[p] > 0 /\ c \in Now(p).joined
      BY <1>1, <1>6, <1>10, <2>1
    <3> QED BY <1>2, <1>7, <3>1 DEF Family
  <2>2. CASE p = t
    <3>1. CASE c \in Now(t).joined
      BY <1>2, <1>7, <3>1 DEF Family
    <3>2. CASE c \notin Now(t).joined
      <4>0. c \in After(t).joined /\ pc' # pc
        BY <1>1, <1>3, <1>10, <2>2, <3>2
      <4>1. Step(t).do = "join" /\ c = Step(t).thread /\ pc' # pc
        BY <1>5, <3>2, <4>0
      <4> QED BY <1>7, <4>1
    <3> QED BY <3>1, <3>2
  <2> QED BY <2>1, <2>2
<1>11. Family'
  BY <1>9, <1>10 DEF Family
<1> QED BY <1>8, <1>11


\* When a stage begins, main has been started and no other thread.
LEMMA FreshStage ==
  ASSUME TypeInv', proc' = "up", pc' = OnlyMain
  PROVE  /\ Positions' /\ Family'
         /\ \A t \in Threads :
              /\ pc'[t] > 0 <=> t = Main
              /\ t = Main => Now(t)' = Beginning
<1>1. Main \in Threads /\ \A t \in Threads : pc'[t] = IF t = Main THEN 1 ELSE 0
  BY DEF OnlyMain, NoThreads, Threads
<1>2. /\ plan' = Plan(opts', loaded') /\ loaded' \in SUBSET Rows
      /\ opts' \in OptionSet /\ stage' \in 1..Len(plan')
  BY DEF TypeInv, TypeOK, PlanLoaded
<1>3. \A t \in Threads :
        /\ Len(Steps(t)') \in Nat
        /\ Trace(t)'[1] = Beginning
  BY <1>2, PlanTraced DEF Steps, Trace
<1>4. Now(Main)' = Beginning
  BY <1>1, <1>3 DEF Now
<1>5. Now(Main)'.joined = {}
  BY <1>4 DEF Beginning, Control
<1>6. Positions'
  BY <1>1, <1>3 DEF Positions
<1>7. Family'
  <2>1. \A p, c \in Threads : IsChild(p, c) => ~(pc'[c] > 0)
    BY <1>1, OneParent
  <2>2. \A p \in Threads : pc'[p] > 0 => p = Main
    BY <1>1
  <2> QED BY <1>5, <2>1, <2>2 DEF Family
<1> QED BY <1>1, <1>4, <1>6, <1>7

\* A thread returns after those it started.
LEMMA ReturnsLast ==
  ASSUME TypeInv, Positions, Family, proc = "up",
         NEW p \in Threads, NEW c \in Threads, IsChild(p, c), Returned(p), pc[c] > 0
  PROVE  Returned(c)
<1>1. pc[p] = Len(Steps(p)) + 1 /\ Len(Steps(p)) \in Nat
  BY StateTraced DEF Positions, Returned
<1>2. Now(p).joined = Now(p).kids
  BY <1>1, StateTraced
<1>3. c \in Now(p).kids /\ pc[p] > 0
  BY DEF Family
<1> QED BY <1>2, <1>3 DEF Family

\* When main has returned, so has every thread it started, directly or not.
LEMMA AllReturned ==
  ASSUME TypeInv, Positions, Family, proc = "up", Returned(Main),
         NEW t \in Threads, pc[t] > 0
  PROVE  Returned(t) /\ pc[t] = Len(Steps(t)) + 1
<1>1. Returned(t)
  <2>m. Main \in Threads
    BY DEF Threads
  <2>1. CASE t = Main
    BY <2>1
  <2>2. CASE \E i \in Ifaces : t = <<i>>
    <3>1. IsChild(Main, t)
      BY <2>2 DEF IsChild
    <3> QED BY <2>m, <3>1, ReturnsLast
  <2>3. CASE \E r \in Rows : t = <<r.iface, r.vlan>>
    <3>1. PICK r \in Rows : t = <<r.iface, r.vlan>>
      BY <2>3
    <3> DEFINE p == <<r.iface>>
    <3>2. p \in Threads /\ IsChild(p, t) /\ IsChild(Main, p)
      BY <3>1 DEF Threads, Ifaces, IsChild
    <3> HIDE DEF p
    <3>3. pc[p] > 0
      BY <3>2 DEF Family
    <3>4. Returned(p)
      BY <2>m, <3>2, <3>3, ReturnsLast
    <3> QED BY <3>2, <3>4, ReturnsLast
  <2> QED BY <2>1, <2>2, <2>3 DEF Threads
<1>2. Len(Steps(t)) \in Nat /\ pc[t] \in Nat /\ pc[t] <= Len(Steps(t)) + 1
  BY StateTraced DEF Positions
<1> QED BY <1>1, <1>2 DEF Returned

\* A thread that is not moved is at the same step as before.
LEMMA StepKept ==
  ASSUME NEW u, UNCHANGED <<proc, plan, stage>>, pc'[u] = pc[u]
  PROVE  /\ Steps(u)' = Steps(u) /\ Step(u)' = Step(u) /\ Cmds(u)' = Cmds(u)
         /\ Alive(u)' <=> Alive(u)
         /\ \A what : At(u, what)' <=> At(u, what)
         /\ AtBlock(u)' <=> AtBlock(u)
BY DEF Steps, Step, Cmds, Alive, At, AtBlock

\* A step of a thread that does not hold the mutex leaves its holder where
\* it is.
LEMMA LockedElsewhere ==
  ASSUME TypeInv, RunnerExclusive, Family, Locked, NEW t \in Threads, Moves(t),
         coutMutex # t, UNCHANGED <<coutMutex, running>>
  PROVE  Locked'
<1>1. UNCHANGED <<proc, plan, stage>> /\ proc = "up"
  BY DEF Moves
<1>2. CASE coutMutex = Nobody
  <2>1. running = {}
    BY <1>1, <1>2 DEF RunnerExclusive
  <2> QED BY <1>2, <2>1 DEF Locked
<1>3. CASE coutMutex # Nobody
  <2>1. coutMutex \in Threads \ {t} /\ AtBlock(coutMutex)
    BY <1>1, <1>3 DEF Locked
  <2>2. pc[coutMutex] # 0
    BY <2>1 DEF AtBlock, At, Alive
  <2>3. pc'[coutMutex] = pc[coutMutex]
    BY <2>1, <2>2, Frame
  <2>4. PICK u \in Threads : u = coutMutex
    BY <2>1
  <2>5. /\ AtBlock(u)' /\ (At(u, "set")' <=> At(u, "set"))
        /\ Cmds(u)' = Cmds(u)
    BY <1>1, <2>1, <2>3, <2>4, StepKept
  <2>6. \A c \in running : /\ At(u, "set")
                           /\ \E k \in 1..Len(Cmds(u)) : c = Cmds(u)[k]
    BY <1>1, <2>4 DEF Locked
  <2>7. \A c \in running' : /\ At(u, "set")'
                            /\ \E k \in 1..Len(Cmds(u)') : c = Cmds(u)'[k]
    BY <2>5, <2>6
  <2>8. coutMutex' = u
    BY <2>4
  <2> QED BY <2>5, <2>7, <2>8 DEF Locked
<1> QED BY <1>2, <1>3


\* The plays of a command set are numbered from 1.
LEMMA PhaseCommandsTyped ==
  ASSUME NEW src, NEW rtr, NEW p \in 1..Len(Plays), NEW s \in 1..Len(Plays[p])
  PROVE  LET cmds == PhaseCommands(src, rtr, p, s)
         IN  /\ Len(cmds) \in Nat /\ DOMAIN cmds = 1..Len(cmds)
             /\ \A k \in 1..Len(cmds) :
                  /\ cmds[k].arg.src = src /\ cmds[k].arg.rtr = rtr
                  /\ cmds[k].arg.phase = p /\ cmds[k].arg.set = s
<1> DEFINE set == Plays[p][s]
           size == set.always + IF src.family = 4 THEN set.ipv4 ELSE set.ipv6
           cmd(n) == Cmd("play", SourceLink(src),
                         [src |-> src, rtr |-> rtr, phase |-> p, set |-> s, n |-> n])
           f == [n \in 1..size |-> cmd(n)]
<1>1. Plays[p] \in Seq(CommandSetType)
  BY OptionsAssumption, ElementOfSeq
<1>2. set \in CommandSetType
  BY <1>1, ElementOfSeq
<1>3. size \in Nat
  BY <1>2 DEF CommandSetType
<1>4. PhaseCommands(src, rtr, p, s) = f
  BY DEF PhaseCommands
<1>5. \A n : /\ cmd(n).arg.src = src /\ cmd(n).arg.rtr = rtr
             /\ cmd(n).arg.phase = p /\ cmd(n).arg.set = s
  BY DEF Cmd
<1> HIDE DEF cmd, size
<1>6. f \in Seq({cmd(n) : n \in 1..size}) /\ Len(f) = size
  BY <1>3
<1> QED BY <1>3, <1>4, <1>5, <1>6


\* No thread starts, returns or holds the mutex at the start.
LEMMA InitLocated == Init => Located
<1> SUFFICES ASSUME Init PROVE Located
  OBVIOUS
<1>1. TypeInv /\ RunnerExclusive
  BY InitTypeInv DEF Init, RunnerExclusive
<1> QED BY <1>1 DEF Located, Positions, Family, Locked, Init

\* Whatever a thread does, the mutex stays with a thread at a block.
LEMMA ThreadLocked ==
  ASSUME Located, NEW t \in Threads, ThreadStep(t), Moves(t)
  PROVE  Locked'
<1> USE DEF Located
<1>1. /\ proc = "up" /\ UNCHANGED <<proc, plan, stage>>
      /\ t # Nobody
  BY NobodyIsNoThread DEF Moves
<1>2. ASSUME pc' = pc, AtBlock(t), coutMutex' = t,
             running' # {} => At(t, "set"),
             \A c \in running' \ running : \E k \in 1..Len(Cmds(t)) : c = Cmds(t)[k],
             running # {} => coutMutex = t
      PROVE  Locked'
  <2>1. /\ AtBlock(t)' /\ (At(t, "set")' <=> At(t, "set"))
        /\ Cmds(t)' = Cmds(t)
    BY <1>1, <1>2, StepKept
  <2>2. \A c \in running' : /\ At(t, "set")
                            /\ \E k \in 1..Len(Cmds(t)) : c = Cmds(t)[k]
    BY <1>1, <1>2 DEF Locked
  <2>3. \A c \in running' : /\ At(t, "set")'
                            /\ \E k \in 1..Len(Cmds(t)') : c = Cmds(t)'[k]
    BY <2>1, <2>2
  <2> QED BY <1>2, <2>1, <2>3 DEF Locked
<1>3. CASE Lock(t)
  <2>1. running = {} /\ running' = {} /\ AtBlock(t) /\ coutMutex' = t /\ pc' = pc
    BY <1>1, <1>3 DEF Lock, RunnerExclusive, flow
  <2> QED BY <1>2, <2>1
<1>4. CASE SystemExec(t)
  <2>1. /\ coutMutex = t /\ coutMutex' = t /\ pc' = pc
        /\ running' = running /\ AtBlock(t)
    BY <1>4 DEF SystemExec, Issue
  <2>2. running # {} => At(t, "set")
    BY <1>1, <2>1 DEF Locked
  <2> QED BY <1>2, <2>1, <2>2
<1>5. CASE StartPlay(t)
  <2>1. /\ coutMutex = t /\ coutMutex' = t /\ pc' = pc
        /\ AtBlock(t) /\ At(t, "set")
        /\ issued[t] < Len(Cmds(t)) /\ issued' = [issued EXCEPT ![t] = @ + 1]
        /\ running' \subseteq running \cup {Cmds(t)[issued'[t]]}
    BY <1>5 DEF StartPlay, Issue
  <2>2. issued'[t] = issued[t] + 1 /\ issued[t] \in Nat
    BY <2>1 DEF TypeInv, TypeOK
  <2>3. Len(Cmds(t)) \in Nat
    <3>1. Follows(opts, t, Sources(t), Now(t), Step(t), After(t))
      BY <2>1, StateTraced DEF At
    <3>2. SetFollows(Now(t), Step(t), After(t))
      BY <2>1, <3>1 DEF At, Follows, BlockFollows, SpawnFollows, JoinFollows,
        SessionFollows, CheckFollows, DisableFollows, EndPhaseFollows,
        ResetFollows, CompleteFollows
    <3>3. Cmds(t) = PhaseCommands(Now(t).src, Now(t).rtr, Now(t).phase, Now(t).set + 1)
      BY <3>2 DEF SetFollows, Cmds
    <3>4. /\ Now(t).phase \in 1..Len(Plays)
          /\ Now(t).set + 1 \in 1..Len(Plays[Now(t).phase])
      BY <3>2 DEF SetFollows, HasNextSet
    <3> QED BY <3>3, <3>4, PhaseCommandsTyped
  <2>4. issued'[t] \in 1..Len(Cmds(t))
    BY <2>1, <2>2, <2>3
  <2> QED BY <1>2, <2>1, <2>4
<1>6. CASE PlayOk(t) \/ PlayFails(t)
  <2>1. /\ coutMutex = t /\ coutMutex' = t /\ pc' = pc
        /\ AtBlock(t) /\ At(t, "set") /\ running' \subseteq running
    BY <1>6 DEF PlayOk, PlayFails, AtBlock, flow
  <2> QED BY <1>2, <2>1
<1>7. CASE Unlock(t)
  BY <1>7 DEF Unlock, Locked
<1>8. CASE SpawnThread(t) \/ JoinThread(t) \/ BeginSession(t)
             \/ DisableSkippedSet(t) \/ CheckPhase(t) \/ EndPhase(t)
             \/ EndSession(t) \/ Complete(t)
  <2>1. UNCHANGED <<coutMutex, running>> /\ ~AtBlock(t)
    <3>1. CASE SpawnThread(t) \/ JoinThread(t)
      BY <3>1 DEF SpawnThread, JoinThread, At, AtBlock, runner
    <3>2. CASE BeginSession(t) \/ CheckPhase(t) \/ Complete(t)
      BY <3>2 DEF BeginSession, CheckPhase, Complete, At, AtBlock, runner
    <3>3. CASE DisableSkippedSet(t) \/ EndPhase(t) \/ EndSession(t)
      BY <3>3, Zenon DEF DisableSkippedSet, EndPhase, EndSession, SetExecute, At, AtBlock
    <3> QED BY <1>8, <3>1, <3>2, <3>3
  <2>2. coutMutex # t
    BY <1>1, <2>1 DEF Locked
  <2> QED BY <2>1, <2>2, LockedElsewhere
<1>9. ~CheckAborts(t)
  BY <1>1 DEF CheckAborts
<1> QED BY <1>3, <1>4, <1>5, <1>6, <1>7, <1>8, <1>9 DEF ThreadStep

\* When main has returned, nobody holds the mutex.
LEMMA MutexFree ==
  ASSUME Located, proc = "up", Returned(Main)
  PROVE  coutMutex = Nobody
<1> SUFFICES ASSUME coutMutex # Nobody PROVE FALSE
  OBVIOUS
<1>1. PICK t \in Threads : t = coutMutex /\ AtBlock(t)
  BY DEF Located, Locked
<1>2. Alive(t) /\ pc[t] > 0
  BY <1>1, StateTraced DEF AtBlock, At, Alive, Located
<1>3. Returned(t)
  BY <1>2, AllReturned DEF Located
<1> QED BY <1>2, <1>3, StateTraced DEF Located, Alive, Returned

\* The threads stay in order.
LEMMA NextLocated == Located /\ [Next]_vars => Located'
<1> SUFFICES ASSUME Located, [Next]_vars PROVE Positions' /\ Family' /\ Locked'
  BY NextTypeInv, NextExclusive DEF Located, TypeInv
<1>1. TypeInv' /\ RunnerExclusive' /\ Main \in Threads
  BY NextTypeInv, NextExclusive DEF Located, TypeInv, Threads
<1> SUFFICES ASSUME proc' = "up" PROVE Positions' /\ Family' /\ Locked'
  BY DEF Positions, Family, Locked
<1>2. CASE Start
  <2>1. pc' = OnlyMain /\ coutMutex' = Nobody /\ running' = {}
    BY <1>2 DEF Start
  <2>2. Locked'
    BY <2>1 DEF Locked
  <2> QED BY <1>1, <2>1, <2>2, FreshStage
<1>3. CASE StageBegin
  <2>1. /\ Moves(Main) /\ coutMutex # Main /\ Step(Main).do # "join"
        /\ UNCHANGED <<coutMutex, running>>
    BY <1>1, <1>3, NobodyIsNoThread DEF StageBegin, Moves, At, Advance, runner
  <2> QED BY <1>1, <2>1, MoveFamily, LockedElsewhere DEF Located
<1>4. CASE StageQuit
  BY <1>4 DEF StageQuit
<1>5. CASE StageEnd
  <2>1. proc = "up" /\ Returned(Main) /\ UNCHANGED <<coutMutex, running>>
    BY <1>5 DEF StageEnd, runner
  <2>2. pc' = OnlyMain
    BY <1>5 DEF StageEnd
  <2>3. coutMutex = Nobody
    BY <2>1, MutexFree
  <2>4. running = {}
    BY <2>1, <2>3 DEF Located, RunnerExclusive
  <2>5. Locked'
    BY <2>1, <2>3, <2>4 DEF Locked
  <2> QED BY <1>1, <2>2, <2>5, FreshStage
<1>6. ASSUME NEW t \in Threads, ThreadStep(t) PROVE Positions' /\ Family' /\ Locked'
  <2>1. Moves(t)
    <3>1. ~CheckAborts(t)
      BY DEF CheckAborts
    <3> QED BY <1>6, <3>1, ThreadMoves
  <2>2. pc' # pc /\ Step(t).do = "join" => Returned(Step(t).thread)
    <3> SUFFICES ASSUME Step(t).do = "join", ~JoinThread(t) PROVE FALSE
      BY DEF JoinThread
    <3>1. CASE SpawnThread(t) \/ BeginSession(t) \/ CheckPhase(t) \/ Complete(t)
      BY <3>1 DEF SpawnThread, BeginSession, CheckPhase, Complete, At
    <3>2. CASE DisableSkippedSet(t) \/ EndPhase(t) \/ EndSession(t)
      BY <3>2, Zenon DEF DisableSkippedSet, EndPhase, EndSession, SetExecute, At
    <3>3. CASE Lock(t) \/ SystemExec(t) \/ StartPlay(t) \/ PlayOk(t) \/ PlayFails(t) \/ Unlock(t)
      BY <3>3 DEF Lock, SystemExec, StartPlay, Issue, PlayOk, PlayFails, Unlock, At, AtBlock
    <3>4. CASE CheckAborts(t)
      BY <3>4 DEF CheckAborts, At
    <3> QED BY <1>6, <3>1, <3>2, <3>3, <3>4 DEF ThreadStep
  <2> QED BY <1>6, <2>1, <2>2, MoveFamily, ThreadLocked DEF Located
<1>7. CASE Crash
  BY <1>7 DEF Crash
<1>8. CASE Flap \/ UNCHANGED vars
  <2>1. UNCHANGED <<proc, opts, loaded, plan, stage, pc, coutMutex, running>>
    BY <1>8 DEF Flap, vars, flow, runner
  <2> QED BY <2>1 DEF Located, Positions, Family, Locked, Returned, At, AtBlock,
      Alive, Step, Steps, Cmds, Now, Trace
<1> QED BY <1>2, <1>3, <1>4, <1>5, <1>6, <1>7, <1>8 DEF Next, Progress, Finished


-----------------------------------------------------------------------------
(* What the steps do to the sources.                                       *)

\* A step follows in the way its kind says.
LEMMA FollowsKind ==
  ASSUME NEW o, NEW t, NEW own, NEW A, NEW x, NEW B, Follows(o, t, own, A, x, B)
  PROVE  /\ x.do = "block" => BlockFollows(o, t, A, x, B)
         /\ x.do = "spawn" => SpawnFollows(t, A, x, B)
         /\ x.do = "session" => SessionFollows(o, own, A, x, B)
         /\ x.do = "check" => CheckFollows(A, x, B) /\ o.ignoreIfaceStateChange
         /\ x.do = "disable" => DisableFollows(o, A, x, B)
         /\ x.do = "set" => /\ SetFollows(A, x, B)
                            /\ o.ignoreIfaceStateChange => A.checked
         /\ x.do = "end of phase" => EndPhaseFollows(o, A, x, B)
         /\ x.do = "reset" => ResetFollows(A, x, B)
         /\ x.do = "complete" => CompleteFollows(o, own, A, x, B)
BY DEF Follows, BlockFollows, SpawnFollows, JoinFollows, SessionFollows,
       CheckFollows, DisableFollows, SetFollows, EndPhaseFollows, ResetFollows,
       CompleteFollows

\* A is at the same place in the tests as B.
SamePlace(A, B) ==
  /\ A.done = B.done /\ A.tested = B.tested
  /\ A.src = B.src /\ A.rtr = B.rtr /\ A.phase = B.phase /\ A.set = B.set

\* The other steps do not move a thread in its tests.
LEMMA FollowsElsewhere ==
  ASSUME NEW o, NEW t, NEW own, NEW A, NEW x, NEW B, Follows(o, t, own, A, x, B),
         x.do \notin {"session", "set", "end of phase", "reset", "complete"}
  PROVE  SamePlace(B, A)
<1> USE DEF Control, SamePlace
<1>1. CASE B = A
  BY <1>1
<1>2. CASE SpawnFollows(t, A, x, B)
  BY <1>2 DEF SpawnFollows
<1>3. CASE JoinFollows(A, x, B)
  BY <1>3 DEF JoinFollows
<1>4. CASE CheckFollows(A, x, B)
  BY <1>4 DEF CheckFollows
<1>5. CASE BlockFollows(o, t, A, x, B)
  BY <1>5 DEF BlockFollows, Holding
<1> QED BY <1>1, <1>2, <1>3, <1>4, <1>5 DEF Follows, SessionFollows,
      DisableFollows, SetFollows, EndPhaseFollows, ResetFollows, CompleteFollows

\* Only completion adds to the sources that are done.
LEMMA FollowsDone ==
  ASSUME NEW o, NEW t, NEW own, NEW A, NEW x, NEW B, Follows(o, t, own, A, x, B)
  PROVE  /\ x.do = "complete" => B.done = A.done \cup {x.src} /\ x.src \in own
         /\ x.do # "complete" => B.done = A.done
<1> USE DEF Control
<1>1. CASE x.do = "session"
  <2>1. SessionFollows(o, own, A, x, B)
    BY <1>1, FollowsKind
  <2> QED BY <1>1, <2>1 DEF SessionFollows
<1>2. CASE x.do = "set"
  <2>1. SetFollows(A, x, B)
    BY <1>2, FollowsKind
  <2> QED BY <1>2, <2>1 DEF SetFollows
<1>3. CASE x.do = "end of phase"
  <2>1. EndPhaseFollows(o, A, x, B)
    BY <1>3, FollowsKind
  <2> QED BY <1>3, <2>1 DEF EndPhaseFollows
<1>4. CASE x.do = "reset"
  <2>1. ResetFollows(A, x, B)
    BY <1>4, FollowsKind
  <2> QED BY <1>4, <2>1 DEF ResetFollows
<1>5. CASE x.do = "complete"
  <2>1. CompleteFollows(o, own, A, x, B)
    BY <1>5, FollowsKind
  <2> QED BY <1>5, <2>1 DEF CompleteFollows
<1>6. CASE x.do \notin {"session", "set", "end of phase", "reset", "complete"}
  <2>1. SamePlace(B, A)
    BY <1>6, FollowsElsewhere
  <2> QED BY <1>6, <2>1 DEF SamePlace
<1> QED BY <1>1, <1>2, <1>3, <1>4, <1>5, <1>6

\* The stages of a plan are distinct, and are those of the rows it takes.
LEMMA StagesDistinct ==
  ASSUME NEW o, NEW rows \in SUBSET Rows
  PROVE  LET L == Len(Plan(o, rows)) IN
         /\ \A n, m \in 1..L : StageOf(o, rows, n) = StageOf(o, rows, m) => n = m
         /\ \A r \in rows : o.stages = {} \/ r.stage \in o.stages =>
              \E n \in 1..L : r.stage = StageOf(o, rows, n)
<1> DEFINE S == {s \in {r.stage : r \in rows} : o.stages = {} \/ s \in o.stages}
           keys == Ascending(S)
<1>1. S \in SUBSET Nat /\ IsFiniteSet(S)
  <2>1. {r.stage : r \in rows} \in SUBSET Nat /\ IsFiniteSet({r.stage : r \in rows})
    BY RowKeys
  <2> QED BY <2>1, FS_Subset
<1>2. enabledStages(o, rows) = keys
  BY DEF enabledStages
<1>3. Len(Plan(o, rows)) = Len(keys)
  <2> DEFINE c == Len(keys)
             f == [n \in 1..c |-> [t \in Threads |->
                    threadActions(o, rows, keys[n], t)]]
  <2>1. Plan(o, rows) = f
    BY <1>2 DEF Plan
  <2>2. c \in Nat
    <3> HIDE DEF S
    <3> QED BY <1>1, AscendingKeys
  <2>3. DOMAIN f = 1..c
    OBVIOUS
  <2>4. DOMAIN Plan(o, rows) = 1..Len(Plan(o, rows)) /\ Len(Plan(o, rows)) \in Nat
    BY PlanLength
  <2> HIDE DEF f, c
  <2>5. 1..c = 1..Len(Plan(o, rows))
    BY <2>1, <2>3, <2>4
  <2>6. c = Len(Plan(o, rows))
    <3> DEFINE d == Len(Plan(o, rows))
    <3> HIDE DEF d
    <3>1. c \in Nat /\ d \in Nat /\ \A k : k \in 1..c <=> k \in 1..d
      BY <2>2, <2>4, <2>5 DEF d
    <3>2. c >= 1 => c \in 1..d
      BY <3>1
    <3>3. d >= 1 => d \in 1..c
      BY <3>1
    <3> QED BY <3>1, <3>2, <3>3 DEF d
  <2> QED BY <2>6 DEF c
<1>4. /\ \A k \in 1..Len(keys) : keys[k] \in S
      /\ \A k, l \in 1..Len(keys) : keys[k] = keys[l] => k = l
      /\ \A x \in S : \E k \in 1..Len(keys) : keys[k] = x
  <2> HIDE DEF S
  <2> QED BY <1>1, AscendingKeys
<1>5. \A r \in rows : o.stages = {} \/ r.stage \in o.stages => r.stage \in S
  OBVIOUS
<1> HIDE DEF S, keys
<1> QED BY <1>2, <1>3, <1>4, <1>5 DEF StageOf

\* A source is of one thread in one stage.
LEMMA SourceOf ==
  ASSUME NEW o, NEW rows, NEW n, NEW t \in Threads, NEW r
  PROVE  r \in SourcesOf(o, rows, n, t) <=>
           /\ r \in rows /\ r.stage = StageOf(o, rows, n)
           /\ t = <<r.iface, r.vlan>> /\ r.vlan # RESERVED
<1>1. CASE \E i : t = <<i>>
  BY <1>1 DEF SourcesOf, Own
<1>2. CASE t = Main
  BY <1>2 DEF SourcesOf, Own, Main
<1>3. CASE \E q \in Rows : t = <<q.iface, q.vlan>>
  <2>1. PICK q \in Rows : t = <<q.iface, q.vlan>>
    BY <1>3
  <2>2. Len(t) = 2 /\ t[1] = q.iface /\ t[2] = q.vlan
    BY <2>1
  <2> QED BY <2>1, <2>2 DEF SourcesOf, Own, RowsOf
<1> QED BY <1>1, <1>2, <1>3 DEF Threads


-----------------------------------------------------------------------------
(* No source is tested again.                                              *)

\* The sources of this run that are completed are of the stages begun so
\* far, and in the current stage their thread is done with them.
CompletedBehind ==
  proc = "up" =>
    /\ \A r \in completed \cap loaded :
         \E n \in 1..stage : r.stage = StageOf(opts, loaded, n)
    /\ \A t \in Threads : \A r \in completed \cap Sources(t) :
         pc[t] > 0 /\ r \in Now(t).done

\* The sources of the current stage are rows of the run.
LEMMA SourcesLoaded ==
  ASSUME NEW t \in Threads, NEW r \in Sources(t)
  PROVE  r \in loaded /\ r.stage = StageOf(opts, loaded, stage)
BY SourceOf DEF Sources

\* A move that completes nothing leaves the completed sources behind.
LEMMA MoveBehind ==
  ASSUME Located, CompletedBehind, NEW t \in Threads, Moves(t),
         completed' = completed
  PROVE  CompletedBehind'
<1> USE DEF Located
<1>1. /\ proc = "up" /\ UNCHANGED <<proc, opts, loaded, plan, stage>>
      /\ Alive(t)
  BY DEF Moves
<1>2. ASSUME NEW u \in Threads, NEW r \in completed \cap Sources(u)
      PROVE  pc'[u] > 0 /\ r \in Now(u)'.done
  <2>1. pc[u] > 0 /\ r \in Now(u).done /\ pc[u] \in Nat
    BY <1>1, <1>2, StateTraced DEF CompletedBehind
  <2>2. CASE u # t
    BY <2>1, <2>2, Frame
  <2>3. CASE u = t
    <3>1. Follows(opts, t, Sources(t), Now(t), Step(t), After(t))
      BY <1>1, StateTraced
    <3>2. Now(t).done \subseteq After(t).done
      BY <3>1, FollowsDone
    <3> QED BY <2>1, <2>3, <3>2, Frame
  <2> QED BY <2>2, <2>3
<1>3. \A u \in Threads : Sources(u)' = Sources(u)
  BY Frame
<1> QED BY <1>1, <1>2, <1>3 DEF CompletedBehind

\* A source that is completed now is behind its thread.
LEMMA CompleteBehind ==
  ASSUME Located, CompletedBehind, NEW t \in Threads, Complete(t)
  PROVE  CompletedBehind'
<1> USE DEF Located
<1>1. /\ proc = "up" /\ UNCHANGED <<proc, opts, loaded, plan, stage>>
      /\ Alive(t) /\ Step(t).do = "complete" /\ Moves(t)
      /\ pc' = [pc EXCEPT ![t] = @ + 1] /\ pc \in [Threads -> Nat]
      /\ completed' \subseteq completed \cup {Step(t).src}
  BY DEF Complete, At, Moves, Advance, TypeInv, TypeOK
<1>2. /\ After(t).done = Now(t).done \cup {Step(t).src}
      /\ Step(t).src \in Sources(t)
  <2>1. Follows(opts, t, Sources(t), Now(t), Step(t), After(t))
    BY <1>1, StateTraced
  <2> QED BY <1>1, <2>1, FollowsDone
<1>3. /\ pc'[t] = pc[t] + 1 /\ pc'[t] # pc[t] /\ pc[t] \in Nat
      /\ \A u \in Threads \ {t} : pc'[u] = pc[u]
  BY <1>1
<1>4. /\ Now(t)' = After(t)
      /\ \A u \in Threads \ {t} : Now(u)' = Now(u)
      /\ \A u \in Threads : Sources(u)' = Sources(u)
  <2>1. \A u \in Threads \ {t} : Now(u)' = Now(u)
    <3> TAKE u \in Threads \ {t}
    <3>1. Trace(u)' = Trace(u)
      BY <1>1, Frame
    <3> QED BY <1>3, <3>1 DEF Now
  <2> QED BY <1>1, <1>3, <2>1, Frame
<1>5. ASSUME NEW u \in Threads, NEW r \in completed' \cap Sources(u)
      PROVE  pc'[u] > 0 /\ r \in Now(u)'.done
  <2>1. CASE u = t
    BY <1>1, <1>2, <1>3, <1>4, <1>5, <2>1 DEF CompletedBehind
  <2>2. CASE u # t
    <3>1. r # Step(t).src
      BY <1>2, <2>2, SourceOf DEF Sources
    <3>2. r \in completed
      BY <1>1, <3>1
    <3> QED BY <1>1, <1>3, <1>4, <2>2, <3>2 DEF CompletedBehind
  <2> QED BY <2>1, <2>2
<1>6. stage \in 1..stage
  BY <1>1 DEF TypeInv, TypeOK
<1>7. \A r \in completed' \cap loaded :
        \E n \in 1..stage : r.stage = StageOf(opts, loaded, n)
  BY <1>1, <1>2, <1>6, SourcesLoaded DEF CompletedBehind
<1> QED BY <1>1, <1>4, <1>5, <1>7 DEF CompletedBehind

\* The sources of a new stage are not completed.
LEMMA StageBehind ==
  ASSUME Located, CompletedBehind, StageEnd, proc' = "up"
  PROVE  CompletedBehind'
<1>1. /\ proc = "up" /\ stage' = stage + 1
      /\ UNCHANGED <<opts, loaded, plan, completed>>
      /\ stage + 1 \in 1..Len(plan) /\ stage \in 1..Len(plan)
      /\ plan = Plan(opts, loaded) /\ loaded \in SUBSET Rows
  BY PlanLength DEF StageEnd, Located, TypeInv, TypeOK, PlanLoaded, host
<1>2. Len(plan) \in Nat
  BY <1>1, PlanLength
<1>3. \A r \in completed \cap loaded :
        \E n \in 1..stage : r.stage = StageOf(opts, loaded, n)
  BY <1>1 DEF CompletedBehind
<1>4. \A n \in 1..stage : n \in 1..(stage + 1) /\ n \in 1..Len(plan) /\ n # stage + 1
  BY <1>1, <1>2
<1>5. ASSUME NEW u \in Threads, NEW r \in completed \cap SourcesOf(opts, loaded, stage + 1, u)
      PROVE  FALSE
  <2>1. r \in loaded /\ r.stage = StageOf(opts, loaded, stage + 1)
    BY SourceOf
  <2>2. PICK n \in 1..stage : r.stage = StageOf(opts, loaded, n)
    BY <1>3, <2>1
  <2>3. n \in 1..Len(Plan(opts, loaded)) /\ n # stage + 1
    BY <1>1, <1>4
  <2>4. stage + 1 \in 1..Len(Plan(opts, loaded))
    BY <1>1
  <2> QED BY <1>1, <2>1, <2>2, <2>3, <2>4, StagesDistinct
<1>6. \A u \in Threads : Sources(u)' = SourcesOf(opts, loaded, stage + 1, u)
  BY <1>1 DEF Sources
<1>7. \A r \in completed' \cap loaded' :
        \E n \in 1..stage' : r.stage = StageOf(opts', loaded', n)
  BY <1>1, <1>3, <1>4
<1> QED BY <1>1, <1>5, <1>6, <1>7 DEF CompletedBehind

\* CompletedBehind is inductive, given where the threads are.
LEMMA NextBehind == Located /\ CompletedBehind /\ [Next]_vars => CompletedBehind'
<1> SUFFICES ASSUME Located, CompletedBehind, [Next]_vars, proc' = "up"
             PROVE  CompletedBehind'
  BY DEF CompletedBehind
<1>1. CASE Start
  <2>1. completed' = completed /\ loaded' = Rows \ completed
    BY <1>1 DEF Start, Pending, host
  <2>2. \A t \in Threads : Sources(t)' \subseteq loaded'
    BY SourceOf DEF Sources
  <2> QED BY <2>1, <2>2 DEF CompletedBehind
<1>2. CASE StageBegin
  <2>1. Main \in Threads /\ Moves(Main) /\ completed' = completed
    BY <1>2 DEF StageBegin, Moves, At, Advance, Threads, host
  <2> QED BY <2>1, MoveBehind
<1>3. CASE StageQuit
  BY <1>3 DEF StageQuit
<1>4. CASE StageEnd
  BY <1>4, StageBehind
<1>5. ASSUME NEW t \in Threads, ThreadStep(t) PROVE CompletedBehind'
  <2>1. CASE Complete(t)
    BY <2>1, CompleteBehind
  <2>2. CASE ~Complete(t)
    <3>1. ~CheckAborts(t)
      BY DEF CheckAborts
    <3>2. completed' = completed
      <4>1. CASE DisableSkippedSet(t) \/ EndPhase(t) \/ EndSession(t)
        BY <4>1, Zenon DEF DisableSkippedSet, EndPhase, EndSession, SetExecute, host
      <4> QED BY <1>5, <2>2, <3>1, <4>1 DEF ThreadStep, SpawnThread, JoinThread,
            Lock, SystemExec, StartPlay, Issue, PlayOk, PlayFails, Unlock,
            BeginSession, CheckPhase, host
    <3> QED BY <1>5, <3>1, <3>2, ThreadMoves, MoveBehind
  <2> QED BY <2>1, <2>2
<1>6. CASE Crash
  BY <1>6 DEF Crash
<1>7. CASE Flap \/ UNCHANGED vars
  <2>1. UNCHANGED <<proc, opts, loaded, plan, stage, pc, completed>>
    BY <1>7 DEF Flap, vars, flow, host
  <2> QED BY <2>1 DEF CompletedBehind, Sources, Now, Trace
<1> QED BY <1>1, <1>2, <1>3, <1>4, <1>5, <1>6, <1>7 DEF Next, Progress, Finished

\* The plays that run are of the session their thread is in.
LEMMA RunningOf ==
  ASSUME Located, proc = "up", NEW c \in running
  PROVE  /\ coutMutex \in Threads /\ At(coutMutex, "set")
         /\ SetFollows(Now(coutMutex), Step(coutMutex), After(coutMutex))
         /\ IsControl(Sources(coutMutex), Now(coutMutex))
         /\ Now(coutMutex).phase # 0 /\ pc[coutMutex] > 0
         /\ c.arg.src = Now(coutMutex).src /\ c.arg.rtr = Now(coutMutex).rtr
         /\ c.arg.phase = Now(coutMutex).phase /\ c.arg.set = Now(coutMutex).set + 1
<1> USE DEF Located
<1>1. coutMutex \in Threads
  BY DEF RunnerExclusive, Locked
<1>2. PICK t \in Threads : t = coutMutex
  BY <1>1
<1>3. /\ At(t, "set")
      /\ \E k \in 1..Len(Cmds(t)) : c = Cmds(t)[k]
  BY <1>2 DEF Locked
<1>4. Alive(t) /\ Step(t).do = "set" /\ pc[t] > 0
  BY <1>3, StateTraced DEF At, Alive
<1>5. SetFollows(Now(t), Step(t), After(t))
  BY <1>4, StateTraced, FollowsKind
<1>6. IsControl(Sources(t), Now(t))
  <2>1. pc[t] \in 1..(Len(Steps(t)) + 1)
    BY <1>4, StateTraced DEF Alive
  <2> QED BY <2>1, StateTraced
<1> DEFINE A == Now(t)
<1>7. /\ Cmds(t) = PhaseCommands(A.src, A.rtr, A.phase, A.set + 1)
      /\ A.phase \in 1..Len(Plays) /\ A.set + 1 \in 1..Len(Plays[A.phase])
  BY <1>5 DEF SetFollows, HasNextSet, Cmds
<1> HIDE DEF A
<1>8. /\ c.arg.src = A.src /\ c.arg.rtr = A.rtr
      /\ c.arg.phase = A.phase /\ c.arg.set = A.set + 1
  BY <1>3, <1>7, PhaseCommandsTyped
<1>9. A.phase # 0
  BY <1>7
<1> QED BY <1>2, <1>3, <1>4, <1>5, <1>6, <1>8, <1>9 DEF A

\* A play runs for a source its thread is not done with.
LEMMA BehindNotRunning ==
  ASSUME Located, CompletedBehind, proc = "up" PROVE CompletedNotRepeated
<1> SUFFICES ASSUME NEW c \in running, c.arg.src \in completed PROVE FALSE
  BY DEF CompletedNotRepeated
<1>1. PICK t \in Threads : t = coutMutex
  BY RunningOf
<1>2. /\ IsControl(Sources(t), Now(t)) /\ Now(t).phase # 0
      /\ c.arg.src = Now(t).src
  BY <1>1, RunningOf
<1>3. c.arg.src \in Sources(t) \ Now(t).done
  BY <1>2 DEF IsControl
<1> QED BY <1>3 DEF CompletedBehind


\* A process that is not at work leaves everything as it is.
LEMMA Halts ==
  ASSUME [Next]_vars, proc' # "up", ~Start
  PROVE  UNCHANGED <<opts, loaded, plan, stage, completed, errors, running, ran, failed>>
<1>1. CASE StageQuit \/ StageEnd
  BY <1>1 DEF StageQuit, StageEnd, runner, host, ghost
<1>2. CASE StageBegin
  BY <1>2 DEF StageBegin, At
<1>3. ASSUME NEW t \in Threads, ThreadStep(t)
      PROVE  UNCHANGED <<opts, loaded, plan, stage, completed, errors, running, ran, failed>>
  <2>1. ~Moves(t)
    BY DEF Moves
  <2>2. CheckAborts(t)
    BY <1>3, <2>1, ThreadMoves
  <2> QED BY <2>2 DEF CheckAborts, runner, host, ghost
<1>4. CASE Crash
  BY <1>4 DEF Crash, runner, host
<1>5. CASE Flap \/ UNCHANGED vars
  BY <1>5 DEF Flap, vars, flow, runner, host, ghost
<1> QED BY <1>1, <1>2, <1>3, <1>4, <1>5 DEF Next, Progress, Finished

UpNotRepeated == proc = "up" => CompletedNotRepeated

\* A source recorded as completed is never tested again, whatever the scope:
\* not by the run that completed it, and not by one started after a crash
\* between any two steps.
THEOREM NotRepeated == Spec => []CompletedNotRepeated
<1>1. Init => CompletedBehind /\ CompletedNotRepeated
  BY DEF Init, CompletedBehind, CompletedNotRepeated
<1>2. Located /\ CompletedBehind => UpNotRepeated
  BY BehindNotRunning DEF UpNotRepeated
<1>3. CompletedNotRepeated /\ [Next]_vars /\ UpNotRepeated' => CompletedNotRepeated'
  <2> SUFFICES ASSUME CompletedNotRepeated, [Next]_vars, proc' # "up"
               PROVE  CompletedNotRepeated'
    BY DEF UpNotRepeated
  <2>1. CASE Start
    BY <2>1 DEF Start, CompletedNotRepeated
  <2>2. CASE ~Start
    BY <2>2, Halts DEF CompletedNotRepeated
  <2> QED BY <2>1, <2>2
<1> QED BY <1>1, <1>2, <1>3, InitLocated, NextLocated, NextBehind, PTL DEF Spec

-----------------------------------------------------------------------------
(* No source is left behind.                                               *)

\* With --execute, the rows of a run that are not yet completed are of the
\* stages still to come, or their threads are not done with them.
Finishing ==
  proc = "up" /\ opts.execute =>
    /\ Rows \ completed \subseteq loaded
    /\ \A t \in Threads : pc[t] > 0 => Now(t).done \subseteq completed
    /\ \A r \in loaded : r.vlan # RESERVED =>
         \A n \in 1..(stage - 1) :
           r.stage = StageOf(opts, loaded, n) => r \in completed

\* Once main has returned, the sources of the stage have all been tested.
LEMMA StageTested ==
  ASSUME Located, Finishing, proc = "up", opts.execute, Returned(Main),
         NEW r \in loaded, r.vlan # RESERVED, r.stage = StageOf(opts, loaded, stage)
  PROVE  r \in completed
<1> USE DEF Located
<1> DEFINE p == <<r.iface>>
           t == <<r.iface, r.vlan>>
<1>1. r \in Rows /\ Main \in Threads /\ p \in Threads /\ t \in Threads
  BY DEF TypeInv, PlanLoaded, Threads, Ifaces
<1>2. /\ p \in Kids(loaded, StageOf(opts, loaded, stage), Main)
      /\ t \in Kids(loaded, StageOf(opts, loaded, stage), p)
  BY DEF Kids, Main
<1>3. r \in Sources(t)
  BY <1>1, SourceOf DEF Sources
<1> HIDE DEF p, t
<1>4. \A u \in Threads : Returned(u) =>
        /\ pc[u] = Len(Steps(u)) + 1 /\ pc[u] > 0
        /\ Now(u).joined = Kids(loaded, StageOf(opts, loaded, stage), u)
        /\ Now(u).done = Sources(u)
  <2> TAKE u \in Threads
  <2> HAVE Returned(u)
  <2>1. pc[u] = Len(Steps(u)) + 1 /\ pc[u] > 0
    BY StateTraced DEF Positions, Returned
  <2> QED BY <2>1, StateTraced
<1>5. Returned(p)
  BY <1>1, <1>2, <1>4 DEF Family
<1>6. Returned(t)
  BY <1>1, <1>2, <1>4, <1>5 DEF Family
<1> QED BY <1>1, <1>3, <1>4, <1>6 DEF Finishing

\* A move keeps Finishing: what a thread is done with is recorded.
LEMMA MoveFinishing ==
  ASSUME Located, Finishing, NEW t \in Threads, ThreadStep(t) \/ (StageBegin /\ t = Main),
         Moves(t)
  PROVE  Finishing'
<1> USE DEF Located
<1>1. /\ proc = "up" /\ UNCHANGED <<proc, opts, loaded, plan, stage>> /\ Alive(t)
  BY DEF Moves
<1> SUFFICES ASSUME opts.execute PROVE Finishing'
  BY <1>1 DEF Finishing
<1>2. /\ completed \subseteq completed'
      /\ Step(t).do = "complete" /\ pc' # pc => Step(t).src \in completed'
  <2>1. CASE Complete(t)
    BY <2>1 DEF Complete
  <2>2. CASE DisableSkippedSet(t) \/ EndPhase(t) \/ EndSession(t)
    BY <2>2, Zenon DEF DisableSkippedSet, EndPhase, EndSession, SetExecute, host, At
  <2>3. CASE StageBegin /\ t = Main
    BY <2>3 DEF StageBegin, host, At
  <2>4. CASE CheckAborts(t)
    BY <1>1, <2>4 DEF CheckAborts
  <2> QED BY <2>1, <2>2, <2>3, <2>4 DEF ThreadStep, SpawnThread, JoinThread,
        Lock, SystemExec, StartPlay, Issue, PlayOk, PlayFails, Unlock,
        BeginSession, CheckPhase, host, flow, At, AtBlock
<1>3. ASSUME NEW u \in Threads, pc'[u] > 0
      PROVE  Now(u)'.done \subseteq completed'
  <2>1. pc[u] > 0 => Now(u).done \subseteq completed'
    BY <1>1, <1>2 DEF Finishing
  <2>2. Beginning.done = {}
    BY DEF Beginning, Control
  <2>3. CASE u # t
    BY <1>3, <2>1, <2>2, <2>3, Frame
  <2>4. CASE u = t
    <3>1. pc[t] > 0
      BY <1>1, StateTraced DEF Alive
    <3>2. Follows(opts, t, Sources(t), Now(t), Step(t), After(t))
      BY <1>1, StateTraced
    <3>3. CASE pc' = pc
      <4>1. pc[t] \in Nat /\ pc'[t] # pc[t] + 1
        BY <1>1, <3>3, StateTraced
      <4>2. Now(t)' = Now(t)
        BY <4>1, Frame
      <4> QED BY <2>1, <2>4, <3>1, <4>2
    <3>4. CASE pc' # pc
      <4>1. Now(t)' = After(t)
        BY <3>4, Frame
      <4>2. After(t).done \subseteq completed'
        BY <1>2, <2>1, <2>4, <3>1, <3>2, <3>4, FollowsDone
      <4> QED BY <2>4, <4>1, <4>2
    <3> QED BY <3>3, <3>4
  <2> QED BY <2>3, <2>4
<1> QED BY <1>1, <1>2, <1>3 DEF Finishing

\* The stage that ends is finished.
LEMMA StageFinishing ==
  ASSUME Located, Finishing, StageEnd, opts.execute
  PROVE  /\ proc' = "up" => Finishing'
         /\ proc' # "up" => EverySourceCompleted'
<1> USE DEF Located
<1>1. /\ proc = "up" /\ Returned(Main)
      /\ UNCHANGED <<opts, loaded, plan, completed>>
      /\ plan = Plan(opts, loaded) /\ loaded \in SUBSET Rows
      /\ stage \in 1..Len(plan) /\ Len(plan) \in Nat
  BY PlanLength DEF StageEnd, TypeInv, TypeOK, PlanLoaded, host
<1>2. \A r \in loaded : r.vlan # RESERVED =>
        \A n \in 1..stage : r.stage = StageOf(opts, loaded, n) => r \in completed
  <2> TAKE r \in loaded
  <2> HAVE r.vlan # RESERVED
  <2> TAKE n \in 1..stage
  <2> HAVE r.stage = StageOf(opts, loaded, n)
  <2>1. CASE n = stage
    BY <1>1, <2>1, StageTested
  <2>2. CASE n # stage
    <3>1. n \in 1..(stage - 1)
      BY <1>1, <2>2
    <3> QED BY <1>1, <3>1 DEF Finishing
  <2> QED BY <2>1, <2>2
<1>3. CASE proc' = "up"
  <2>1. stage' = stage + 1 /\ pc' = OnlyMain
    BY <1>3 DEF StageEnd
  <2>2. TypeInv'
    <3>1. Next
      BY DEF Next, Progress
    <3> QED BY <3>1, NextTypeInv
  <2>3. /\ \A t \in Threads : pc'[t] > 0 => t = Main
        /\ Now(Main)' = Beginning
    <3>1. Main \in Threads
      BY DEF Threads
    <3> QED BY <1>3, <2>1, <2>2, <3>1, FreshStage
  <2>4. Now(Main)'.done = {}
    BY <2>3 DEF Beginning, Control
  <2>5. stage' - 1 = stage
    BY <1>1, <2>1
  <2>6. \A t \in Threads : pc'[t] > 0 => Now(t)'.done \subseteq completed'
    BY <2>3, <2>4
  <2>7. Rows \ completed' \subseteq loaded'
    BY <1>1 DEF Finishing
  <2>8. \A r \in loaded' : r.vlan # RESERVED =>
          \A n \in 1..(stage' - 1) :
            r.stage = StageOf(opts', loaded', n) => r \in completed'
    BY <1>1, <1>2, <2>5
  <2> QED BY <1>3, <2>6, <2>7, <2>8 DEF Finishing
<1>4. CASE proc' # "up"
  <2>1. stage = Len(plan)
    BY <1>1, <1>4 DEF StageEnd
  <2>2. ASSUME opts.stages = {}, NEW r \in Rows, r.vlan # RESERVED
        PROVE  r \in completed
    <3>1. CASE r \in loaded
      <4>1. PICK n \in 1..Len(Plan(opts, loaded)) : r.stage = StageOf(opts, loaded, n)
        BY <1>1, <2>2, <3>1, StagesDistinct
      <4> QED BY <1>1, <1>2, <2>1, <2>2, <3>1, <4>1
    <3>2. CASE r \notin loaded
      BY <1>1, <3>2 DEF Finishing
    <3> QED BY <3>1, <3>2
  <2>3. opts.stages = {} => {r \in Rows : r.vlan # RESERVED} \subseteq completed
    BY <2>2
  <2>4. opts' = opts /\ completed' = completed
    BY <1>1
  <2> QED BY <1>4, <2>3, <2>4 DEF EverySourceCompleted
<1> QED BY <1>3, <1>4

\* Finishing is inductive, given where the threads are.
LEMMA NextFinishing == Located /\ Finishing /\ [Next]_vars => Finishing'
<1> SUFFICES ASSUME Located, Finishing, [Next]_vars, proc' = "up", opts'.execute
             PROVE  Finishing'
  BY DEF Finishing
<1>1. CASE Start
  <2>1. /\ pc' = OnlyMain /\ loaded' = Rows \ completed /\ completed' = completed
        /\ stage' = 1
    BY <1>1 DEF Start, Pending, host
  <2>2. TypeInv'
    BY NextTypeInv DEF Located
  <2>3. /\ \A t \in Threads : pc'[t] > 0 => t = Main
        /\ Now(Main)' = Beginning
    <3>1. Main \in Threads
      BY DEF Threads
    <3> QED BY <2>1, <2>2, <3>1, FreshStage
  <2>4. Now(Main)'.done = {}
    BY <2>3 DEF Beginning, Control
  <2>5. 1..(stage' - 1) = {}
    BY <2>1
  <2> QED BY <2>1, <2>3, <2>4, <2>5 DEF Finishing
<1>2. CASE StageBegin
  <2>1. Main \in Threads /\ Moves(Main)
    BY <1>2 DEF StageBegin, Moves, At, Advance, Threads
  <2> QED BY <1>2, <2>1, MoveFinishing
<1>3. CASE StageQuit
  BY <1>3 DEF StageQuit
<1>4. CASE StageEnd
  <2>1. opts.execute
    BY <1>4 DEF StageEnd
  <2> QED BY <1>4, <2>1, StageFinishing
<1>5. ASSUME NEW t \in Threads, ThreadStep(t) PROVE Finishing'
  <2>1. ~CheckAborts(t)
    BY DEF CheckAborts
  <2>2. Moves(t)
    BY <1>5, <2>1, ThreadMoves
  <2>3. ThreadStep(t) \/ (StageBegin /\ t = Main)
    BY <1>5
  <2> QED BY <2>2, <2>3, MoveFinishing
<1>6. CASE Crash
  BY <1>6 DEF Crash
<1>7. CASE Flap \/ UNCHANGED vars
  <2>1. UNCHANGED <<proc, opts, loaded, plan, stage, pc, completed>>
    BY <1>7 DEF Flap, vars, flow, host
  <2> QED BY <2>1 DEF Finishing, Now, Trace
<1> QED BY <1>1, <1>2, <1>3, <1>4, <1>5, <1>6, <1>7 DEF Next, Progress, Finished

\* A run that returns without being told to quit has completed every row of
\* a valid VLAN, whatever the scope, and however many runs, crashes and
\* failures there were before.
THEOREM NoneLeftBehind == Spec => []EverySourceCompleted
<1>1. Init => Finishing /\ EverySourceCompleted
  BY DEF Init, Finishing, EverySourceCompleted
<1>2. Located /\ Finishing /\ EverySourceCompleted /\ [Next]_vars => EverySourceCompleted'
  <2> SUFFICES ASSUME Located, Finishing, EverySourceCompleted, [Next]_vars,
                      proc' = "done", opts'.execute, opts'.noPrompt, opts'.stages = {}
               PROVE  {r \in Rows : r.vlan # RESERVED} \subseteq completed'
    BY DEF EverySourceCompleted
  <2>1. CASE Start
    <3>1. /\ plan' = <<>> /\ plan' = Plan(opts', loaded')
          /\ loaded' = Rows \ completed /\ completed' = completed
      BY <2>1 DEF Start, Pending, host
    <3>2. loaded' \in SUBSET Rows /\ Len(Plan(opts', loaded')) = 0
      BY <3>1
    <3>3. loaded' = {}
      BY <3>2, StagesDistinct
    <3> QED BY <3>1, <3>3
  <2>2. CASE StageQuit
    BY <2>2 DEF StageQuit
  <2>3. CASE StageEnd
    <3>1. opts.execute
      BY <2>3 DEF StageEnd
    <3>2. EverySourceCompleted'
      BY <2>3, <3>1, StageFinishing
    <3> QED BY <3>2 DEF EverySourceCompleted
  <2>4. CASE StageBegin
    BY <2>4 DEF StageBegin, At
  <2>5. ASSUME NEW t \in Threads, ThreadStep(t) PROVE FALSE
    BY <2>5, ThreadMoves DEF Moves, CheckAborts
  <2>6. CASE Crash
    BY <2>6 DEF Crash
  <2>7. CASE Flap \/ UNCHANGED vars
    BY <2>7 DEF Flap, vars, flow, host, EverySourceCompleted
  <2> QED BY <2>1, <2>2, <2>3, <2>4, <2>5, <2>6, <2>7 DEF Next, Progress, Finished
<1> QED BY <1>1, <1>2, InitLocated, NextLocated, NextFinishing, PTL DEF Spec


-----------------------------------------------------------------------------
(* A failure ends its phase.                                               *)

\* A session goes on from step to step until it has been tested.
LEMMA FollowsSession ==
  ASSUME NEW o, NEW t, NEW own, NEW A, NEW x, NEW B, Follows(o, t, own, A, x, B)
  PROVE  /\ A.tested \subseteq B.tested
         /\ A.phase # 0 =>
              \/ /\ x.do \notin {"end of phase", "reset"}
                 /\ B.src = A.src /\ B.rtr = A.rtr /\ B.phase = A.phase
              \/ /\ x.do = "end of phase"
                 /\ B.src = A.src /\ B.rtr = A.rtr /\ B.phase = A.phase + 1
              \/ x.do = "reset" /\ <<A.src, A.rtr>> \in B.tested
<1> USE DEF Control
<1>1. CASE x.do = "session"
  <2>1. SessionFollows(o, own, A, x, B)
    BY <1>1, FollowsKind
  <2> QED BY <1>1, <2>1 DEF SessionFollows
<1>2. CASE x.do = "set"
  <2>1. SetFollows(A, x, B)
    BY <1>2, FollowsKind
  <2> QED BY <1>2, <2>1 DEF SetFollows
<1>3. CASE x.do = "end of phase"
  <2>1. EndPhaseFollows(o, A, x, B)
    BY <1>3, FollowsKind
  <2> QED BY <1>3, <2>1 DEF EndPhaseFollows
<1>4. CASE x.do = "reset"
  <2>1. ResetFollows(A, x, B)
    BY <1>4, FollowsKind
  <2> QED BY <1>4, <2>1 DEF ResetFollows
<1>5. CASE x.do = "complete"
  <2>1. CompleteFollows(o, own, A, x, B)
    BY <1>5, FollowsKind
  <2> QED BY <1>5, <2>1 DEF CompleteFollows
<1>6. CASE x.do \notin {"session", "set", "end of phase", "reset", "complete"}
  <2>1. SamePlace(B, A)
    BY <1>6, FollowsElsewhere
  <2> QED BY <1>6, <2>1 DEF SamePlace
<1> QED BY <1>1, <1>2, <1>3, <1>4, <1>5, <1>6

\* Inter-network, one thread at a time is within a session.
LEMMA OneSession ==
  ASSUME Located, OneVlanActive, proc = "up", opts.scope = "inter",
         NEW t \in Threads, NEW u \in Threads, pc[t] > 0, pc[u] > 0,
         Now(t).phase # 0, Now(u).phase # 0
  PROVE  t = u
<1>1. ASSUME NEW w \in Threads, pc[w] > 0, Now(w).phase # 0
      PROVE  w \in VlanThreads /\ Alive(w)
  <2>1. /\ pc[w] \in Nat /\ Len(Steps(w)) \in Nat
        /\ pc[w] <= Len(Steps(w)) + 1
        /\ pc[w] # Len(Steps(w)) + 1
    BY <1>1, StateTraced DEF Located, Positions
  <2>2. pc[w] \in 1..Len(Steps(w)) /\ pc[w] \in 1..(Len(Steps(w)) + 1)
    BY <1>1, <2>1
  <2>3. IsControl(Sources(w), Now(w))
    BY <1>1, <2>2, StateTraced DEF Located
  <2>4. Now(w).src \in Sources(w)
    BY <1>1, <2>3 DEF IsControl
  <2>5. w = <<Now(w).src.iface, Now(w).src.vlan>>
    BY <2>4, SourceOf DEF Sources
  <2>6. Len(w) = 2
    <3> DEFINE a == Now(w).src.iface
               b == Now(w).src.vlan
    <3> HIDE DEF a, b
    <3>1. Len(<<a, b>>) = 2
      OBVIOUS
    <3> QED BY <2>5, <3>1 DEF a, b
  <2> QED BY <2>2, <2>6 DEF VlanThreads, Alive
<1>2. /\ t \in VlanThreads /\ Alive(t)
      /\ u \in VlanThreads /\ Alive(u)
  BY <1>1
<1> QED BY <1>2 DEF OneVlanActive

\* Of an on-fail set one play runs at a time.
OneOnFail == \A c, d \in running : OnFail(c) # "undefined" => c = d

\* The failed play f is behind thread t: its session has been tested, or
\* the thread is in it, and then the runner is off till the end of the phase.
Disabled(t, f) ==
  \/ <<f.arg.src, f.arg.rtr>> \in Now(t).tested
  \/ /\ Now(t).phase # 0 /\ Now(t).src = f.arg.src /\ Now(t).rtr = f.arg.rtr
     /\ f.arg.phase \in Nat /\ f.arg.phase <= Now(t).phase
     /\ f.arg.phase = Now(t).phase => ~runnerExecute /\ running = {}

FailuresBehind ==
  proc = "up" /\ opts.scope = "inter" =>
    /\ \A f \in failed : f.arg.src \in loaded =>
         \E n \in 1..stage : f.arg.src.stage = StageOf(opts, loaded, n)
    /\ \A t \in Threads : \A f \in failed :
         f.arg.src \in Sources(t) => pc[t] > 0 /\ Disabled(t, f)

\* The plays that run are of the command set of the step.
LEMMA RunningOnFail ==
  ASSUME Located, proc = "up", NEW t \in Threads, At(t, "set"), coutMutex = t,
         NEW k \in 1..Len(Cmds(t))
  PROVE  /\ \A c \in running : OnFail(c) = Step(t).onFail
         /\ OnFail(Cmds(t)[k]) = Step(t).onFail
<1> DEFINE A == Now(t)
<1>1. SetFollows(A, Step(t), After(t))
  BY StateTraced, FollowsKind DEF At, Located
<1>2. /\ Step(t).onFail = Plays[A.phase][A.set + 1].onFail
      /\ Cmds(t) = PhaseCommands(A.src, A.rtr, A.phase, A.set + 1)
      /\ A.phase \in 1..Len(Plays) /\ A.set + 1 \in 1..Len(Plays[A.phase])
  BY <1>1 DEF SetFollows, HasNextSet, Cmds
<1>3. \A c \in running : c.arg.phase = A.phase /\ c.arg.set = A.set + 1
  BY RunningOf
<1> HIDE DEF A
<1>4. Cmds(t)[k].arg.phase = A.phase /\ Cmds(t)[k].arg.set = A.set + 1
  BY <1>2, PhaseCommandsTyped
<1> QED BY <1>2, <1>3, <1>4 DEF OnFail

\* OneOnFail is inductive, given where the threads are.
LEMMA NextOneOnFail == Located /\ OneOnFail /\ [Next]_vars => OneOnFail'
<1> SUFFICES ASSUME Located, OneOnFail, [Next]_vars PROVE OneOnFail'
  OBVIOUS
<1>1. CASE running' \subseteq running
  BY <1>1 DEF OneOnFail, OnFail
<1>2. ASSUME NEW t \in Threads, StartPlay(t) PROVE OneOnFail'
  <2>1. /\ proc = "up" /\ At(t, "set") /\ coutMutex = t
        /\ issued[t] < Len(Cmds(t)) /\ issued'[t] = issued[t] + 1
        /\ issued[t] \in Nat
        /\ running' \subseteq running \cup {Cmds(t)[issued'[t]]}
        /\ Step(t).onFail # "undefined" => running = {}
    BY <1>2 DEF StartPlay, Issue, At, Located, TypeInv, TypeOK
  <2>2. Len(Cmds(t)) \in Nat
    <3>1. SetFollows(Now(t), Step(t), After(t))
      BY <2>1, StateTraced, FollowsKind DEF At, Located
    <3> QED BY <3>1, PhaseCommandsTyped DEF SetFollows, HasNextSet, Cmds
  <2>3. issued'[t] \in 1..Len(Cmds(t))
    BY <2>1, <2>2
  <2> DEFINE new == Cmds(t)[issued'[t]]
  <2>4. /\ \A c \in running : OnFail(c) = Step(t).onFail
        /\ OnFail(new) = Step(t).onFail
    BY <2>1, <2>3, RunningOnFail
  <2> HIDE DEF new
  <2>5. \A c, d \in running' : OnFail(c) # "undefined" => c = d
    BY <2>1, <2>4 DEF new
  <2> QED BY <2>5 DEF OneOnFail, OnFail
<1>3. CASE Start
  BY <1>1, <1>3 DEF Start
<1>4. CASE StageBegin \/ StageQuit \/ StageEnd \/ Crash \/ Flap \/ UNCHANGED vars
  BY <1>1, <1>4 DEF StageBegin, StageQuit, StageEnd, Crash, Flap, vars, runner
<1>5. ASSUME NEW t \in Threads, ThreadStep(t), ~StartPlay(t) PROVE OneOnFail'
  <2>1. CASE DisableSkippedSet(t) \/ EndPhase(t) \/ EndSession(t)
    BY <1>1, <2>1, Zenon DEF DisableSkippedSet, EndPhase, EndSession, SetExecute
  <2>2. CASE PlayOk(t) \/ PlayFails(t)
    BY <1>1, <2>2 DEF PlayOk, PlayFails
  <2> QED BY <1>1, <1>5, <2>1, <2>2 DEF ThreadStep, SpawnThread, JoinThread,
        Lock, SystemExec, Issue, Unlock, BeginSession, CheckPhase,
        CheckAborts, Complete, runner
<1> QED BY <1>2, <1>3, <1>4, <1>5 DEF Next, Progress, Finished

\* No step but those at the end of a phase and of a session turns the runner
\* on, and no play starts while it is off.
LEMMA OffKept ==
  ASSUME NEW t \in Threads, ThreadStep(t), ~EndPhase(t), ~EndSession(t),
         ~runnerExecute, running = {}
  PROVE  ~runnerExecute' /\ running' = {}
<1>1. CASE DisableSkippedSet(t)
  BY <1>1, Zenon DEF DisableSkippedSet, SetExecute
<1>2. CASE StartPlay(t)
  BY <1>2 DEF StartPlay, Issue, Executes
<1>3. CASE SystemExec(t) \/ Lock(t) \/ Unlock(t) \/ PlayOk(t) \/ PlayFails(t)
  BY <1>3 DEF SystemExec, Issue, Lock, Unlock, PlayOk, PlayFails
<1>4. CASE CheckPhase(t)
  BY <1>4 DEF CheckPhase
<1> QED BY <1>1, <1>2, <1>3, <1>4 DEF ThreadStep, SpawnThread, JoinThread,
      BeginSession, CheckAborts, Complete, runner

\* Only a play that returns non-zero is a failure.
LEMMA FailedNow ==
  ASSUME NEW t \in Threads, ThreadStep(t), ~PlayFails(t)
  PROVE  failed' = failed
<1>1. CASE DisableSkippedSet(t) \/ EndPhase(t) \/ EndSession(t)
  BY <1>1, Zenon DEF DisableSkippedSet, EndPhase, EndSession, SetExecute, ghost
<1> QED BY <1>1 DEF ThreadStep, SpawnThread, JoinThread, Lock, SystemExec,
      StartPlay, Issue, PlayOk, Unlock, BeginSession, CheckPhase, CheckAborts,
      Complete, ghost

\* A failure turns the runner off and leaves nothing running.
LEMMA FailFailures ==
  ASSUME Located, OneOnFail, FailuresBehind, NEW t \in Threads, PlayFails(t), Moves(t)
  PROVE  FailuresBehind'
<1> USE DEF Located
<1>1. /\ proc = "up" /\ UNCHANGED <<proc, opts, loaded, plan, stage, pc>>
      /\ At(t, "set") /\ coutMutex = t /\ Step(t).onFail # "undefined"
      /\ runnerExecute' = FALSE
  BY DEF PlayFails, Moves, flow
<1>2. PICK f \in running : running' = running \ {f} /\ failed' = failed \cup {f}
  BY DEF PlayFails
<1>3. running' = {}
  <2>1. Len(Cmds(t)) \in Nat /\ \E k \in 1..Len(Cmds(t)) : f = Cmds(t)[k]
    <3>1. SetFollows(Now(t), Step(t), After(t))
      BY <1>1, StateTraced, FollowsKind DEF At
    <3>2. Len(Cmds(t)) \in Nat
      BY <3>1, PhaseCommandsTyped DEF SetFollows, HasNextSet, Cmds
    <3> QED BY <1>1, <1>2, <3>2 DEF Locked
  <2>2. OnFail(f) = Step(t).onFail
    BY <1>1, <1>2, <2>1, RunningOnFail
  <2>3. \A c \in running : c = f
    BY <1>1, <1>2, <2>2 DEF OneOnFail
  <2> QED BY <1>2, <2>3
<1>4. /\ IsControl(Sources(t), Now(t)) /\ Now(t).phase # 0 /\ pc[t] > 0
      /\ f.arg.src = Now(t).src /\ f.arg.rtr = Now(t).rtr /\ f.arg.phase = Now(t).phase
  BY <1>1, <1>2, RunningOf
<1>5. f.arg.src \in Sources(t) /\ f.arg.phase \in Nat
  BY <1>4 DEF IsControl
<1>6. /\ \A u \in Threads : Now(u)' = Now(u) /\ Sources(u)' = Sources(u)
      /\ pc' = pc
  BY <1>1 DEF Now, Trace, Sources
<1>7. ASSUME opts.scope = "inter", NEW u \in Threads, NEW g \in failed',
             g.arg.src \in Sources(u)
      PROVE  pc'[u] > 0 /\ Disabled(u, g)'
  <2>1. CASE g \in failed
    <3>1. pc[u] > 0 /\ Disabled(u, g)
      BY <1>1, <1>7, <2>1 DEF FailuresBehind
    <3> QED BY <1>1, <1>3, <1>6, <3>1 DEF Disabled
  <2>2. CASE g = f
    <3>1. u = t
      BY <1>5, <1>7, <2>2, SourceOf DEF Sources
    <3>2. f.arg.phase <= Now(t).phase
      BY <1>4, <1>5
    <3> QED BY <1>1, <1>3, <1>4, <1>5, <1>6, <2>2, <3>1, <3>2 DEF Disabled
  <2> QED BY <1>2, <1>7, <2>1, <2>2
<1>8. ASSUME opts.scope = "inter", NEW g \in failed', g.arg.src \in loaded
      PROVE  \E n \in 1..stage : g.arg.src.stage = StageOf(opts, loaded, n)
  <2>1. stage \in 1..stage
    BY <1>1 DEF TypeInv, TypeOK
  <2>2. f.arg.src.stage = StageOf(opts, loaded, stage)
    BY <1>5, SourcesLoaded
  <2> QED BY <1>1, <1>2, <1>8, <2>1, <2>2 DEF FailuresBehind
<1> QED BY <1>1, <1>6, <1>7, <1>8 DEF FailuresBehind

\* Any other move leaves the failures behind.
LEMMA MoveFailures ==
  ASSUME Located, OneVlanActive, FailuresBehind, NEW t \in Threads, Moves(t),
         ThreadStep(t) \/ (StageBegin /\ t = Main), ~PlayFails(t)
  PROVE  FailuresBehind'
<1> USE DEF Located
<1>1. /\ proc = "up" /\ UNCHANGED <<proc, opts, loaded, plan, stage>> /\ Alive(t)
  BY DEF Moves
<1> SUFFICES ASSUME opts.scope = "inter" PROVE FailuresBehind'
  BY <1>1 DEF FailuresBehind
<1>2. failed' = failed
  BY FailedNow DEF StageBegin, ghost
<1>3. ~EndPhase(t) /\ ~EndSession(t) /\ ~runnerExecute /\ running = {}
        => ~runnerExecute' /\ running' = {}
  BY OffKept DEF StageBegin, runner
<1>4. /\ pc[t] \in Nat /\ pc[t] > 0 /\ IsControl(Sources(t), Now(t))
      /\ Follows(opts, t, Sources(t), Now(t), Step(t), After(t))
  <2>1. pc[t] \in 1..(Len(Steps(t)) + 1) /\ pc[t] > 0
    BY <1>1, StateTraced DEF Alive
  <2> QED BY <1>1, <2>1, StateTraced
<1>5. EndPhase(t) \/ EndSession(t) =>
        /\ Step(t).do \in {"end of phase", "reset"}
        /\ Now(t).phase # 0 /\ pc'[t] # pc[t]
  <2> SUFFICES ASSUME EndPhase(t) \/ EndSession(t)
               PROVE  /\ Step(t).do \in {"end of phase", "reset"}
                      /\ Now(t).phase # 0 /\ pc'[t] # pc[t]
    OBVIOUS
  <2>1. /\ Step(t).do \in {"end of phase", "reset"}
        /\ pc' = [pc EXCEPT ![t] = @ + 1]
    BY Zenon DEF EndPhase, EndSession, SetExecute, At, Advance
  <2>2. pc'[t] = pc[t] + 1
    BY <2>1 DEF TypeInv, TypeOK
  <2>3. EndPhaseFollows(opts, Now(t), Step(t), After(t)) \/ ResetFollows(Now(t), Step(t), After(t))
    BY <1>4, <2>1, FollowsKind
  <2>4. Now(t).phase # 0
    <3>1. Len(Plays) \in Nat
      BY OptionsAssumption
    <3>2. CASE EndPhaseFollows(opts, Now(t), Step(t), After(t))
      <4>1. Now(t).phase \in 1..Len(Plays)
        BY <3>2 DEF EndPhaseFollows
      <4> QED BY <3>1, <4>1
    <3>3. CASE ResetFollows(Now(t), Step(t), After(t))
      <4>1. Now(t).phase = Len(Plays) + 1
        BY <3>3 DEF ResetFollows
      <4> QED BY <3>1, <4>1
    <3> QED BY <2>3, <3>2, <3>3
  <2>5. pc'[t] # pc[t]
    BY <1>4, <2>2
  <2> QED BY <2>1, <2>4, <2>5
<1>6. ASSUME NEW u \in Threads, NEW f \in failed, f.arg.src \in Sources(u)
      PROVE  pc'[u] > 0 /\ Disabled(u, f)'
  <2>1. pc[u] > 0 /\ pc[u] \in Nat /\ Disabled(u, f)
    BY <1>1, <1>6, StateTraced DEF FailuresBehind
  <2>2. CASE u # t
    <3>1. pc'[u] = pc[u] /\ Now(u)' = Now(u)
      BY <2>1, <2>2, Frame
    <3>2. Now(u).phase # 0 => ~EndPhase(t) /\ ~EndSession(t)
      BY <1>1, <1>4, <1>5, <2>1, <2>2, OneSession
    <3> QED BY <1>3, <2>1, <3>1, <3>2 DEF Disabled
  <2>3. CASE u = t /\ pc' = pc
    <3>1. Now(t)' = Now(t)
      BY <1>1, <2>3 DEF Now, Trace
    <3> QED BY <1>3, <1>5, <2>1, <2>3, <3>1 DEF Disabled
  <2>4. CASE u = t /\ pc' # pc
    <3>1. pc'[t] = pc[t] + 1 /\ Now(t)' = After(t)
      BY <2>4, Frame
    <3>2. /\ Now(t).tested \subseteq After(t).tested
          /\ Now(t).phase # 0 =>
              \/ /\ Step(t).do \notin {"end of phase", "reset"}
                 /\ After(t).src = Now(t).src /\ After(t).rtr = Now(t).rtr
                 /\ After(t).phase = Now(t).phase
              \/ /\ Step(t).do = "end of phase"
                 /\ After(t).src = Now(t).src /\ After(t).rtr = Now(t).rtr
                 /\ After(t).phase = Now(t).phase + 1
              \/ <<Now(t).src, Now(t).rtr>> \in After(t).tested
      BY <1>4, FollowsSession
    <3>3. CASE <<f.arg.src, f.arg.rtr>> \in Now(t).tested
      <4>1. <<f.arg.src, f.arg.rtr>> \in After(t).tested
        BY <3>2, <3>3
      <4>2. pc'[t] > 0
        BY <1>4, <3>1
      <4> QED BY <2>4, <3>1, <4>1, <4>2 DEF Disabled
    <3>4. CASE <<f.arg.src, f.arg.rtr>> \notin Now(t).tested
      <4>1. /\ Now(t).phase # 0 /\ Now(t).src = f.arg.src /\ Now(t).rtr = f.arg.rtr
            /\ f.arg.phase \in Nat /\ f.arg.phase <= Now(t).phase
            /\ Now(t).phase \in Nat
            /\ f.arg.phase = Now(t).phase => ~runnerExecute /\ running = {}
        BY <1>4, <2>1, <2>4, <3>4 DEF Disabled, IsControl
      <4>2. CASE Step(t).do \notin {"end of phase", "reset"} /\ After(t).phase = Now(t).phase
                   /\ After(t).src = Now(t).src /\ After(t).rtr = Now(t).rtr
        <5>1. ~EndPhase(t) /\ ~EndSession(t)
          BY <1>5, <4>2
        <5>2. pc'[t] > 0
          BY <1>4, <3>1
        <5>3. f.arg.phase = After(t).phase => ~runnerExecute' /\ running' = {}
          BY <1>3, <4>1, <4>2, <5>1
        <5> QED BY <2>4, <3>1, <4>1, <4>2, <5>2, <5>3 DEF Disabled
      <4>3. CASE After(t).phase = Now(t).phase + 1
                   /\ After(t).src = Now(t).src /\ After(t).rtr = Now(t).rtr
        <5>1. /\ After(t).phase # 0 /\ f.arg.phase <= After(t).phase
              /\ f.arg.phase # After(t).phase
          BY <4>1, <4>3
        <5> QED BY <1>4, <2>4, <3>1, <4>1, <4>3, <5>1 DEF Disabled
      <4>4. CASE <<Now(t).src, Now(t).rtr>> \in After(t).tested
        BY <1>4, <2>4, <3>1, <4>1, <4>4 DEF Disabled
      <4> QED BY <3>2, <4>1, <4>2, <4>3, <4>4
    <3> QED BY <3>3, <3>4
  <2> QED BY <2>2, <2>3, <2>4
<1>7. \A u \in Threads : Sources(u)' = Sources(u)
  BY Frame
<1> QED BY <1>1, <1>2, <1>6, <1>7 DEF FailuresBehind

\* A source of a stage that was begun is not one of the stage to come.
LEMMA NotOfNext ==
  ASSUME Located, proc = "up", stage + 1 \in 1..Len(plan),
         NEW n \in 1..stage, NEW r, r.stage = StageOf(opts, loaded, n),
         NEW u \in Threads
  PROVE  r \notin SourcesOf(opts, loaded, stage + 1, u)
<1>1. /\ stage \in 1..Len(plan) /\ plan = Plan(opts, loaded)
      /\ loaded \in SUBSET Rows /\ Len(plan) \in Nat
  BY PlanLength DEF Located, TypeInv, TypeOK, PlanLoaded
<1>2. n \in 1..Len(Plan(opts, loaded)) /\ n # stage + 1
  BY <1>1
<1>3. stage + 1 \in 1..Len(Plan(opts, loaded))
  BY <1>1
<1>4. r.stage # StageOf(opts, loaded, stage + 1)
  BY <1>1, <1>2, <1>3, StagesDistinct
<1> QED BY <1>4, SourceOf

\* The sources of a new stage have had no failure.
LEMMA StageFailures ==
  ASSUME Located, FailuresBehind, StageEnd, proc' = "up"
  PROVE  FailuresBehind'
<1> SUFFICES ASSUME opts.scope = "inter" PROVE FailuresBehind'
  BY DEF StageEnd, FailuresBehind
<1>1. /\ proc = "up" /\ stage' = stage + 1 /\ failed' = failed
      /\ UNCHANGED <<opts, loaded, plan>>
      /\ stage + 1 \in 1..Len(plan) /\ stage \in 1..Len(plan)
  BY PlanLength DEF StageEnd, Located, TypeInv, TypeOK, PlanLoaded, ghost
<1>2. \A f \in failed : f.arg.src \in loaded =>
        \E n \in 1..stage : f.arg.src.stage = StageOf(opts, loaded, n)
  BY <1>1 DEF FailuresBehind
<1>3. \A n \in 1..stage : n \in 1..stage'
  BY <1>1
<1>4. ASSUME NEW u \in Threads, NEW f \in failed,
             f.arg.src \in SourcesOf(opts, loaded, stage + 1, u)
      PROVE  FALSE
  <2>1. f.arg.src \in loaded
    BY <1>4, SourceOf
  <2>2. PICK n \in 1..stage : f.arg.src.stage = StageOf(opts, loaded, n)
    BY <1>2, <2>1
  <2> QED BY <1>1, <1>4, <2>2, NotOfNext
<1>5. \A u \in Threads : Sources(u)' = SourcesOf(opts, loaded, stage + 1, u)
  BY <1>1 DEF Sources
<1>6. \A f \in failed' : f.arg.src \in loaded' =>
        \E n \in 1..stage' : f.arg.src.stage = StageOf(opts', loaded', n)
  BY <1>1, <1>2, <1>3
<1> QED BY <1>1, <1>4, <1>5, <1>6 DEF FailuresBehind

\* FailuresBehind is inductive, given where the threads are and that they
\* take turns.
LEMMA NextFailures ==
  Located /\ OneVlanActive /\ OneOnFail /\ FailuresBehind /\ [Next]_vars
    => FailuresBehind'
<1> SUFFICES ASSUME Located, OneVlanActive, OneOnFail, FailuresBehind,
                    [Next]_vars, proc' = "up"
             PROVE  FailuresBehind'
  BY DEF FailuresBehind
<1>1. CASE Start
  <2>1. /\ failed' = {c \in failed : c.arg.src \in completed}
        /\ loaded' = Rows \ completed
    BY <1>1 DEF Start, Pending
  <2>2. \A t \in Threads : Sources(t)' \subseteq loaded'
    BY SourceOf DEF Sources
  <2>3. \A f \in failed' : f.arg.src \notin loaded'
    BY <2>1
  <2> QED BY <2>2, <2>3 DEF FailuresBehind
<1>2. CASE StageBegin
  <2>1. Main \in Threads /\ Moves(Main) /\ ~PlayFails(Main)
    BY <1>2 DEF StageBegin, Moves, At, Advance, Threads, PlayFails
  <2> QED BY <1>2, <2>1, MoveFailures
<1>3. CASE StageQuit
  BY <1>3 DEF StageQuit
<1>4. CASE StageEnd
  BY <1>4, StageFailures
<1>5. ASSUME NEW t \in Threads, ThreadStep(t) PROVE FailuresBehind'
  <2>1. ~CheckAborts(t)
    BY DEF CheckAborts
  <2>2. Moves(t)
    BY <1>5, <2>1, ThreadMoves
  <2>3. CASE PlayFails(t)
    BY <2>2, <2>3, FailFailures
  <2>4. CASE ~PlayFails(t)
    BY <1>5, <2>2, <2>4, MoveFailures
  <2> QED BY <2>3, <2>4
<1>6. CASE Crash
  BY <1>6 DEF Crash
<1>7. CASE Flap
  <2>1. UNCHANGED <<proc, opts, loaded, plan, stage, pc, failed, running, runnerExecute>>
    BY <1>7 DEF Flap, flow, runner
  <2> QED BY <2>1 DEF FailuresBehind, Disabled, Sources, Now, Trace
<1>8. CASE UNCHANGED vars
  <2>1. UNCHANGED <<proc, opts, loaded, plan, stage, pc, failed, running, runnerExecute>>
    BY <1>8 DEF vars, flow, runner, ghost
  <2> QED BY <2>1 DEF FailuresBehind, Disabled, Sources, Now, Trace
<1> QED BY <1>1, <1>2, <1>3, <1>4, <1>5, <1>6, <1>7, <1>8 DEF Next, Progress, Finished

InterDisableHolds   == opts.scope = "inter" => PhaseDisableHolds
UpInterDisableHolds == proc = "up" => InterDisableHolds

\* No play runs in the phase in which its session has failed.
LEMMA BehindHolds == Located /\ FailuresBehind => UpInterDisableHolds
<1> SUFFICES ASSUME Located, FailuresBehind, proc = "up", opts.scope = "inter",
                    NEW c \in running, NEW f \in failed, SameSession(c, f),
                    c.arg.phase = f.arg.phase
             PROVE  FALSE
  BY DEF UpInterDisableHolds, InterDisableHolds, PhaseDisableHolds
<1>1. PICK t \in Threads : t = coutMutex
  BY RunningOf
<1>2. /\ IsControl(Sources(t), Now(t)) /\ Now(t).phase # 0
      /\ c.arg.src = Now(t).src /\ c.arg.rtr = Now(t).rtr /\ c.arg.phase = Now(t).phase
  BY <1>1, RunningOf
<1>3. Now(t).src \in Sources(t) /\ <<Now(t).src, Now(t).rtr>> \notin Now(t).tested
  BY <1>2 DEF IsControl
<1>4. f.arg.src = Now(t).src /\ f.arg.rtr = Now(t).rtr /\ f.arg.phase = Now(t).phase
  BY <1>2 DEF SameSession
<1>5. Disabled(t, f)
  BY <1>3, <1>4 DEF FailuresBehind
<1> QED BY <1>3, <1>4, <1>5 DEF Disabled

\* Inter-network, once a play of an on-fail set has failed, no other play of
\* its phase runs for that source and router, in this run or, if the source
\* was completed, ever.  (Intra-network the runner's flag is switched by the
\* other threads as well and this does not hold.)
THEOREM InterDisables == Spec => [](opts.scope = "inter" => PhaseDisableHolds)
<1>1. Init => Serial /\ OneOnFail /\ FailuresBehind /\ InterDisableHolds
  BY DEF Init, Serial, OneOnFail, FailuresBehind, InterDisableHolds, PhaseDisableHolds
<1>2. Located => TypeInv
  BY DEF Located
<1>3. InterDisableHolds /\ [Next]_vars /\ UpInterDisableHolds' => InterDisableHolds'
  <2> SUFFICES ASSUME InterDisableHolds, [Next]_vars, proc' # "up"
               PROVE  InterDisableHolds'
    BY DEF UpInterDisableHolds
  <2>1. CASE Start
    BY <2>1 DEF Start, InterDisableHolds, PhaseDisableHolds
  <2>2. CASE ~Start
    BY <2>2, Halts DEF InterDisableHolds, PhaseDisableHolds
  <2> QED BY <2>1, <2>2
<1>4. InterDisableHolds => (opts.scope = "inter" => PhaseDisableHolds)
  BY DEF InterDisableHolds
<1> QED BY <1>1, <1>2, <1>3, <1>4, InitLocated, NextLocated, NextSerial,
      SerialImpliesOne, NextOneOnFail, NextFailures, BehindHolds, PTL DEF Spec
=============================================================================
