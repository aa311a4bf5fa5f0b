------------------------------ MODULE Playbook ------------------------------
(***************************************************************************)
(* nmdb-playbook at run time: the main thread, one thread per physical     *)
(* interface and one per VLAN, all issuing commands through one            *)
(* CommandRunnerSingleton under one mutex (coutMutex), and switching the   *)
(* runner's `execute` flag with no mutex at all.                           *)
(*                                                                         *)
(* pc[t] is the position of thread t in its steps (module PlaybookPlan):   *)
(* 0 before it is started and Len + 1 once it has returned.  issued[t]     *)
(* counts the commands of its current block already handed to the runner.  *)
(***************************************************************************)
EXTENDS PlaybookPlan

CONSTANTS
  MaxRuns,     \* bound: how often the tool is started
  MaxCrashes,  \* bound: how often it dies before its end
  MaxFlaps     \* bound: how often the network drops a link or an address

ASSUME BoundsAssumption ==
  MaxRuns \in Nat /\ MaxCrashes \in Nat /\ MaxFlaps \in Nat

Nobody == <<0, 0, 0>>     \* the value of coutMutex when it is free

VARIABLES
  proc,            \* the process: "off", "up", "done" or "dead"
  opts,            \* the command line
  loaded,          \* the rows the run loaded
  plan,            \* the same, as the steps of every thread
  stage,           \* index of the current stage
  pc,              \* see above
  issued,          \* see above
  stageEnabled,    \* phaseActions' local of that name, per thread
  runnerExecute,   \* CommandRunnerSingleton::execute
  commandIdNumber, \* CommandRunnerSingleton::commandIdNumber
  coutMutex,       \* the thread that holds it, or Nobody
  running,         \* plays executing now
  net,             \* the host (module HostNetwork)
  completed,       \* rows with is_completed set
  errors,          \* table playbook_runtime_errors: <<row, what>>
  script,          \* history: the serial numbering of the loaded playbook
  ran,             \* history: plays executed for the sources of this run
  failed,          \* history: the on-fail plays among them that failed
  budget           \* bounds used up so far

flow   == <<proc, opts, loaded, plan, stage, pc, issued>>
runner == <<runnerExecute, commandIdNumber, coutMutex, running>>
host   == <<net, completed, errors>>
ghost  == <<script, ran, failed, budget>>
vars   == <<flow, stageEnabled, runner, host, ghost>>

Steps(t) == plan[stage][t]
Step(t)  == Steps(t)[pc[t]]

Alive(t)    == pc[t] \in 1..Len(Steps(t))
Returned(t) == pc[t] > Len(Steps(t))

\* Thread t is about to do a step of this kind.
At(t, what) == proc = "up" /\ Alive(t) /\ Step(t).do = what

AtBlock(t) == At(t, "block") \/ At(t, "set")
Advance(t) == pc' = [pc EXCEPT ![t] = @ + 1]
NoThreads  == [t \in Threads |-> 0]
OnlyMain   == [NoThreads EXCEPT ![Main] = 1]

Init ==
  /\ proc = "off"
  /\ opts \in OptionSet
  /\ loaded = {} /\ plan = <<>> /\ stage = 0
  /\ pc = NoThreads /\ issued = NoThreads
  /\ stageEnabled = [t \in Threads |-> TRUE]
  /\ runnerExecute = FALSE /\ commandIdNumber = 0
  /\ coutMutex = Nobody /\ running = {}
  /\ net = CleanNet(Ifaces)
  /\ completed = {} /\ errors = {}
  /\ script = <<>> /\ ran = {} /\ failed = {}
  /\ budget = [runs |-> 0, crashes |-> 0, flaps |-> 0]

-----------------------------------------------------------------------------
(* runTool.                                                                *)

\* Mutant: rows are loaded whether completed or not.
PendingAll == Rows

\* getPlaybookData: the rows that are not completed.
Pending == Rows \ completed

\* The tool is started: options are read, the runner is told whether to
\* execute, and the rows still to do are loaded.
Start ==
  /\ proc \in {"off", "dead", "done"}
  /\ budget.runs < MaxRuns
  /\ budget' = [budget EXCEPT !.runs = @ + 1]
  /\ loaded' = Pending
  /\ plan' = Plan(opts, loaded')
  /\ runnerExecute' = opts.execute
  /\ commandIdNumber' = 0
  /\ coutMutex' = Nobody /\ running' = {}
  /\ stageEnabled' = [t \in Threads |-> TRUE]
  /\ issued' = NoThreads
  /\ IF plan' = <<>>
     THEN proc' = "done" /\ stage' = 0 /\ pc' = NoThreads
     ELSE proc' = "up" /\ stage' = 1 /\ pc' = OnlyMain
  /\ script' = Script(plan')
  /\ ran' = {c \in ran : c.arg.src \in completed}
  /\ failed' = {c \in failed : c.arg.src \in completed}
  /\ UNCHANGED <<opts, host>>

\* The stage is printed under the lock and, when executing, the user may
\* have to answer Y.
StageBegin ==
  /\ At(Main, "stage")
  /\ coutMutex = Nobody
  /\ Advance(Main)
  /\ UNCHANGED <<proc, opts, loaded, plan, stage, issued, stageEnabled, runner,
                 host, ghost>>

\* The user answers Q: the loop over the stages ends.
StageQuit ==
  /\ At(Main, "stage")
  /\ coutMutex = Nobody
  /\ opts.execute /\ ~opts.noPrompt
  /\ proc' = "done"
  /\ UNCHANGED <<opts, loaded, plan, stage, pc, issued, stageEnabled, runner,
                 host, ghost>>

\* Mutants: the last stage is left out; the loop does not stop.
StageEndEarly ==
  /\ proc = "up" /\ Returned(Main)
  /\ IF stage + 1 < Len(plan)
     THEN proc' = proc /\ stage' = stage + 1 /\ pc' = OnlyMain
     ELSE proc' = "done" /\ UNCHANGED <<stage, pc>>
  /\ UNCHANGED <<opts, loaded, plan, issued, stageEnabled, runner, host, ghost>>

StageEndNever ==
  /\ proc = "up" /\ Returned(Main)
  /\ stage' = stage + 1 /\ pc' = OnlyMain
  /\ UNCHANGED <<proc, opts, loaded, plan, issued, stageEnabled, runner, host,
                 ghost>>

\* The loop goes on to the next stage, or the tool returns.
StageEnd ==
  /\ proc = "up" /\ Returned(Main)
  /\ IF stage < Len(plan)
     THEN proc' = proc /\ stage' = stage + 1 /\ pc' = OnlyMain
     ELSE proc' = "done" /\ UNCHANGED <<stage, pc>>
  /\ UNCHANGED <<opts, loaded, plan, issued, stageEnabled, runner, host, ghost>>

\* std::thread(...), in runTool and in physIfaceThreadActions; the thread
\* of a VLAN starts none.
SpawnThread(t) ==
  /\ Len(t) < 2
  /\ At(t, "spawn")
  /\ pc' = [pc EXCEPT ![t] = @ + 1, ![Step(t).thread] = 1]
  /\ UNCHANGED <<proc, opts, loaded, plan, stage, issued, stageEnabled, runner,
                 host, ghost>>

\* Mutant: the thread is detached instead.
JoinThreadDetached(t) ==
  /\ At(t, "join")
  /\ Advance(t)
  /\ UNCHANGED <<proc, opts, loaded, plan, stage, issued, stageEnabled, runner,
                 host, ghost>>

JoinThread(t) ==
  /\ At(t, "join")
  /\ Returned(Step(t).thread)
  /\ Advance(t)
  /\ UNCHANGED <<proc, opts, loaded, plan, stage, issued, stageEnabled, runner,
                 host, ghost>>

-----------------------------------------------------------------------------
(* Blocks of commands, under coutMutex.                                    *)

isEnabled(id) == id \notin opts.excluded

Cmds(t) == Step(t).cmds

\* Mutant: no lock is taken.
LockFree(t) ==
  /\ AtBlock(t)
  /\ coutMutex' = t
  /\ stageEnabled' = IF Step(t).do = "set"
                     THEN [stageEnabled EXCEPT ![t] = TRUE] ELSE stageEnabled
  /\ UNCHANGED <<flow, runnerExecute, commandIdNumber, running, host, ghost>>

\* lock_guard.  runPhaseCommands starts with its own stageEnabled = true,
\* whose value replaces phaseActions' one when it returns.
Lock(t) ==
  /\ AtBlock(t)
  /\ coutMutex = Nobody
  /\ coutMutex' = t
  /\ stageEnabled' = IF Step(t).do = "set"
                     THEN [stageEnabled EXCEPT ![t] = TRUE] ELSE stageEnabled
  /\ UNCHANGED <<flow, runnerExecute, commandIdNumber, running, host, ghost>>

\* Mutant: a disabled command takes no number.
IssueUncounted(t) ==
  /\ AtBlock(t) /\ coutMutex = t
  /\ issued[t] < Len(Cmds(t))
  /\ commandIdNumber' = commandIdNumber + IF runnerExecute THEN 1 ELSE 0
  /\ issued' = [issued EXCEPT ![t] = @ + 1]
  /\ UNCHANGED <<proc, opts, loaded, plan, stage, pc, stageEnabled,
                 runnerExecute, coutMutex, completed, errors, script, failed,
                 budget>>

\* The next command of the block: systemExec, threadExec's loop body or
\* scheduleSleep.  It takes a number whether or not it is executed.
Issue(t) ==
  /\ AtBlock(t) /\ coutMutex = t
  /\ issued[t] < Len(Cmds(t))
  /\ commandIdNumber' = commandIdNumber + 1
  /\ issued' = [issued EXCEPT ![t] = @ + 1]
  /\ UNCHANGED <<proc, opts, loaded, plan, stage, pc, stageEnabled,
                 runnerExecute, coutMutex, completed, errors, script, failed,
                 budget>>

Executes == runnerExecute /\ isEnabled(commandIdNumber')

\* A configuration command, or a sleep.
SystemExec(t) ==
  /\ At(t, "block")
  /\ Issue(t)
  /\ net' = IF Executes THEN Run(net, Cmds(t)[issued'[t]]) ELSE net
  /\ UNCHANGED <<running, ran>>

\* A play.  systemExec (on-fail sets) waits for the one before; threadExec
\* starts the whole set.
StartPlay(t) ==
  /\ At(t, "set")
  /\ Step(t).onFail # "undefined" => running = {}
  /\ Issue(t)
  /\ LET now == IF Executes THEN {Cmds(t)[issued'[t]]} ELSE {}
     IN  running' = running \cup now /\ ran' = ran \cup now
  /\ UNCHANGED net

PlayOk(t) ==
  /\ At(t, "set") /\ coutMutex = t
  /\ \E c \in running : running' = running \ {c}
  /\ UNCHANGED <<flow, stageEnabled, runnerExecute, commandIdNumber,
                 coutMutex, host, ghost>>

\* Mutant: the failure is noted but the runner stays on.
PlayFailsIgnored(t) ==
  /\ At(t, "set") /\ coutMutex = t
  /\ Step(t).onFail # "undefined"
  /\ \E c \in running : running' = running \ {c} /\ failed' = failed \cup {c}
  /\ UNCHANGED <<flow, stageEnabled, runnerExecute, commandIdNumber,
                 coutMutex, host, script, ran, budget>>

\* A play of an on-fail set returns non-zero.
PlayFails(t) ==
  /\ At(t, "set") /\ coutMutex = t
  /\ Step(t).onFail # "undefined"
  /\ \E c \in running : running' = running \ {c} /\ failed' = failed \cup {c}
  /\ runnerExecute' = FALSE
  /\ stageEnabled' = IF Step(t).onFail = "stage"
                     THEN [stageEnabled EXCEPT ![t] = FALSE] ELSE stageEnabled
  /\ UNCHANGED <<flow, commandIdNumber, coutMutex, host, script, ran, budget>>

\* Mutant: the lock is never released.
UnlockForgotten(t) ==
  /\ AtBlock(t) /\ coutMutex = t
  /\ issued[t] = Len(Cmds(t)) /\ running = {}
  /\ issued' = [issued EXCEPT ![t] = 0]
  /\ Advance(t)
  /\ UNCHANGED <<proc, opts, loaded, plan, stage, stageEnabled, runner, host,
                 ghost>>

\* The block ends: threadExec has joined its threads, the lock is released.
Unlock(t) ==
  /\ AtBlock(t) /\ coutMutex = t
  /\ issued[t] = Len(Cmds(t)) /\ running = {}
  /\ coutMutex' = Nobody
  /\ issued' = [issued EXCEPT ![t] = 0]
  /\ Advance(t)
  /\ UNCHANGED <<proc, opts, loaded, plan, stage, stageEnabled, runnerExecute,
                 commandIdNumber, running, host, ghost>>

-----------------------------------------------------------------------------
(* The steps of a source between its blocks, none of them under the lock.  *)

\* networkActions up to phaseActions' loop.
BeginSession(t) ==
  /\ At(t, "session")
  /\ stageEnabled' = [stageEnabled EXCEPT ![t] = TRUE]
  /\ Advance(t)
  /\ UNCHANGED <<proc, opts, loaded, plan, stage, issued, runner, host, ghost>>

SetExecute(t, what, value) ==
  /\ At(t, what)
  /\ runnerExecute' = value
  /\ Advance(t)
  /\ UNCHANGED <<proc, opts, loaded, plan, stage, issued, stageEnabled,
                 commandIdNumber, coutMutex, running, host, ghost>>

DisableSkippedSet(t) == SetExecute(t, "disable", FALSE)

\* Mutants: the runner is turned on in a dry run too; or it is not turned on
\* again.
EndPhaseAlwaysOn(t) == SetExecute(t, "end of phase", stageEnabled[t])
EndPhaseStaysOff(t) ==
  SetExecute(t, "end of phase", runnerExecute /\ stageEnabled[t])

EndPhase(t) == SetExecute(t, "end of phase", opts.execute /\ stageEnabled[t])

\* Mutant: the update after the last phase is missing.
EndSessionNoReset(t) == SetExecute(t, "reset", runnerExecute)

EndSession(t) == SetExecute(t, "reset", opts.execute)

\* What isPhaseRuntimeError finds; nothing in a dry run.  ifaceIsDown answers
\* no for a link that does not exist, since its ioctl fails.
RuntimeErrors(src) ==
  LET l == SourceLink(src)
      isError == [down |-> l \in net.links \ net.up,
                  lost |-> <<l, src.addr>> \notin net.addrs]
  IN  {<<src, e>> : e \in {x \in {"down", "lost"} :
                             opts.execute /\ isError[x]}}

\* Mutant: the error is recorded but the phase goes on.
CheckPhaseOnlyRecords(t) ==
  /\ At(t, "check")
  /\ LET src == Step(t).src IN
     /\ RuntimeErrors(src) = {} \/ src.both
     /\ errors' = errors \cup RuntimeErrors(src)
  /\ Advance(t)
  /\ UNCHANGED <<proc, opts, loaded, plan, stage, issued, stageEnabled, runner,
                 net, completed, ghost>>

\* The start of a phase with ignore-iface-state-change set.
CheckPhase(t) ==
  /\ At(t, "check")
  /\ LET src == Step(t).src IN
     /\ RuntimeErrors(src) = {} \/ src.both
     /\ errors' = errors \cup RuntimeErrors(src)
     /\ runnerExecute' = (runnerExecute /\ RuntimeErrors(src) = {})
  /\ Advance(t)
  /\ UNCHANGED <<proc, opts, loaded, plan, stage, issued, stageEnabled,
                 commandIdNumber, coutMutex, running, net, completed, ghost>>

\* A row of playbook_runtime_errors must reference both source tables: when
\* the source is in one only, the insert throws, nothing catches it in the
\* std::thread, and the process terminates.
CheckAborts(t) ==
  /\ At(t, "check")
  /\ RuntimeErrors(Step(t).src) # {} /\ ~Step(t).src.both
  /\ proc' = "dead"
  /\ UNCHANGED <<opts, loaded, plan, stage, pc, issued, stageEnabled, runner,
                 host, ghost>>

\* playbook_..._network_set_completed, committed, when executing.
Complete(t) ==
  /\ At(t, "complete")
  /\ completed' = IF opts.execute THEN completed \cup {Step(t).src}
                  ELSE completed
  /\ Advance(t)
  /\ UNCHANGED <<proc, opts, loaded, plan, stage, issued, stageEnabled, runner,
                 net, errors, ghost>>

-----------------------------------------------------------------------------
(* The environment.                                                        *)

\* The process dies: killed, system() failed (cmdExecOrExit), no save path,
\* or the database went away.  Destructors do not run.
Crash ==
  /\ proc = "up" /\ budget.crashes < MaxCrashes
  /\ budget' = [budget EXCEPT !.crashes = @ + 1]
  /\ proc' = "dead"
  /\ UNCHANGED <<opts, loaded, plan, stage, pc, issued, stageEnabled, runner,
                 host, script, ran, failed>>

\* A link loses its carrier or an address disappears while a play runs.
Flap ==
  /\ proc = "up" /\ budget.flaps < MaxFlaps /\ running # {}
  /\ budget' = [budget EXCEPT !.flaps = @ + 1]
  /\ \/ \E l \in net.up : net' = [net EXCEPT !.up = @ \ Stack(net, l)]
     \/ \E a \in net.addrs : net' = [net EXCEPT !.addrs = @ \ {a}]
  /\ UNCHANGED <<flow, stageEnabled, runner, completed, errors,
                 script, ran, failed>>

\* The tool has returned and is not started again.
Finished ==
  /\ proc \in {"done", "dead"} /\ budget.runs = MaxRuns
  /\ UNCHANGED vars

ThreadStep(t) ==
  \/ SpawnThread(t) \/ JoinThread(t)
  \/ Lock(t) \/ SystemExec(t) \/ StartPlay(t)
  \/ PlayOk(t) \/ PlayFails(t) \/ Unlock(t)
  \/ BeginSession(t) \/ DisableSkippedSet(t) \/ CheckPhase(t)
  \/ CheckAborts(t) \/ EndPhase(t) \/ EndSession(t) \/ Complete(t)

Progress ==
  \/ Start \/ StageBegin \/ StageQuit \/ StageEnd
  \/ \E t \in Threads : ThreadStep(t)

Next == Progress \/ Crash \/ Flap \/ Finished

Spec == Init /\ [][Next]_vars

\* The scheduler runs some thread that can run, plays end, and the user
\* answers the prompt.
FairSpec == Spec /\ WF_vars(Progress)
-----------------------------------------------------------------------------
(* Properties.                                                             *)

\* Type invariant.
TypeOK ==
  /\ proc \in {"off", "up", "done", "dead"}
  /\ opts \in OptionSet
  /\ stage \in Nat
  /\ proc = "up" => stage \in 1..Len(plan)
  /\ pc \in [Threads -> Nat] /\ issued \in [Threads -> Nat]
  /\ stageEnabled \in [Threads -> BOOLEAN]
  /\ runnerExecute \in BOOLEAN
  /\ commandIdNumber \in Nat
  /\ coutMutex \in Threads \cup {Nobody}
  /\ budget \in [runs : 0..MaxRuns, crashes : 0..MaxCrashes,
                 flaps : 0..MaxFlaps]

\* coutMutex protects the command runner: a thread that has handed part of
\* a block to the runner, and the plays being executed, belong to the thread
\* that holds the mutex, so no two threads are ever inside the runner.
RunnerExclusive ==
  proc = "up" =>
    /\ \A t \in Threads : issued[t] > 0 => coutMutex = t
    /\ running # {} => coutMutex # Nobody

\* Without --execute the tool only prints: whatever the phases, failures and
\* resets do to the runner's flag, no command reaches the host, no play runs
\* and no source is marked completed.
DryRunHarmless ==
  ~opts.execute =>
    /\ ~runnerExecute
    /\ net = CleanNet(Ifaces)
    /\ running = {} /\ ran = {}
    /\ completed = {} /\ errors = {}

VlanThreads == {t \in Threads : Len(t) = 2}

\* Inter-network: "only one VLAN active at a time" and "only one interface
\* at a time" (comments in the thread functions).
OneVlanActive ==
  proc = "up" /\ opts.scope = "inter" =>
    \A t, u \in VlanThreads : Alive(t) /\ Alive(u) => t = u

\* Once the thread of a VLAN has returned, its device is gone (the reserved
\* number never gets one), or, for direct testing, nothing of what it
\* configured is left on the interface while that interface's thread lives.
\* (Excluding a clean-up command on the command line is the user's choice.)
Deconfigured ==
  proc = "up" /\ opts.execute /\ opts.excluded = {} =>
    \A t \in VlanThreads : pc[t] > 0 /\ Returned(t) =>
      IF t[2] # NONE THEN t \notin net.links
      ELSE Alive(Base(t)) => Unconfigured(net, Base(t))

\* Once the thread of a physical interface has returned, nothing of what the
\* playbook configured is left on it.
BaseDeconfigured ==
  proc = "up" /\ opts.execute /\ opts.excluded = {} =>
    \A i \in Ifaces : pc[<<i>>] > 0 /\ Returned(<<i>>) =>
      Unconfigured(net, <<i>>)

\* A play runs only on a link that is up and has the source's address, and
\* inter-network with the default route through the router under test,
\* as long as the network itself takes nothing away.
ScansRunConfigured ==
  budget.flaps = 0 /\ opts.excluded = {} =>
    \A c \in running :
      /\ c.link \in net.up
      /\ <<c.link, c.arg.src.addr>> \in net.addrs
      /\ c.arg.rtr # 0 => net.default = {<<c.link, c.arg.rtr>>}

SameSession(c, d) == c.arg.src = d.arg.src /\ c.arg.rtr = d.arg.rtr

\* After a play of an on-fail set has failed, no other play of its phase
\* runs for that source and router.
PhaseDisableHolds ==
  \A c \in running, f \in failed :
    SameSession(c, f) => c.arg.phase # f.arg.phase

OnFail(c) == Plays[c.arg.phase][c.arg.set].onFail

\* plays.yaml: "on-fail: # Signals failure will terminate further
\* processing", "disable: stage": after such a failure no later play of the
\* stage runs for that source and router.
StageDisableSticks ==
  \A c \in running, f \in failed :
    OnFail(f) = "stage" => ~SameSession(c, f)

\* The plays the plays file holds for a source.
PlannedPlays(src) ==
  LET rtrs == IF opts.scope = "intra" THEN {0} ELSE src.routers
      phases == {p \in 1..Len(Plays) : opts.phases = {} \/ p \in opts.phases}
      sets == UNION {{<<p, s>> : s \in 1..Len(Plays[p])} : p \in phases}
  IN  UNION {ToSet(PhaseCommands(src, rtr, ps[1], ps[2])) :
               rtr \in rtrs, ps \in sets}

\* The reasons a play may have been left out.
Excused(c) ==
  \/ \E f \in failed : SameSession(c, f) /\ f.arg.phase <= c.arg.phase
  \/ opts.noPrompt /\ \E s \in 1..c.arg.set : Plays[c.arg.phase][s].skip
  \/ \E e \in errors : e[1] = c.arg.src
  \/ opts.excluded # {}

\* A source is recorded as completed only when every play for it was
\* executed, apart from those a failure, --no-prompt, a runtime error or the
\* command line disabled.  A play that one of these disabled never takes the
\* plays of another phase, router or source with it.
CompletedWasScanned ==
  \A src \in completed : \A c \in PlannedPlays(src) : c \in ran \/ Excused(c)

\* A source recorded as completed is never tested again, neither by this
\* run nor by one started after a crash.
CompletedNotRepeated == \A c \in running : c.arg.src \notin completed

\* A run that returns without being told to quit leaves no source behind:
\* every row of a valid VLAN is completed, however many runs it took.
EverySourceCompleted ==
  proc = "done" /\ opts.execute /\ opts.noPrompt /\ opts.stages = {} =>
    {r \in Rows : r.vlan # RESERVED} \subseteq completed

\* Once the check at the start of a phase has recorded that a source's link
\* or address is gone, no further play of that source is executed, although
\* the end of every phase turns the runner on again.  (A run started after
\* a crash tests a source that is not completed once more.)
NoScanAfterRuntimeError ==
  budget.runs = 1 => \A c \in running, e \in errors : e[1] # c.arg.src

\* The command issued now.
IssuedNow == Cmds(coutMutex)[issued[coutMutex] + 1]

\* Every command gets the number a serial dry run prints for it, whatever
\* was disabled on the way ("disable to maintain count"): the numbers given
\* to --exclude-command mean the commands the user saw.
NumberingIsReproducible ==
  [][commandIdNumber' > commandIdNumber =>
       /\ commandIdNumber' <= Len(script)
       /\ script[commandIdNumber'] = IssuedNow]_vars

\* The tool returns: no thread waits forever for the mutex or for a join.
Termination == <>(proc \in {"done", "dead"} /\ budget.runs = MaxRuns)
=============================================================================
