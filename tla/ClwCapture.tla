------------------------------ MODULE ClwCapture ------------------------------
(***************************************************************************)
(* clw, the command line wrapper: a child process records the context and  *)
(* becomes the command, with a pseudo-terminal as its input and output and *)
(* a pipe as its standard error; the parent forwards what it types and     *)
(* prints, one read of at most ReadSize per descriptor and poll, keeps a   *)
(* log of it, and waits for the child.  Pipes and terminals keep order, so *)
(* a stream is two counts: what was written to it and what was read.       *)
(*                                                                         *)
(* A command is a record of what it will do: "typed" is what its user will *)
(* type, "ops" are its reads and writes in order ("leave" closes the       *)
(* terminal, as a daemon does), "code" is its exit code, "found" are the   *)
(* programs that exist on the host, and "name" is the program it runs.     *)
(* A command that cannot be executed writes an error and exits with 1.     *)
(***************************************************************************)
EXTENDS Integers, Sequences

CONSTANTS
  Commands,  \* the commands that may be given to clw
  ReadSize,  \* bufferSize
  PtySize,   \* what the kernel holds of either direction of the terminal
  PipeSize   \* what the kernel holds of the pipe

Ops      == {"in", "out", "err", "leave"}
Programs == {"env", "sysctl", "ip", "iptables", "nmdb-import-clw"}

ASSUME SizesAssumption ==
  /\ ReadSize \in Nat \ {0} /\ PtySize \in Nat /\ PipeSize \in Nat
  /\ ReadSize <= PtySize /\ ReadSize <= PipeSize
ASSUME CommandsAssumption ==
  \A c \in Commands : /\ c.typed \in Nat /\ c.ops \in Seq(Ops)
                      /\ c.code \in 0..255 /\ c.found \subseteq Programs

VARIABLES
  command,             \* the command line, with what it will do
  clw,                 \* where the parent is
  ready,               \* the descriptors poll() returned
  holding,             \* input the parent has read and not yet written
  input, output, error,  \* the streams: what was written and what was read
  child,               \* the child's state, its next step and its terminal
  files,               \* toolRunResults
  status               \* the status waitpid() gives, 0 before

streams == <<input, output, error>>
cvars   == <<command, clw, ready, holding, streams, child, files, status>>

Empty       == [written |-> 0, read |-> 0]
Unread(s)   == s.written - s.read
Write(s)    == [s EXCEPT !.written = @ + 1]
AtMost(n)   == IF n < ReadSize THEN n ELSE ReadSize
Take(s)     == [s EXCEPT !.read = @ + AtMost(Unread(s))]

\* What the child does before it becomes the command.  The first four files it writes itself; of
\* the others each is made by a program, if there is one.
Recorded == <<"tool_run_id", "timestamp_start", "command_line_original", "command_line_modified">>
createConfigFiles  == <<<<"env", "env">>, <<"sysctl", "sysctl">>>>
createNetworkFiles ==
  <<<<"ip_addr_show", "ip">>, <<"ip4_route_show", "ip">>, <<"ip6_route_show", "ip">>, <<"tables_save", "iptables">>>>
Collected == createConfigFiles \o createNetworkFiles
Files == {"tool_run_id", "timestamp_start", "command_line_original", "command_line_modified", "env", "sysctl",
          "ip_addr_show", "ip4_route_show", "ip6_route_show", "tables_save", "timestamp_end"}

CaptureInit ==
  /\ command \in Commands
  /\ clw = "poll" /\ ready = {} /\ holding = 0
  /\ input = Empty /\ output = Empty /\ error = Empty
  /\ child = [state |-> "recording", next |-> 1, terminal |-> TRUE]
  /\ files = {} /\ status = 0

-------------------------------------------------------------------------------
(* The child *)

Goes(state)  == child' = [child EXCEPT !.state = state, !.next = 1]
Steps        == child' = [child EXCEPT !.next = @ + 1]
Exits(state) == child' = [child EXCEPT !.state = state, !.terminal = FALSE]

RecordRun ==
  /\ child.state = "recording"
  /\ files' = files \union {Recorded[child.next]}
  /\ IF child.next < Len(Recorded) THEN Steps ELSE Goes("collecting")
  /\ UNCHANGED <<command, clw, ready, holding, streams, status>>

Collect ==
  /\ child.state = "collecting"
  /\ files' = files \union (IF Collected[child.next][2] \in command.found THEN {Collected[child.next][1]} ELSE {})
  /\ IF child.next < Len(Collected) THEN Steps ELSE Goes("running")
  /\ UNCHANGED <<command, clw, ready, holding, streams, status>>

\* cmdExecOrExit: the command is never run.
CollectFails ==
  /\ child.state = "collecting" /\ Collected[child.next][2] \in command.found
  /\ Exits("failed")
  /\ UNCHANGED <<command, clw, ready, holding, streams, files, status>>

Performs(op) == child.state = "running" /\ child.next <= Len(command.ops) /\ command.ops[child.next] = op

ChildReads ==
  /\ Performs("in") /\ (child.terminal => Unread(input) > 0)
  /\ input' = IF child.terminal THEN [input EXCEPT !.read = @ + 1] ELSE input
  /\ Steps
  /\ UNCHANGED <<command, clw, ready, holding, output, error, files, status>>

ChildPrints ==
  /\ Performs("out") /\ (child.terminal => Unread(output) < PtySize)
  /\ output' = IF child.terminal THEN Write(output) ELSE output
  /\ Steps
  /\ UNCHANGED <<command, clw, ready, holding, input, error, files, status>>

ChildWarns ==
  /\ Performs("err") /\ Unread(error) < PipeSize
  /\ error' = Write(error)
  /\ Steps
  /\ UNCHANGED <<command, clw, ready, holding, input, output, files, status>>

ChildLeaves ==
  /\ Performs("leave")
  /\ child' = [child EXCEPT !.next = @ + 1, !.terminal = FALSE]
  /\ UNCHANGED <<command, clw, ready, holding, streams, files, status>>

ChildExits ==
  /\ child.state = "running" /\ child.next > Len(command.ops)
  /\ Exits("exited")
  /\ UNCHANGED <<command, clw, ready, holding, streams, files, status>>

ChildStep == RecordRun \/ Collect \/ ChildReads \/ ChildPrints \/ ChildWarns \/ ChildLeaves \/ ChildExits

-------------------------------------------------------------------------------
(* The parent *)

\* What the user has not typed yet need not be there.  The end of the input makes poll() return
\* and read() give nothing, over and over, which changes nothing.  The parent keeps the writing
\* end of the pipe open, so that only the terminal hangs up.
Poll ==
  /\ clw = "poll"
  /\ LET must == {d \in {"out", "err", "hup"} :
                    \/ d = "out" /\ Unread(output) > 0
                    \/ d = "err" /\ Unread(error) > 0
                    \/ d = "hup" /\ ~child.terminal}
         may  == IF input.written < command.typed THEN {"in"} ELSE {}
     IN  \E more \in SUBSET may : must \union more # {} /\ ready' = must \union more
  /\ clw' = "in"
  /\ UNCHANGED <<command, holding, streams, child, files, status>>

ReadInput ==
  /\ clw = "in"
  /\ holding' = IF "in" \in ready THEN AtMost(command.typed - input.written) ELSE 0
  /\ clw' = "write"
  /\ UNCHANGED <<command, ready, streams, child, files, status>>

\* write() to the terminal blocks while the child leaves it full.
ForwardInput ==
  /\ clw = "write" /\ holding > 0 /\ (child.terminal => Unread(input) < PtySize)
  /\ input' = Write(input)
  /\ holding' = holding - 1
  /\ UNCHANGED <<command, clw, ready, output, error, child, files, status>>

InputForwarded ==
  /\ clw = "write" /\ holding = 0
  /\ clw' = "out"
  /\ UNCHANGED <<command, ready, holding, streams, child, files, status>>

ForwardOutput ==
  /\ clw = "out"
  /\ output' = IF "out" \in ready THEN Take(output) ELSE output
  /\ clw' = "err"
  /\ UNCHANGED <<command, ready, holding, input, error, child, files, status>>

\* Mutant: the loop ends before the streams that hung up are read.
ForwardErrorHangUpFirst ==
  /\ clw = "err"
  /\ error' = IF "err" \in ready /\ "hup" \notin ready THEN Take(error) ELSE error
  /\ clw' = IF "hup" \in ready THEN "wait" ELSE "poll"
  /\ UNCHANGED <<command, ready, holding, input, output, child, files, status>>

ForwardError ==
  /\ clw = "err"
  /\ error' = IF "err" \in ready THEN Take(error) ELSE error
  /\ clw' = IF "hup" \in ready THEN "wait" ELSE "poll"
  /\ UNCHANGED <<command, ready, holding, input, output, child, files, status>>

Over     == child.state \in {"exited", "failed"}
ExitCode == IF child.state = "failed" THEN 1 ELSE command.code

\* Mutant: waitpid() is told not to wait (WNOHANG).
WaitForChildNot ==
  /\ clw = "wait"
  /\ status' = IF Over THEN 256 * ExitCode ELSE 0
  /\ clw' = "end"
  /\ UNCHANGED <<command, ready, holding, streams, child, files>>

WaitForChild ==
  /\ clw = "wait" /\ Over
  /\ status' = 256 * ExitCode
  /\ clw' = "end"
  /\ UNCHANGED <<command, ready, holding, streams, child, files>>

\* The results are made read-only and given to nmdb-import-clw, if there is one.
Finish ==
  /\ clw = "end"
  /\ files' = files \union {"timestamp_end"}
  /\ clw' = IF "nmdb-import-clw" \in command.found THEN "importing" ELSE "done"
  /\ UNCHANGED <<command, ready, holding, streams, child, status>>

ParentStep ==
  \/ Poll \/ ReadInput \/ ForwardInput \/ InputForwarded \/ ForwardOutput \/ ForwardError
  \/ WaitForChild \/ Finish

CaptureNext == ChildStep \/ CollectFails \/ ParentStep

Stream      == [written : Nat, read : Nat]
ChildStates == [state : {"recording", "collecting", "running", "exited", "failed"}, next : Nat \ {0}, terminal : BOOLEAN]

CaptureTypeOK ==
  /\ command \in Commands
  /\ clw \in {"poll", "in", "write", "out", "err", "wait", "end", "importing", "done"}
  /\ ready \subseteq {"in", "out", "err", "hup"}
  /\ holding \in Nat
  /\ input \in Stream /\ output \in Stream /\ error \in Stream
  /\ child \in ChildStates
  /\ files \subseteq Files /\ status \in Nat
===============================================================================
