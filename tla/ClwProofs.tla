------------------------------- MODULE ClwProofs -------------------------------
(***************************************************************************)
(* Proofs about clw, for commands of any length and any sizes of buffers:  *)
(* the type invariant, what the log may miss, that what is imported is     *)
(* final, and that the data store keeps the promise of module RunStore.    *)
(***************************************************************************)
EXTENDS Clw, SequenceTheorems, TLAPS

-------------------------------------------------------------------------------
(* Constants *)

\* Each of the tools nmdb-import-clw starts stores one of the parts.
LEMMA KidsAreParts == Kids \in Seq(Context \union Results)
<1> DEFINE S == Context \union Results
<1>1. <<"ip_addr_show", "ip4_route_show", "ip6_route_show">> \in Seq(S)
  <2>1. "ip_addr_show" \in S /\ "ip4_route_show" \in S /\ "ip6_route_show" \in S
    BY DEF Context
  <2> QED BY <2>1
<1>2. <<"results">> \in Seq(S) /\ <<>> \in Seq(S)
  <2>1. "results" \in S
    BY DEF Results
  <2> QED BY <2>1
<1>3. \A s, t \in Seq(S) : s \o t \in Seq(S)
  BY ConcatProperties
<1> HIDE DEF S
<1>4. CASE command.name \in {"nmap", "ping"}
  BY <1>1, <1>2, <1>3, <1>4 DEF Kids, S
<1>5. CASE command.name \notin {"nmap", "ping"}
  BY <1>1, <1>2, <1>3, <1>5 DEF Kids, S
<1> QED BY <1>4, <1>5

\* The programs and the names of the files they make
LEMMA CollectedAreNamed == Len(Collected) = 6 /\ \A n \in 1..6 : Collected[n] \in Files \X Programs
<1> DEFINE S == Files \X Programs
<1>1. createConfigFiles \in Seq(S) /\ Len(createConfigFiles) = 2
  <2>1. <<"env", "env">> \in S /\ <<"sysctl", "sysctl">> \in S
    BY DEF Files, Programs
  <2> QED BY <2>1 DEF createConfigFiles
<1>2. createNetworkFiles \in Seq(S) /\ Len(createNetworkFiles) = 4
  <2>1. /\ <<"ip_addr_show", "ip">> \in S /\ <<"ip4_route_show", "ip">> \in S
        /\ <<"ip6_route_show", "ip">> \in S /\ <<"tables_save", "iptables">> \in S
    BY DEF Files, Programs
  <2> QED BY <2>1 DEF createNetworkFiles
<1> HIDE DEF S
<1>3. \A s, t \in Seq(S) : s \o t \in Seq(S) /\ Len(s \o t) = Len(s) + Len(t)
  BY ConcatProperties
<1>4. Collected \in Seq(S) /\ Len(Collected) = Len(createConfigFiles) + Len(createNetworkFiles)
  BY <1>1, <1>2, <1>3, Zenon DEF Collected
<1>5. Len(Collected) = 6
  BY <1>1, <1>2, <1>4
<1>6. \A n \in 1..6 : Collected[n] \in S
  BY <1>4, <1>5, ElementOfSeq
<1> QED BY <1>5, <1>6 DEF S

-------------------------------------------------------------------------------
(* Types *)

\* More is read than there is neither of a stream nor of what the user types.
Counted ==
  /\ input.read <= input.written /\ output.read <= output.written /\ error.read <= error.written
  /\ Unread(output) <= PtySize /\ Unread(error) <= PipeSize
  /\ clw # "write" => holding = 0
  /\ input.written + holding <= command.typed
  /\ child.state = "collecting" => child.next <= 6
  /\ child.state = "recording" => child.next <= 4

\* What writing to a stream and reading from it does to the counts
LEMMA WriteCounts ==
  ASSUME NEW s \in Stream
  PROVE  Write(s) \in Stream /\ Write(s).written = s.written + 1 /\ Write(s).read = s.read
BY DEF Stream, Write

\* One read takes at most ReadSize of what is there.
LEMMA TakeCounts ==
  ASSUME NEW s \in Stream, s.read <= s.written
  PROVE  /\ Take(s) \in Stream /\ Take(s).written = s.written
         /\ s.read <= Take(s).read /\ Take(s).read <= s.written
         /\ Unread(s) <= ReadSize => Unread(Take(s)) = 0
         /\ Unread(s) > ReadSize => Unread(Take(s)) = Unread(s) - ReadSize
BY SizesAssumption DEF Stream, Take, Unread, AtMost

\* What the steps of the child do to its record
LEMMA ChildRecord ==
  ASSUME child \in ChildStates
  PROVE  /\ Steps => child' \in ChildStates /\ child'.state = child.state /\ child'.next = child.next + 1
         /\ \A st \in {"collecting", "running"} : Goes(st) => child' \in ChildStates /\ child'.state = st /\ child'.next = 1
         /\ \A st \in {"exited", "failed"} : Exits(st) => child' \in ChildStates /\ child'.state = st
<1>1. Steps => child' \in ChildStates /\ child'.state = child.state /\ child'.next = child.next + 1
  BY DEF Steps, ChildStates
<1>2. ASSUME NEW st \in {"collecting", "running"}, Goes(st)
      PROVE  child' \in ChildStates /\ child'.state = st /\ child'.next = 1
  <2>1. child' = [state |-> st, next |-> 1, terminal |-> child.terminal]
    BY <1>2, Zenon DEF Goes, ChildStates
  <2> QED BY <2>1 DEF ChildStates
<1>3. ASSUME NEW st \in {"exited", "failed"}, Exits(st)
      PROVE  child' \in ChildStates /\ child'.state = st
  <2>1. child' = [state |-> st, next |-> child.next, terminal |-> FALSE]
    BY <1>3, Zenon DEF Exits, ChildStates
  <2> QED BY <2>1 DEF ChildStates
<1> QED BY <1>1, <1>2, <1>3

\* And to its terminal
LEMMA ChildTerminal ==
  ASSUME child \in ChildStates
  PROVE  /\ Steps => child'.terminal = child.terminal
         /\ \A st \in {"collecting", "running"} : Goes(st) => child'.terminal = child.terminal
         /\ \A st \in {"exited", "failed"} : Exits(st) => ~child'.terminal
<1>1. Steps => child'.terminal = child.terminal
  BY DEF Steps, ChildStates
<1>2. \A st \in {"collecting", "running"} : Goes(st) => child'.terminal = child.terminal
  BY DEF Goes, ChildStates
<1>3. \A st \in {"exited", "failed"} : Exits(st) => ~child'.terminal
  BY Zenon DEF Exits, ChildStates
<1> QED BY <1>1, <1>2, <1>3

\* A child that closes its terminal goes on.
LEMMA ChildLeft ==
  ASSUME child \in ChildStates, ChildLeaves
  PROVE  child' \in ChildStates /\ child'.state = "running" /\ ~child'.terminal
<1>1. child' = [state |-> child.state, next |-> child.next + 1, terminal |-> FALSE]
  BY Zenon DEF ChildLeaves, ChildStates
<1>2. child.state = "running"
  BY DEF ChildLeaves, Performs
<1> QED BY <1>1, <1>2 DEF ChildStates

\* A step of the child that touches a stream either does what the terminal lets it or finds none.
LEMMA ChildTouches ==
  /\ ChildReads => (input' = [input EXCEPT !.read = @ + 1] /\ Unread(input) > 0) \/ input' = input
  /\ ChildPrints => (output' = Write(output) /\ child.terminal /\ Unread(output) < PtySize) \/ output' = output
  /\ ChildReads \/ ChildPrints \/ ChildWarns => Steps /\ child.state = "running"
BY Zenon DEF ChildReads, ChildPrints, ChildWarns, Performs

\* Types and counts hold initially, and every step of child and parent keeps them.
LEMMA CaptureTypesInit == Init => CaptureTypeOK /\ Counted
BY SizesAssumption, CommandsAssumption
   DEF Init, CaptureInit, CaptureTypeOK, Counted, Empty, Unread, Stream, ChildStates

\* Steps of the child keep types and counts.
LEMMA ChildTypes ==
  ASSUME CaptureTypeOK, Counted, ChildStep \/ CollectFails
  PROVE  CaptureTypeOK' /\ Counted'
<1> USE SizesAssumption DEF CaptureTypeOK, Counted, streams
<1>1. CASE RecordRun
  <2>1. Len(Recorded) = 4 /\ \A n \in 1..4 : Recorded[n] \in Files
    BY DEF Recorded, Files
  <2>2. child.next \in 1..4
    BY <1>1 DEF RecordRun, ChildStates
  <2> QED BY <1>1, <2>1, <2>2, ChildRecord DEF RecordRun
<1>2. CASE Collect
  <2>1. child.next \in 1..6
    BY <1>2 DEF Collect, ChildStates
  <2>2. Collected[child.next] \in Files \X Programs
    BY <2>1, CollectedAreNamed
  <2>3. files' \subseteq Files
    BY <1>2, <2>2 DEF Collect
  <2>4. child' \in ChildStates /\ ((child'.state = "collecting" /\ child'.next <= 6) \/ child'.state = "running")
    BY <1>2, <2>1, CollectedAreNamed, ChildRecord DEF Collect
  <2> QED BY <1>2, <2>3, <2>4 DEF Collect
<1>3. CASE CollectFails
  BY <1>3, ChildRecord DEF CollectFails
<1>4. CASE ChildReads
  <2>1. Steps /\ child.state = "running"
    BY <1>4, ChildTouches
  <2>2. (input' = [input EXCEPT !.read = @ + 1] /\ Unread(input) > 0) \/ input' = input
    BY <1>4, ChildTouches
  <2>3. input' \in Stream /\ input'.read <= input'.written /\ input'.written = input.written
    BY <2>2 DEF Stream, Unread
  <2> QED BY <1>4, <2>1, <2>3, ChildRecord DEF ChildReads
<1>5. CASE ChildPrints
  <2>1. Steps /\ child.state = "running"
    BY <1>5, ChildTouches
  <2>2. (output' = Write(output) /\ child.terminal /\ Unread(output) < PtySize) \/ output' = output
    BY <1>5, ChildTouches
  <2>3. output' \in Stream /\ output'.read <= output'.written /\ Unread(output') <= PtySize
    BY <2>2, WriteCounts DEF Stream, Unread
  <2> QED BY <1>5, <2>1, <2>3, ChildRecord DEF ChildPrints
<1>6. CASE ChildWarns
  <2>1. Steps /\ child.state = "running"
    BY <1>6, ChildTouches
  <2>2. error' \in Stream /\ error'.read <= error'.written /\ Unread(error') <= PipeSize
    BY <1>6, WriteCounts DEF ChildWarns, Stream, Unread
  <2> QED BY <1>6, <2>1, <2>2, ChildRecord DEF ChildWarns
<1>7. CASE ChildLeaves
  BY <1>7, ChildLeft DEF ChildLeaves
<1>8. CASE ChildExits
  BY <1>8, ChildRecord DEF ChildExits
<1> QED BY <1>1, <1>2, <1>3, <1>4, <1>5, <1>6, <1>7, <1>8 DEF ChildStep

\* Steps of the parent keep types and counts.
LEMMA ParentTypes ==
  ASSUME CaptureTypeOK, Counted, ParentStep
  PROVE  CaptureTypeOK' /\ Counted'
<1> USE SizesAssumption DEF CaptureTypeOK, Counted, streams
<1>1. CASE Poll
  BY <1>1 DEF Poll
<1>2. CASE ReadInput
  <2>1. input.written \in Nat /\ command.typed \in Nat
    BY CommandsAssumption DEF Stream
  <2>2. holding' \in Nat /\ input.written + holding' <= command.typed
    BY <1>2, <2>1 DEF ReadInput, AtMost
  <2> QED BY <1>2, <2>2 DEF ReadInput
<1>3. CASE ForwardInput
  <2>1. input' \in Stream /\ input'.read = input.read /\ input'.written = input.written + 1
    BY <1>3, WriteCounts DEF ForwardInput
  <2>2. holding' = holding - 1 /\ holding > 0 /\ holding' \in Nat
    BY <1>3 DEF ForwardInput
  <2> QED BY <1>3, <2>1, <2>2 DEF ForwardInput, Stream
<1>4. CASE InputForwarded
  BY <1>4 DEF InputForwarded
<1>5. CASE ForwardOutput
  <2>1. output' \in Stream /\ output'.read <= output'.written /\ Unread(output') <= PtySize
    BY <1>5, TakeCounts DEF ForwardOutput, Unread, Stream
  <2> QED BY <1>5, <2>1 DEF ForwardOutput
<1>6. CASE ForwardError
  <2>1. error' \in Stream /\ error'.read <= error'.written /\ Unread(error') <= PipeSize
    BY <1>6, TakeCounts DEF ForwardError, Unread, Stream
  <2> QED BY <1>6, <2>1 DEF ForwardError
<1>7. CASE WaitForChild
  <2>1. command.code \in 0..255
    BY CommandsAssumption
  <2>2. ExitCode \in Nat
    BY <2>1 DEF ExitCode
  <2> QED BY <1>7, <2>2 DEF WaitForChild
<1>8. CASE Finish
  BY <1>8 DEF Finish, Files
<1> QED BY <1>1, <1>2, <1>3, <1>4, <1>5, <1>6, <1>7, <1>8 DEF ParentStep

\* The import leaves the streams and the child alone.
LEMMA ImportLeavesCapture ==
  ASSUME ImporterStep \/ KidStep \/ Remove \/ ImporterFails \/ ToolFails
  PROVE  /\ UNCHANGED <<command, ready, holding, streams, child, files, status>>
         /\ clw' = clw \/ (clw' = "done" /\ importer.at \in {"insert", "commit", "tools"})
<1>1. CASE Import
  BY <1>1 DEF Import, cvars, streams
<1>2. CASE GeneralInserts
  BY <1>2 DEF GeneralInserts, cvars, streams
<1>3. CASE SpecificInserts
  BY <1>3 DEF SpecificInserts, cvars, streams
<1>4. CASE StartTool
  BY <1>4 DEF StartTool, cvars, streams
<1>5. CASE ToolEnded
  BY <1>5 DEF ToolEnded, cvars, streams
<1>6. CASE Return
  BY <1>6 DEF Return, cvars, streams
<1>7. CASE Parse
  BY <1>7 DEF Parse, cvars, streams
<1>8. CASE InsertToolRun
  BY <1>8 DEF InsertToolRun, cvars, streams
<1>9. CASE InsertRows
  BY <1>9 DEF InsertRows, cvars, streams
<1>10. CASE RowsRefused
  BY <1>10 DEF RowsRefused, cvars, streams
<1>11. CASE CommitRows
  BY <1>11 DEF CommitRows, cvars, streams
<1>12. CASE Remove
  BY <1>12 DEF Remove, cvars, streams
<1>13. CASE ImporterFails
  BY <1>13 DEF ImporterFails, cvars, streams
<1>14. CASE ToolFails
  BY <1>14 DEF ToolFails, cvars, streams
<1> QED BY <1>1, <1>2, <1>3, <1>4, <1>5, <1>6, <1>7, <1>8, <1>9, <1>10, <1>11, <1>12, <1>13, <1>14 DEF ImporterStep, KidStep

-------------------------------------------------------------------------------
(* The import *)

\* nmdb-import-clw is only there once clw has called it, and a tool only while it waits for one.
Started ==
  /\ importer.at \in {"insert", "commit", "tools"} => clw = "importing"
  /\ importer.at # "none" => clw \in {"importing", "done"}
  /\ kid # "none" => importer.at = "tools" /\ importer.next \in 1..Len(Kids)

\* What is inserted and not committed: by nmdb-import-clw the run, before its commit; by a tool
\* one part at a time, which holds on to the run it belongs to.
Pending ==
  /\ tx["clw"].rows = {}
  /\ importer.at # "commit" => ~tx["clw"].run
  /\ kid = "commit" => tx["kid"].rows = {Part} /\ RunIsThere("kid")
  /\ kid # "commit" => tx["kid"].rows = {}
  /\ kid = "insert run" => WithRun(Part)
  /\ tx["kid"].run => kid \in {"insert", "commit"} /\ WithRun(Part)

ImportInv == ImportTypeOK /\ Started /\ Pending

\* What a started tool stores is one of the parts.
LEMMA PartIsPart == ImportInv /\ kid # "none" => Part \in Context \union Results
BY KidsAreParts, ElementOfSeq DEF ImportInv, Started, Part

\* Nothing is started or pending initially.
LEMMA ImportInit == Init => ImportInv
<1> SUFFICES ASSUME Init PROVE ImportInv
  OBVIOUS
<1>1. tx["clw"] = NoInsert /\ tx["kid"] = NoInsert /\ tx \in [Procs -> {NoInsert}]
  BY DEF Init, Procs
<1>2. NoInsert \in Inserts /\ ~NoInsert.run /\ NoInsert.rows = {}
  BY Zenon DEF NoInsert, Inserts
<1>3. tx \in [Procs -> Inserts]
  BY <1>1, <1>2
<1>4. importer \in [at : {"none", "insert", "commit", "tools", "ended"}, next : Nat \ {0}] /\ importer.at = "none" /\ kid = "none"
  BY DEF Init
<1> QED BY <1>1, <1>2, <1>3, <1>4 DEF Init, ImportInv, ImportTypeOK, Started, Pending

\* What a call of a transaction does to what is pending, and that it leaves the other one's alone
LEMMA InsertRunTx ==
  ASSUME ImportTypeOK, NEW p \in Procs, InsertRun(p)
  PROVE  /\ tx' \in [Procs -> Inserts] /\ tx'[p].rows = tx[p].rows /\ (tx'[p].run => ~run)
         /\ \A q \in Procs \ {p} : tx'[q] = tx[q]
<1>1. tx \in [Procs -> Inserts] /\ tx' = [tx EXCEPT ![p] = [tx[p] EXCEPT !.run = ~run]]
  BY Zenon DEF ImportTypeOK, InsertRun
<1>2. tx[p] \in Inserts /\ run \in BOOLEAN
  BY <1>1 DEF ImportTypeOK
<1>3. /\ [tx[p] EXCEPT !.run = ~run] \in Inserts /\ [tx[p] EXCEPT !.run = ~run].rows = tx[p].rows
      /\ [tx[p] EXCEPT !.run = ~run].run = ~run
  BY <1>2, Zenon DEF Inserts
<1>4. /\ tx' \in [Procs -> Inserts] /\ tx'[p] = [tx[p] EXCEPT !.run = ~run]
      /\ \A q \in Procs \ {p} : tx'[q] = tx[q]
  BY <1>1, <1>3, Zenon
<1>5. tx'[p].rows = tx[p].rows
  BY <1>3, <1>4, Zenon
<1>6. tx'[p].run => ~run
  BY <1>3, <1>4, Zenon
<1> QED BY <1>4, <1>5, <1>6

\* The same for the rows of a part,
LEMMA InsertRowTx ==
  ASSUME ImportTypeOK, NEW p \in Procs, NEW row \in Context \union Results, InsertRow(p, row)
  PROVE  /\ tx' \in [Procs -> Inserts] /\ tx'[p].rows = tx[p].rows \union {row} /\ tx'[p].run = tx[p].run
         /\ \A q \in Procs \ {p} : tx'[q] = tx[q]
<1>1. tx \in [Procs -> Inserts] /\ tx' = [tx EXCEPT ![p] = [tx[p] EXCEPT !.rows = @ \union {row}]]
  BY Zenon DEF ImportTypeOK, InsertRow
<1>2. tx[p] \in Inserts
  BY <1>1
<1> DEFINE new == [tx[p] EXCEPT !.rows = @ \union {row}]
<1>3. new.rows = tx[p].rows \union {row} /\ new.run = tx[p].run
  BY <1>2, Zenon DEF Inserts
<1>4. new \in Inserts
  <2>1. tx[p].rows \union {row} \in SUBSET (Context \union Results)
    BY <1>2 DEF Inserts
  <2> QED BY <1>2, <2>1, Zenon DEF Inserts
<1>5. /\ tx' \in [Procs -> Inserts] /\ tx'[p] = new
      /\ \A q \in Procs \ {p} : tx'[q] = tx[q]
  BY <1>1, <1>4, Zenon
<1> QED BY <1>3, <1>5, Zenon

\* and for the end of a transaction, either way.
LEMMA EndTx ==
  ASSUME ImportTypeOK, NEW p \in Procs, tx' = [tx EXCEPT ![p] = NoInsert]
  PROVE  /\ tx' \in [Procs -> Inserts] /\ tx'[p].rows = {} /\ ~tx'[p].run
         /\ \A q \in Procs \ {p} : tx'[q] = tx[q]
<1>1. NoInsert \in Inserts /\ ~NoInsert.run /\ NoInsert.rows = {}
  BY Zenon DEF NoInsert, Inserts
<1>2. tx \in [Procs -> Inserts]
  BY DEF ImportTypeOK
<1>3. tx' \in [Procs -> Inserts] /\ tx'[p] = NoInsert /\ \A q \in Procs \ {p} : tx'[q] = tx[q]
  BY <1>1, <1>2, Zenon
<1> QED BY <1>1, <1>3

\* The steps that only move the importer, its tool or the capture
LEMMA TxKept ==
  ASSUME ImportInv, UNCHANGED <<command, tx, run, rows, removals>>, ImportTypeOK', Started',
         (importer'.at = "commit") <=> (importer.at = "commit"),
         kid' \notin {"insert run", "insert", "commit"} \/ UNCHANGED <<kid, importer>>,
         kid \in {"insert", "commit"} => UNCHANGED <<kid, importer>>
  PROVE  ImportInv'
BY Zenon DEF ImportInv, Pending, Part, Kids, RunIsThere, WithRun

\* clw does not touch the import before it starts it.
LEMMA CaptureKeepsImport ==
  ASSUME CaptureTypeOK, ImportInv, Capture
  PROVE  ImportInv'
<1>1. UNCHANGED <<command, ivars>>
  BY Zenon DEF Capture, CaptureNext, ChildStep, CollectFails, ParentStep, RecordRun, Collect, ChildReads, ChildPrints, ChildWarns,
     ChildLeaves, ChildExits, Poll, ReadInput, ForwardInput, InputForwarded, ForwardOutput, ForwardError, WaitForChild, Finish
<1>2. clw' = clw \/ clw \notin {"importing", "done"}
  BY Zenon DEF Capture, CaptureNext, ChildStep, CollectFails, ParentStep, RecordRun, Collect, ChildReads, ChildPrints, ChildWarns,
     ChildLeaves, ChildExits, Poll, ReadInput, ForwardInput, InputForwarded, ForwardOutput, ForwardError, WaitForChild, Finish
<1>3. UNCHANGED <<command, importer, kid, tx, run, rows, removals>>
  BY <1>1 DEF ivars
<1>4. ImportTypeOK'
  BY <1>3 DEF ImportInv, ImportTypeOK
<1>5. Started'
  BY <1>2, <1>3 DEF ImportInv, ImportTypeOK, Started, Kids
<1> QED BY <1>3, <1>4, <1>5, TxKept

\* Each step of nmdb-import-clw keeps the invariant of the import,
LEMMA ImporterKeepsImport ==
  ASSUME CaptureTypeOK, ImportInv, ImporterStep \/ ImporterFails
  PROVE  ImportInv'
<1> USE DEF ImportInv
<1>0. UNCHANGED command /\ UNCHANGED Kids
  BY ImportLeavesCapture DEF Kids
<1>1. CASE Import
  <2>1. importer' = [importer EXCEPT !.at = "insert"] /\ importer.at = "none" /\ clw = "importing"
    BY <1>1 DEF Import, At
  <2>2. UNCHANGED <<command, clw, kid, tx, run, rows, removals>>
    BY <1>1, Zenon DEF Import, cvars
  <2>3. ImportTypeOK' /\ importer'.at = "insert" /\ kid' = "none"
    BY <2>1, <2>2 DEF ImportTypeOK, Started
  <2>4. Started'
    BY <2>1, <2>2, <2>3 DEF Started
  <2> QED BY <2>1, <2>2, <2>3, <2>4, TxKept DEF Started
<1>2. CASE GeneralInserts
  <2>1. importer' = [importer EXCEPT !.at = "commit"] /\ importer.at = "insert" /\ InsertRun("clw")
    BY <1>2 DEF GeneralInserts, At
  <2>2. UNCHANGED <<command, clw, kid, run, rows, removals>>
    BY <1>2, Zenon DEF GeneralInserts, cvars
  <2>3. kid = "none" /\ tx["kid"].rows = {} /\ ~tx["kid"].run /\ tx["clw"].rows = {}
    BY <2>1 DEF Started, Pending
  <2>4. tx' \in [Procs -> Inserts] /\ tx'["clw"].rows = {} /\ tx'["kid"] = tx["kid"]
    BY <2>1, <2>3, InsertRunTx DEF Procs
  <2>5. ImportTypeOK' /\ Started' /\ importer'.at = "commit"
    BY <2>1, <2>2, <2>3, <2>4 DEF ImportTypeOK, Started
  <2> QED BY <2>2, <2>3, <2>4, <2>5, Zenon DEF Pending
<1>3. CASE SpecificInserts
  <2>1. importer' = [importer EXCEPT !.at = "tools"] /\ importer.at = "commit" /\ Commit("clw")
    BY <1>3 DEF SpecificInserts, At
  <2>2. UNCHANGED <<clw, kid, removals>>
    BY <1>3, Zenon DEF SpecificInserts, cvars
  <2>3. kid = "none" /\ clw = "importing" /\ ~tx["kid"].run /\ tx["kid"].rows = {} /\ tx["clw"].rows = {}
    BY <2>1 DEF Started, Pending
  <2>4. tx' \in [Procs -> Inserts] /\ tx'["clw"].rows = {} /\ ~tx'["clw"].run /\ tx'["kid"] = tx["kid"]
    BY <2>1, EndTx DEF Commit, Procs
  <2>5. run' \in BOOLEAN
    BY <2>1, Zenon DEF Commit
  <2>6. rows' = rows
    BY <2>1, <2>3 DEF Commit
  <2>7. ImportTypeOK' /\ Started'
    BY <2>1, <2>2, <2>3, <2>4, <2>5, <2>6 DEF ImportTypeOK, Started
  <2> QED BY <2>2, <2>3, <2>4, <2>7 DEF Pending
<1>4. CASE ImporterFails
  <2>1. importer' = [importer EXCEPT !.at = "ended"] /\ importer.at \in {"insert", "commit"} /\ Rollback("clw") /\ clw' = "done"
    BY <1>4 DEF ImporterFails, At
  <2>2. UNCHANGED <<kid, removals>>
    BY <1>4, Zenon DEF ImporterFails
  <2>3. kid = "none" /\ ~tx["kid"].run /\ tx["kid"].rows = {}
    BY <2>1 DEF Started, Pending
  <2>4. tx' \in [Procs -> Inserts] /\ tx'["clw"].rows = {} /\ ~tx'["clw"].run /\ tx'["kid"] = tx["kid"]
    BY <2>1, EndTx DEF Rollback, Procs
  <2>5. ImportTypeOK' /\ Started'
    BY <2>1, <2>2, <2>3, <2>4 DEF ImportTypeOK, Started, Rollback
  <2> QED BY <2>2, <2>3, <2>4, <2>5 DEF Pending
<1>5. CASE StartTool
  <2>1. UNCHANGED <<clw, importer, tx, run, rows, removals>> /\ kid = "none" /\ kid' = "parse"
    BY <1>5, Zenon DEF StartTool, cvars
  <2>2. importer.at = "tools" /\ importer.next \in 1..Len(Kids)
    BY <1>5, KidsAreParts DEF StartTool, ImportTypeOK
  <2>3. ImportTypeOK' /\ Started'
    BY <1>0, <2>1, <2>2 DEF ImportTypeOK, Started
  <2> QED BY <1>0, <2>1, <2>2, <2>3, TxKept
<1>6. CASE ToolEnded
  <2>1. UNCHANGED <<clw, tx, run, rows, removals>> /\ kid = "ended" /\ kid' = "none"
    BY <1>6, Zenon DEF ToolEnded, cvars
  <2>2. importer.at = "tools" /\ importer' = [importer EXCEPT !.next = @ + 1]
    BY <1>6 DEF ToolEnded
  <2>3. ImportTypeOK' /\ Started' /\ importer'.at = "tools"
    BY <1>0, <2>1, <2>2 DEF ImportTypeOK, Started
  <2> QED BY <1>0, <2>1, <2>2, <2>3, TxKept
<1>7. CASE Return
  <2>1. UNCHANGED <<kid, tx, run, rows, removals>> /\ clw' = "done"
    BY <1>7, Zenon DEF Return
  <2>2. importer.at = "tools" /\ importer.next > Len(Kids) /\ importer' = [importer EXCEPT !.at = "ended"]
    BY <1>7 DEF Return, At
  <2>3. kid = "none"
    <3>1. Len(Kids) \in Nat /\ importer.next \in Nat
      BY KidsAreParts, LenProperties DEF ImportTypeOK
    <3> QED BY <2>2, <3>1 DEF Started
  <2>4. ImportTypeOK' /\ Started' /\ importer'.at = "ended"
    BY <1>0, <2>1, <2>2, <2>3 DEF ImportTypeOK, Started
  <2> QED BY <1>0, <2>1, <2>2, <2>3, <2>4, TxKept
<1> QED BY <1>1, <1>2, <1>3, <1>4, <1>5, <1>6, <1>7 DEF ImporterStep

\* each step of a tool it has started,
LEMMA KidKeepsImport ==
  ASSUME CaptureTypeOK, ImportInv, KidStep \/ ToolFails
  PROVE  ImportInv'
<1> USE DEF ImportInv
<1>0. UNCHANGED command /\ UNCHANGED Kids
  BY ImportLeavesCapture DEF Kids
<1>1. /\ UNCHANGED <<clw, importer, removals>> /\ importer.at = "tools" /\ importer.next \in 1..Len(Kids) /\ UNCHANGED Part
      /\ kid \in {"parse", "insert run", "insert", "commit"}
  <2>1. kid \in {"parse", "insert run", "insert", "commit"}
    BY DEF KidStep, ToolFails, Parse, InsertToolRun, InsertRows, RowsRefused, CommitRows
  <2>2. UNCHANGED <<clw, importer, removals>>
    BY Zenon DEF KidStep, ToolFails, Parse, InsertToolRun, InsertRows, RowsRefused, CommitRows, cvars
  <2> QED BY <1>0, <2>1, <2>2 DEF Started, Part
<1>2. Part \in Context \union Results
  BY <1>1, PartIsPart
<1>3. tx["clw"].rows = {} /\ ~tx["clw"].run
  BY <1>1 DEF Pending
<1>4. CASE Parse
  <2>1. kid' \in {"ended", "insert run", "insert"} /\ kid = "parse" /\ UNCHANGED <<tx, run, rows>>
    BY <1>4, Zenon DEF Parse
  <2>2. ImportTypeOK' /\ Started'
    BY <1>0, <1>1, <2>1 DEF ImportTypeOK, Started
  <2>3. tx["kid"].rows = {} /\ ~tx["kid"].run
    BY <2>1 DEF Pending
  <2>4. kid' = "insert run" => WithRun(Part)'
    BY <1>1, <1>4, Zenon DEF Parse, WithRun
  <2> QED BY <1>1, <1>3, <2>1, <2>2, <2>3, <2>4 DEF Pending
<1>5. CASE InsertToolRun
  <2>1. kid = "insert run" /\ kid' = "insert" /\ InsertRun("kid") /\ UNCHANGED <<run, rows>>
    BY <1>5, Zenon DEF InsertToolRun
  <2>2. tx' \in [Procs -> Inserts] /\ tx'["clw"] = tx["clw"] /\ tx'["kid"].rows = tx["kid"].rows
    BY <2>1, InsertRunTx DEF Procs
  <2>3. ImportTypeOK' /\ Started'
    BY <1>0, <1>1, <2>1, <2>2 DEF ImportTypeOK, Started
  <2>4. WithRun(Part)' /\ tx["kid"].rows = {}
    BY <1>1, <2>1, Zenon DEF Pending, WithRun
  <2> QED BY <1>1, <1>3, <2>1, <2>2, <2>3, <2>4 DEF Pending
<1>6. CASE InsertRows
  <2>1. kid = "insert" /\ kid' = "commit" /\ RunIsThere("kid") /\ InsertRow("kid", Part) /\ UNCHANGED <<run, rows>>
    BY <1>6, Zenon DEF InsertRows
  <2>2. /\ tx' \in [Procs -> Inserts] /\ tx'["clw"] = tx["clw"]
        /\ tx'["kid"].rows = tx["kid"].rows \union {Part} /\ tx'["kid"].run = tx["kid"].run
    BY <1>2, <2>1, InsertRowTx DEF Procs
  <2>3. ImportTypeOK' /\ Started'
    BY <1>0, <1>1, <2>1, <2>2 DEF ImportTypeOK, Started
  <2>4. tx["kid"].rows = {}
    BY <2>1 DEF Pending
  <2>5. RunIsThere("kid")'
    BY <2>1, <2>2, Zenon DEF RunIsThere
  <2>6. tx'["kid"].run => WithRun(Part)'
    BY <1>1, <2>1, <2>2, Zenon DEF Pending, WithRun
  <2> QED BY <1>1, <1>3, <2>1, <2>2, <2>3, <2>4, <2>5, <2>6 DEF Pending
<1>7. CASE RowsRefused \/ CommitRows \/ ToolFails
  <2>1. kid' = "ended" /\ tx' = [tx EXCEPT !["kid"] = NoInsert]
    BY <1>7, Zenon DEF RowsRefused, CommitRows, ToolFails, Rollback, Commit
  <2>2. tx' \in [Procs -> Inserts] /\ tx'["clw"] = tx["clw"] /\ tx'["kid"].rows = {} /\ ~tx'["kid"].run
    BY <2>1, EndTx DEF Procs
  <2>3. run' \in BOOLEAN
    BY <1>7, Zenon DEF ImportTypeOK, RowsRefused, CommitRows, ToolFails, Rollback, Commit
  <2>4. rows' \in {rows, rows \union tx["kid"].rows} /\ tx["kid"].rows \subseteq Context \union Results
    <3>1. rows' = rows \/ rows' = rows \union tx["kid"].rows
      BY <1>7, Zenon DEF RowsRefused, CommitRows, ToolFails, Rollback, Commit
    <3>2. tx["kid"].rows = {} \/ tx["kid"].rows = {Part}
      BY DEF Pending
    <3> QED BY <1>2, <3>1, <3>2
  <2>5. ImportTypeOK' /\ Started'
    BY <1>0, <1>1, <2>1, <2>2, <2>3, <2>4 DEF ImportTypeOK, Started
  <2> QED BY <1>1, <1>3, <2>1, <2>2, <2>5 DEF Pending
<1> QED BY <1>4, <1>5, <1>6, <1>7 DEF KidStep

\* a removal, which waits for rows that are pending,
LEMMA RemoveKeepsImport ==
  ASSUME CaptureTypeOK, ImportInv, Remove
  PROVE  ImportInv'
<1> USE DEF ImportInv
<1>1. UNCHANGED <<command, clw, importer, kid, tx>> /\ ~run' /\ run' = FALSE /\ rows' = {} /\ removals' = removals + 1
  BY Zenon DEF Remove, cvars
<1>1a. run' \in BOOLEAN
  BY <1>1, Zenon
<1>1b. removals' \in Nat /\ rows' \subseteq Context \union Results
  <2>1. removals' = removals + 1 /\ rows' = {}
    BY <1>1
  <2>2. removals \in Nat
    BY DEF ImportTypeOK
  <2> QED BY <2>1, <2>2
<1>2. tx["kid"].rows = {}
  BY DEF Remove, Procs
<1>3. kid # "commit"
  BY <1>2 DEF Pending
<1>4. UNCHANGED Kids
  BY <1>1 DEF Kids
<1>5. ImportTypeOK' /\ Started'
  BY <1>1, <1>1a, <1>1b, <1>4 DEF ImportTypeOK, Started
<1> QED BY <1>1, <1>3, <1>4, <1>5, Zenon DEF Pending, WithRun, Part

\* and so every step.
LEMMA KeepsImport ==
  ASSUME CaptureTypeOK, ImportInv, [Next]_vars
  PROVE  ImportInv'
<1>1. CASE UNCHANGED vars
  <2>1. UNCHANGED <<command, clw, importer, kid, tx, run, rows, removals>>
    BY <1>1 DEF vars, cvars, ivars
  <2> QED BY <2>1, Zenon DEF ImportInv, ImportTypeOK, Started, Pending, Kids, Part, RunIsThere, WithRun
<1> QED BY <1>1, CaptureKeepsImport, ImporterKeepsImport, KidKeepsImport, RemoveKeepsImport DEF Next

-------------------------------------------------------------------------------
(* The end of the streams and of the record *)

\* The terminal only hangs up for good.  A command that does not close it itself is over then.
TerminalInv ==
  /\ Over => ~child.terminal
  /\ ~child.terminal => Over \/ Leaves(command)
  /\ "hup" \in ready => ~child.terminal
  /\ clw = "poll" => "hup" \notin ready
  /\ LoopLeft => "hup" \in ready

\* What a poll() that sees the hang-up does not report is empty and stays so; the read that follows
\* leaves of the others only what exceeds ReadSize.
Left(s, size) == Unread(s) <= size - ReadSize /\ (s.written <= ReadSize => Unread(s) = 0)
LastReads ==
  "hup" \in ready =>
    /\ clw \in {"in", "write", "out"} /\ "out" \notin ready => Unread(output) = 0
    /\ clw \notin {"in", "write", "out"} => Left(output, PtySize)
    /\ ~Leaves(command) =>
         /\ clw \in {"in", "write", "out", "err"} /\ "err" \notin ready => Unread(error) = 0
         /\ LoopLeft => Left(error, PipeSize)

\* Before it becomes the command, the child has recorded it; and it is over when it was waited for.
RecordInv ==
  /\ (\A n \in 1..4 : Recorded[n] \in files) \/ (child.state = "recording" /\ \A n \in 1..child.next - 1 : Recorded[n] \in files)
  /\ clw \in {"end", "importing"} => Over
  /\ clw = "importing" => "timestamp_end" \in files

HangUpInv == TerminalInv /\ LastReads /\ RecordInv

\* Nothing has hung up initially.
LEMMA HangUpInit == Init => HangUpInv
BY DEF Init, CaptureInit, HangUpInv, TerminalInv, LastReads, RecordInv, Over, LoopLeft

\* The child does not write to a terminal it has closed, and the command is the same throughout.
LEMMA ChildKeepsHangUp ==
  ASSUME CaptureTypeOK, Counted, HangUpInv, ChildStep \/ CollectFails
  PROVE  HangUpInv'
<1>1. UNCHANGED <<command, clw, ready>> /\ Leaves(command)' = Leaves(command)
  BY Zenon DEF ChildStep, CollectFails, RecordRun, Collect, ChildReads, ChildPrints, ChildWarns, ChildLeaves, ChildExits, Leaves
<1>2. ~Over
  BY DEF ChildStep, CollectFails, RecordRun, Collect, ChildReads, ChildPrints, ChildWarns, ChildLeaves, ChildExits, Over, Performs
<1>3. output' = output \/ child.terminal
  BY ChildTouches, Zenon DEF ChildStep, CollectFails, RecordRun, Collect, ChildReads, ChildWarns, ChildLeaves, ChildExits, streams
<1>4. "hup" \in ready => UNCHANGED output /\ Leaves(command)
  BY <1>2, <1>3, Zenon DEF HangUpInv, TerminalInv
<1>5. ~child'.terminal => (Over \/ Leaves(command))'
  <2>1. CASE RecordRun \/ Collect
    BY <2>1, <1>1, <1>2, ChildTerminal DEF RecordRun, Collect, HangUpInv, TerminalInv, CaptureTypeOK
  <2>2. CASE ChildReads \/ ChildPrints \/ ChildWarns
    BY <2>2, <1>1, <1>2, ChildTouches, ChildTerminal DEF HangUpInv, TerminalInv, CaptureTypeOK
  <2>3. CASE CollectFails \/ ChildExits
    BY <2>3, ChildRecord DEF CollectFails, ChildExits, Over, CaptureTypeOK
  <2>4. CASE ChildLeaves
    <3>1. command.ops[child.next] = "leave" /\ child.next \in 1..Len(command.ops) /\ command.ops \in Seq(Ops)
      BY <2>4, CommandsAssumption DEF ChildLeaves, Performs, CaptureTypeOK, ChildStates
    <3> QED BY <1>1, <3>1 DEF Leaves
  <2> QED BY <2>1, <2>2, <2>3, <2>4 DEF ChildStep
<1>6. Over' => ~child'.terminal
  <2>1. CASE RecordRun
    BY <2>1, ChildRecord DEF RecordRun, CaptureTypeOK, Over
  <2>2. CASE Collect
    BY <2>2, ChildRecord DEF Collect, CaptureTypeOK, Over
  <2>3. CASE ChildReads \/ ChildPrints \/ ChildWarns
    BY <2>3, ChildTouches, ChildRecord DEF CaptureTypeOK, Over
  <2>4. CASE CollectFails \/ ChildExits
    BY <2>4, ChildTerminal DEF CollectFails, ChildExits, CaptureTypeOK
  <2>5. CASE ChildLeaves
    BY <2>5, ChildLeft DEF CaptureTypeOK
  <2> QED BY <2>1, <2>2, <2>3, <2>4, <2>5 DEF ChildStep
<1>7. ~child.terminal => ~child'.terminal
  BY ChildTerminal, ChildTouches, ChildLeft, Zenon DEF ChildStep, CollectFails, RecordRun, Collect, ChildExits, CaptureTypeOK
<1>8. TerminalInv'
  BY <1>1, <1>5, <1>6, <1>7, Zenon DEF HangUpInv, TerminalInv, LoopLeft
<1>9. LastReads'
  BY <1>1, <1>4, Zenon DEF HangUpInv, LastReads, Left, Unread, LoopLeft
<1>10. RecordInv'
  <2>1. clw \notin {"end", "importing"}
    BY <1>2 DEF HangUpInv, RecordInv
  <2>2. CASE RecordRun
    <3>1. files' = files \union {Recorded[child.next]} /\ child.next \in 1..4 /\ child.state = "recording" /\ Len(Recorded) = 4
      BY <2>2 DEF RecordRun, Counted, CaptureTypeOK, ChildStates, Recorded
    <3>2. \A n \in 1..child.next : Recorded[n] \in files'
      BY <3>1 DEF HangUpInv, RecordInv
    <3>3. CASE child.next < 4
      BY <1>1, <2>1, <2>2, <3>1, <3>2, <3>3, ChildRecord DEF RecordRun, RecordInv, CaptureTypeOK
    <3>4. CASE child.next = 4
      BY <1>1, <2>1, <3>1, <3>2, <3>4 DEF RecordInv
    <3> QED BY <3>1, <3>3, <3>4
  <2>3. CASE ~RecordRun
    <3>1. child.state # "recording" /\ files \subseteq files'
      BY <2>3 DEF ChildStep, CollectFails, Collect, ChildReads, ChildPrints, ChildWarns, ChildLeaves, ChildExits, Performs
    <3> QED BY <1>1, <2>1, <3>1 DEF HangUpInv, RecordInv
  <2> QED BY <2>2, <2>3
<1> QED BY <1>8, <1>9, <1>10 DEF HangUpInv

\* The parent reads each stream once more after a poll() that saw the hang-up.
LEMMA ParentKeepsHangUp ==
  ASSUME CaptureTypeOK, Counted, HangUpInv, ParentStep
  PROVE  HangUpInv'
<1> USE DEF HangUpInv
<1>0. UNCHANGED <<command, child>> /\ Leaves(command)' = Leaves(command) /\ Over' = Over
  BY Zenon DEF ParentStep, Poll, ReadInput, ForwardInput, InputForwarded, ForwardOutput, ForwardError, WaitForChild, Finish,
     Leaves, Over
<1>1. CASE Poll
  <2>1. clw = "poll" /\ clw' = "in" /\ UNCHANGED <<output, error, files>>
    BY <1>1, Zenon DEF Poll, streams
  <2>2. /\ "hup" \in ready' <=> ~child.terminal
        /\ "out" \notin ready' => ~(Unread(output) > 0)
        /\ "err" \notin ready' => ~(Unread(error) > 0)
    BY <1>1 DEF Poll
  <2>3. Unread(output) \in Nat /\ Unread(error) \in Nat
    BY DEF CaptureTypeOK, Counted, Stream, Unread
  <2>4. TerminalInv'
    BY <1>0, <2>1, <2>2, Zenon DEF TerminalInv, LoopLeft
  <2>5. ("out" \notin ready' => Unread(output) = 0) /\ ("err" \notin ready' => Unread(error) = 0)
    BY <2>2, <2>3
  <2>6. LastReads'
    BY <1>0, <2>1, <2>5 DEF LastReads, LoopLeft, Unread
  <2> QED BY <1>0, <2>1, <2>4, <2>6 DEF RecordInv
<1>2. CASE ReadInput \/ ForwardInput \/ InputForwarded
  <2>1. UNCHANGED <<ready, output, error, files>> /\ clw \in {"in", "write"} /\ clw' \in {"in", "write", "out"}
    BY <1>2, Zenon DEF ReadInput, ForwardInput, InputForwarded, streams
  <2>2. TerminalInv'
    BY <1>0, <2>1 DEF TerminalInv, LoopLeft
  <2>3. LastReads'
    BY <1>0, <2>1 DEF LastReads, LoopLeft, Unread
  <2> QED BY <1>0, <2>1, <2>2, <2>3 DEF RecordInv
<1>3. CASE ForwardOutput
  <2>1. UNCHANGED <<ready, error, files>> /\ clw = "out" /\ clw' = "err"
    BY <1>3, Zenon DEF ForwardOutput
  <2>2. output' = IF "out" \in ready THEN Take(output) ELSE output
    BY <1>3 DEF ForwardOutput
  <2>3. "hup" \in ready => Left(output', PtySize)
    <3>1. CASE "out" \in ready
      BY <2>2, <3>1, TakeCounts, SizesAssumption DEF Left, Counted, CaptureTypeOK, Unread, Stream
    <3>2. CASE "out" \notin ready
      BY <2>1, <2>2, <3>2, SizesAssumption DEF Left, LastReads
    <3> QED BY <3>1, <3>2
  <2>4. TerminalInv'
    BY <1>0, <2>1 DEF TerminalInv, LoopLeft
  <2>5. LastReads'
    BY <1>0, <2>1, <2>3 DEF LastReads, LoopLeft, Unread, Left
  <2> QED BY <1>0, <2>1, <2>4, <2>5 DEF RecordInv
<1>4. CASE ForwardError
  <2>1. UNCHANGED <<ready, output, files>> /\ clw = "err" /\ clw' = IF "hup" \in ready THEN "wait" ELSE "poll"
    BY <1>4, Zenon DEF ForwardError
  <2>2. error' = IF "err" \in ready THEN Take(error) ELSE error
    BY <1>4 DEF ForwardError
  <2>3. "hup" \in ready /\ ~Leaves(command) => Left(error', PipeSize)
    <3>1. CASE "err" \in ready
      BY <2>2, <3>1, TakeCounts, SizesAssumption DEF Left, Counted, CaptureTypeOK, Unread, Stream
    <3>2. CASE "err" \notin ready
      BY <2>1, <2>2, <3>2, SizesAssumption DEF Left, LastReads
    <3> QED BY <3>1, <3>2
  <2>4. TerminalInv'
    BY <1>0, <2>1 DEF TerminalInv, LoopLeft
  <2>5. LastReads'
    BY <1>0, <2>1, <2>3 DEF LastReads, LoopLeft, Unread, Left
  <2> QED BY <1>0, <2>1, <2>4, <2>5 DEF RecordInv
<1>5. CASE WaitForChild \/ Finish
  <2>1. UNCHANGED <<ready, output, error>> /\ LoopLeft /\ LoopLeft'
    BY <1>5, Zenon DEF WaitForChild, Finish, streams, LoopLeft
  <2>2. clw # "poll" /\ clw' \notin {"poll", "in", "write", "out", "err"} /\ clw \notin {"poll", "in", "write", "out", "err"}
    BY <2>1 DEF LoopLeft
  <2>3. TerminalInv'
    BY <1>0, <2>1, <2>2 DEF TerminalInv
  <2>4. LastReads'
    BY <1>0, <2>1, <2>2 DEF LastReads, Left, Unread
  <2>5. files \subseteq files' /\ (clw' \in {"end", "importing"} => Over) /\ (clw' = "importing" => "timestamp_end" \in files')
    BY <1>5 DEF WaitForChild, Finish, RecordInv
  <2>6. RecordInv'
    BY <1>0, <2>5 DEF RecordInv
  <2> QED BY <2>3, <2>4, <2>6
<1> QED BY <1>1, <1>2, <1>3, <1>4, <1>5 DEF ParentStep

\* The import does not disturb it.
LEMMA KeepsHangUp ==
  ASSUME CaptureTypeOK, Counted, ImportInv, HangUpInv, [Next]_vars
  PROVE  HangUpInv'
<1>1. CASE Capture
  BY <1>1, ChildKeepsHangUp, ParentKeepsHangUp DEF Capture, CaptureNext
<1>2. CASE ImporterStep \/ KidStep \/ Remove \/ ImporterFails \/ ToolFails \/ UNCHANGED vars
  <2>1. UNCHANGED <<command, ready, output, error, child, files>>
    BY <1>2, ImportLeavesCapture DEF streams, vars, cvars
  <2>2. clw' = clw \/ (clw' = "done" /\ clw = "importing")
    BY <1>2, ImportLeavesCapture, Zenon DEF ImportInv, Started, vars, cvars
  <2>3. LoopLeft' <=> LoopLeft
    BY <2>2 DEF LoopLeft
  <2>4. TerminalInv'
    BY <2>1, <2>2, <2>3, Zenon DEF HangUpInv, TerminalInv, Over, Leaves
  <2>5. LastReads'
    BY <2>1, <2>2, <2>3 DEF HangUpInv, LastReads, Left, Unread, Leaves
  <2>6. RecordInv'
    BY <2>1, <2>2 DEF HangUpInv, RecordInv, Over
  <2> QED BY <2>4, <2>5, <2>6 DEF HangUpInv
<1> QED BY <1>1, <1>2 DEF Next

-------------------------------------------------------------------------------
(* Theorems *)

\* Types and counts of the capture are kept by every step.
LEMMA KeepsCapture ==
  ASSUME CaptureTypeOK, Counted, ImportInv, [Next]_vars
  PROVE  CaptureTypeOK' /\ Counted'
<1>1. CASE Capture
  BY <1>1, ChildTypes, ParentTypes DEF Capture, CaptureNext
<1>2. CASE ImporterStep \/ KidStep \/ Remove \/ ImporterFails \/ ToolFails
  <2>1. UNCHANGED <<command, ready, holding, input, output, error, child, files, status>>
    BY <1>2, ImportLeavesCapture DEF streams
  <2>2. clw' = clw \/ (clw' = "done" /\ clw = "importing")
    BY <1>2, ImportLeavesCapture, Zenon DEF ImportInv, Started
  <2> QED BY <2>1, <2>2 DEF CaptureTypeOK, Counted, Unread
<1>3. CASE UNCHANGED vars
  BY <1>3 DEF vars, cvars, streams, CaptureTypeOK, Counted, Unread
<1> QED BY <1>1, <1>2, <1>3 DEF Next

TypeInv == CaptureTypeOK /\ Counted /\ ImportInv

\* All of the above, as an invariant of the specification
LEMMA TypeInvKept == Spec => []TypeInv
<1>1. Init => TypeInv
  BY CaptureTypesInit, ImportInit DEF TypeInv
<1>2. TypeInv /\ [Next]_vars => TypeInv'
  BY KeepsCapture, KeepsImport DEF TypeInv
<1> QED BY <1>1, <1>2, PTL DEF Spec

\* The variables of clw, of nmdb-import-clw and of the data store have their types for all commands
\* and any sizes of buffers (clw.cpp, doWork; nmdb-import-clw.cpp, runTool).
THEOREM TypeCorrect == Spec => []TypeOK
<1>1. TypeInv => TypeOK
  BY DEF TypeInv, ImportInv, TypeOK
<1> QED BY <1>1, TypeInvKept, PTL

\* The end of the streams and of the record, as an invariant of the specification
LEMMA HangUpKept == Spec => []HangUpInv
<1>1. TypeInv /\ HangUpInv /\ [Next]_vars => HangUpInv'
  BY KeepsHangUp DEF TypeInv
<1> QED BY <1>1, HangUpInit, TypeInvKept, PTL DEF Spec

\* Of what a command prints before its terminal hangs up no more is missing from the log than the
\* kernel held beyond one read, and nothing of what is short (clw.cpp, doWork: the loop over poll()).
THEOREM LogLosesOnlyTheEnd == Spec => []LostOnlyAtHangUp
<1>1. HangUpInv => LostOnlyAtHangUp
  BY DEF HangUpInv, TerminalInv, LastReads, Left, LostOnlyAtHangUp, LoopLeft
<1> QED BY <1>1, HangUpKept, PTL

\* The import only starts when the command is over and its record is complete, also if the command
\* gave its terminal away long before (clw.cpp, doWork: waitpid() and what follows).
THEOREM RecordIsFinal == Spec => []ImportedWhenOver
<1>1. HangUpInv => ImportedWhenOver
  <2> SUFFICES ASSUME HangUpInv, clw = "importing"
               PROVE  Over /\ {Recorded[n] : n \in DOMAIN Recorded} \union {"timestamp_end"} \subseteq files
    BY DEF ImportedWhenOver
  <2>1. Over /\ "timestamp_end" \in files
    BY DEF HangUpInv, RecordInv
  <2>2. \A n \in 1..4 : Recorded[n] \in files
    BY <2>1 DEF HangUpInv, RecordInv, Over
  <2>3. DOMAIN Recorded = 1..4
    BY DEF Recorded
  <2> QED BY <2>1, <2>2, <2>3
<1> QED BY <1>1, HangUpKept, PTL

\* One step of the tools on the data store
LEMMA StoreStep ==
  ASSUME ImportInv, [Next]_vars
  PROVE  [Store!StoreNext]_<<run, rows>>
<1> USE DEF ImportInv
<1>1. CASE SpecificInserts
  <2>1. rows' = rows /\ (run' = TRUE \/ run' = run)
    <3>1. run' = (run \/ tx["clw"].run) /\ rows' = rows \union tx["clw"].rows /\ tx["clw"].rows = {}
      BY <1>1, Zenon DEF SpecificInserts, Commit, Pending
    <3>2. rows' = rows
      BY <3>1
    <3>3. run \in BOOLEAN
      BY DEF ImportTypeOK
    <3> QED BY <3>1, <3>2, <3>3, Zenon
  <2> QED BY <2>1, Zenon DEF Store!StoreNext, Store!Record
<1>2. CASE CommitRows
  <2>1. kid = "commit" /\ run' = (run \/ tx["kid"].run) /\ rows' = rows \union {Part} /\ RunIsThere("kid")
    BY <1>2, Zenon DEF CommitRows, Commit, Pending
  <2>2. run' = TRUE /\ run \in BOOLEAN
    BY <2>1, Zenon DEF RunIsThere, ImportTypeOK
  <2>3. Part \in Context \union Results
    BY <2>1, PartIsPart
  <2>4. CASE Part \in rows
    <3>1. rows' = rows
      BY <2>1, <2>4
    <3> QED BY <2>2, <3>1, Zenon DEF Store!StoreNext, Store!Record
  <2>5. CASE Part \notin rows /\ Part \in Results
    BY <2>1, <2>2, <2>5, Zenon DEF Store!StoreNext, Store!AddResults
  <2>6. CASE Part \notin rows /\ Part \in Context
    <3>1. Part \notin Results
      BY <2>6 DEF Context, Results
    <3>2. run = TRUE
      BY <2>1, <2>2, <3>1, Zenon DEF Pending, RunIsThere, WithRun
    <3> QED BY <2>1, <2>2, <2>6, <3>2, Zenon DEF Store!StoreNext, Store!AddContext
  <2> QED BY <2>3, <2>4, <2>5, <2>6
<1>3. CASE Remove
  BY <1>3, Zenon DEF Remove, Store!StoreNext, Store!RemoveRun
<1>4. CASE Capture
  BY <1>4, Zenon DEF Capture, ivars
<1>5. CASE ImporterFails \/ ToolFails \/ RowsRefused
  BY <1>5, Zenon DEF ImporterFails, ToolFails, RowsRefused, Rollback
<1>6. CASE Import \/ GeneralInserts \/ StartTool \/ ToolEnded \/ Return \/ Parse \/ InsertToolRun \/ InsertRows
  BY <1>6, Zenon DEF Import, GeneralInserts, StartTool, ToolEnded, Return, Parse, InsertToolRun, InsertRows
<1>7. CASE UNCHANGED vars
  BY <1>7 DEF vars, ivars
<1> QED BY <1>1, <1>2, <1>3, <1>4, <1>5, <1>6, <1>7, Zenon DEF Next, ImporterStep, KidStep

\* clw and its import implement the promise of RunStore, whatever fails or is removed on the way:
\* a part of a tool run only becomes visible whole and while the run is recorded, and only the
\* results bring a removed run back (nmdb-import-clw.cpp, specificInserts; nmdb-remove-tool-run.cpp).
THEOREM PromiseKept == Spec => KeepsPromise
<1>1. Init => Store!StoreInit
  BY Zenon DEF Init, Store!StoreInit
<1>2. TypeInv /\ [Next]_vars => [Store!StoreNext]_<<run, rows>>
  BY StoreStep DEF TypeInv
<1> QED BY <1>1, <1>2, TypeInvKept, PTL DEF Spec, KeepsPromise, Store!StoreSpec, Store!rvars
===============================================================================
