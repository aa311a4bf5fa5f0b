---------------------------------- MODULE Clw ----------------------------------
(***************************************************************************)
(* clw with the import it ends with.  nmdb-import-clw records the tool run *)
(* and starts one import tool after the other with its id: the context     *)
(* (--tool-run-metadata) and, after nmap or ping, the results.  Meanwhile  *)
(* somebody may run nmdb-remove-tool-run.                                  *)
(*                                                                         *)
(* The data store is PostgreSQL as these tools use it: a transaction's     *)
(* rows are seen by others once it commits; an insert of a key another     *)
(* transaction has inserted waits for its end; a row of the run needs the  *)
(* run, which it keeps from being removed until its transaction ends.      *)
(***************************************************************************)
EXTENDS ClwCapture

CONSTANTS
  MaxRemovals,  \* bound: how often the run is removed
  MayFail       \* TRUE: tools may die and the data store may refuse

ASSUME ImportAssumption == MaxRemovals \in Nat /\ MayFail \in BOOLEAN

VARIABLES
  importer,  \* nmdb-import-clw: where it is and which tool it has started
  kid,       \* where that tool is
  tx,        \* what each of the two has inserted and not committed
  run, rows, \* the data store: the tool run, and the parts of it there are
  removals   \* how often it was removed

ivars == <<importer, kid, tx, run, rows, removals>>
vars  == <<cvars, ivars>>

Context  == {"ip_addr_show", "ip4_route_show", "ip6_route_show"}
Results  == {"results"}
Procs    == {"clw", "kid"}
NoInsert == [run |-> FALSE, rows |-> {}]

ASSUME NamesAssumption == \A c \in Commands : c.name \in {"nmap", "ping", "other"}

\* The tools specificInserts starts, in order, each with the part it stores.
Kids == <<"ip_addr_show", "ip4_route_show", "ip6_route_show">> \o
        IF command.name \in {"nmap", "ping"} THEN <<"results">> ELSE <<>>
Part == Kids[importer.next]

\* Mutant: --tool-run-metadata is forgotten.
WithRunAlways(part) == TRUE

\* Tools that are started with --tool-run-metadata do not insert the tool run.
WithRun(part) == part \in Results

Init ==
  /\ CaptureInit
  /\ importer = [at |-> "none", next |-> 1] /\ kid = "none"
  /\ tx = [p \in Procs |-> NoInsert]
  /\ run = FALSE /\ rows = {} /\ removals = 0

Capture == CaptureNext /\ UNCHANGED ivars

-------------------------------------------------------------------------------
(* The data store *)

Other(p) == IF p = "clw" THEN "kid" ELSE "clw"

\* INSERT INTO tool_runs ... ON CONFLICT DO NOTHING
InsertRun(p) ==
  /\ ~tx[Other(p)].run
  /\ tx' = [tx EXCEPT ![p].run = ~run]

\* The foreign key to the tool run
RunIsThere(p)     == run \/ tx[p].run
InsertRow(p, row) == tx' = [tx EXCEPT ![p].rows = @ \union {row}]

Commit(p) ==
  /\ run' = (run \/ tx[p].run)
  /\ rows' = rows \union tx[p].rows
  /\ tx' = [tx EXCEPT ![p] = NoInsert]

Rollback(p) ==
  /\ tx' = [tx EXCEPT ![p] = NoInsert]
  /\ UNCHANGED <<run, rows>>

\* nmdb-remove-tool-run: one DELETE that cascades.  It does not see what is not committed.
Remove ==
  /\ removals < MaxRemovals /\ run
  /\ \A p \in Procs : tx[p].rows = {}
  /\ run' = FALSE /\ rows' = {}
  /\ removals' = removals + 1
  /\ UNCHANGED <<cvars, importer, kid, tx>>

-------------------------------------------------------------------------------
(* nmdb-import-clw *)

At(where) == importer' = [importer EXCEPT !.at = where]

\* clw forks nmdb-import-clw and waits for it.
Import ==
  /\ clw = "importing" /\ importer.at = "none"
  /\ At("insert")
  /\ UNCHANGED <<cvars, kid, tx, run, rows, removals>>

GeneralInserts ==
  /\ importer.at = "insert"
  /\ InsertRun("clw")
  /\ At("commit")
  /\ UNCHANGED <<cvars, kid, run, rows, removals>>

\* Mutant: the tools are started before the commit.
SpecificInsertsUncommitted ==
  /\ importer.at = "commit"
  /\ At("tools")
  /\ UNCHANGED <<cvars, kid, tx, run, rows, removals>>

\* specificInserts commits first: the tools it starts use connections of their own.
SpecificInserts ==
  /\ importer.at = "commit"
  /\ Commit("clw")
  /\ At("tools")
  /\ UNCHANGED <<cvars, kid, removals>>

StartTool ==
  /\ importer.at = "tools" /\ importer.next <= Len(Kids) /\ kid = "none"
  /\ kid' = "parse"
  /\ UNCHANGED <<cvars, importer, tx, run, rows, removals>>

\* Whether a tool succeeded does not matter.
ToolEnded ==
  /\ importer.at = "tools" /\ kid = "ended"
  /\ importer' = [importer EXCEPT !.next = @ + 1]
  /\ kid' = "none"
  /\ UNCHANGED <<cvars, tx, run, rows, removals>>

\* runTool finds no results and aborts a transaction that is committed, which only is logged; clw
\* returns what waitpid() gave it, of which the system keeps one byte.
Return ==
  /\ importer.at = "tools" /\ importer.next > Len(Kids)
  /\ At("ended") /\ clw' = "done"
  /\ UNCHANGED <<command, ready, holding, streams, child, files, status, kid, tx, run, rows, removals>>

\* nmdb-import-clw dies, or the data store refuses its insert.
ImporterFails ==
  /\ MayFail /\ importer.at \in {"insert", "commit"}
  /\ Rollback("clw")
  /\ At("ended") /\ clw' = "done"
  /\ UNCHANGED <<command, ready, holding, streams, child, files, status, kid, removals>>

-------------------------------------------------------------------------------
(* The tool it has started *)

\* What the tool reads: a file clw made, the log of the output, or a file the command made.
Readable(part) == part \in Results \/ part \in files

Parse ==
  /\ kid = "parse"
  /\ kid' = IF ~Readable(Part) THEN "ended" ELSE IF WithRun(Part) THEN "insert run" ELSE "insert"
  /\ UNCHANGED <<cvars, importer, tx, run, rows, removals>>

InsertToolRun ==
  /\ kid = "insert run"
  /\ InsertRun("kid")
  /\ kid' = "insert"
  /\ UNCHANGED <<cvars, importer, run, rows, removals>>

InsertRows ==
  /\ kid = "insert" /\ RunIsThere("kid")
  /\ InsertRow("kid", Part)
  /\ kid' = "commit"
  /\ UNCHANGED <<cvars, importer, run, rows, removals>>

\* The run is not there any more.
RowsRefused ==
  /\ kid = "insert" /\ ~RunIsThere("kid")
  /\ Rollback("kid")
  /\ kid' = "ended"
  /\ UNCHANGED <<cvars, importer, removals>>

CommitRows ==
  /\ kid = "commit"
  /\ Commit("kid")
  /\ kid' = "ended"
  /\ UNCHANGED <<cvars, importer, removals>>

\* The tool dies, its data cannot be parsed or hold nothing, or the data store refuses them.
ToolFails ==
  /\ MayFail /\ kid \in {"parse", "insert run", "insert", "commit"}
  /\ Rollback("kid")
  /\ kid' = "ended"
  /\ UNCHANGED <<cvars, importer, removals>>

ImporterStep == Import \/ GeneralInserts \/ SpecificInserts \/ StartTool \/ ToolEnded \/ Return
KidStep      == Parse \/ InsertToolRun \/ InsertRows \/ RowsRefused \/ CommitRows

Next == Capture \/ ImporterStep \/ KidStep \/ Remove \/ ImporterFails \/ ToolFails

Spec == Init /\ [][Next]_vars

\* The system schedules every process; nobody has to fail or to remove anything.
FairSpec ==
  /\ Spec
  /\ WF_vars(ChildStep /\ UNCHANGED ivars) /\ WF_vars(ParentStep /\ UNCHANGED ivars)
  /\ WF_vars(ImporterStep) /\ WF_vars(KidStep)

-------------------------------------------------------------------------------
(* Properties *)

Inserts == [run : BOOLEAN, rows : SUBSET (Context \union Results)]

ImportTypeOK ==
  /\ importer \in [at : {"none", "insert", "commit", "tools", "ended"}, next : Nat \ {0}]
  /\ kid \in {"none", "parse", "insert run", "insert", "commit", "ended"}
  /\ tx \in [Procs -> Inserts]
  /\ run \in BOOLEAN /\ rows \subseteq Context \union Results
  /\ removals \in Nat

\* Types, of the capture and of the import
TypeOK == CaptureTypeOK /\ ImportTypeOK

LoopLeft == clw \in {"wait", "end", "importing", "done"}
Leaves(c) == \E n \in DOMAIN c.ops : c.ops[n] = "leave"

\* The loop forwards and logs for as long as the command has its terminal, and reads each stream
\* once more when the terminal has hung up (clw.cpp, doWork).  So of the output no more is missing
\* from the log than the terminal holds beyond one read, of the errors no more than the pipe does,
\* and nothing of a command that prints less than that and ends.
LostOnlyAtHangUp ==
  LoopLeft =>
    /\ ~child.terminal
    /\ Unread(output) <= PtySize - ReadSize
    /\ output.written <= ReadSize => Unread(output) = 0
    /\ ~Leaves(command) => Unread(error) <= PipeSize - ReadSize
    /\ ~Leaves(command) /\ error.written <= ReadSize => Unread(error) = 0

\* What is imported is final: a command may close its terminal long before it ends, and then the
\* parent has to wait for it before it ends the record and starts the import (clw.cpp, doWork).
ImportedWhenOver ==
  clw = "importing" =>
    Over /\ {Recorded[n] : n \in DOMAIN Recorded} \union {"timestamp_end"} \subseteq files

\* The child's reads are of what was typed, the terminal can hold all of that, and after closing
\* the terminal the child writes no more errors than the pipe can hold.
CountOf(c, op)    == Len(SelectSeq(c.ops, LAMBDA o : o = op))
ErrorsLeft(c, n)  == Len(SelectSeq(SubSeq(c.ops, n, Len(c.ops)), LAMBDA o : o = "err"))
Harmless(c) ==
  /\ CountOf(c, "in") <= c.typed /\ c.typed <= PtySize
  /\ Leaves(c) => CountOf(c, "err") <= PipeSize

\* clw ends when its command does.  Two processes and two buffers wait on each other, then three
\* processes on the data store: the import tools would wait for ever for a tool run that
\* nmdb-import-clw inserted and did not commit (nmdb-import-clw.cpp, specificInserts).  A command
\* that is not harmless may stop clw: see the README.
EndsWithCommand == Harmless(command) => <>(clw = "done")

\* Whatever fails, is removed or dies on the way, the data store keeps RunStore's promise.
Store == INSTANCE RunStore WITH recorded <- run, parts <- rows
KeepsPromise == Store!StoreSpec
===============================================================================
