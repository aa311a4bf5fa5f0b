------------------------------ MODULE FileImport ------------------------------
(***************************************************************************)
(* AbstractImportTool run by one tool on one file: the parser reads the    *)
(* file line by line, and only when all of it was understood does one      *)
(* transaction hand everything to the data store.  What a file may hold is *)
(* said by LinesOf(tool, read): the lines that may follow what was read.   *)
(***************************************************************************)
EXTENDS ImportTools, Datastore

CONSTANTS Run, Dev, Tools, LinesOf(_, _)

VARIABLES
  tool,         \* the program that is run
  read,         \* the lines the parser was given
  parser,       \* the members of the parser
  made,         \* the statements the tool made of what it read (history)
  db,           \* the rows of the data store
  outcome       \* "reading", "parsed" or "nothing" (to store), "stored", "aborted" or "failed"

vars == <<tool, read, parser, made, db, outcome>>

----------------------------------------------------------------------------
(* The transaction *)

\* AbstractImportTool::generalInserts; tools without a device give the name "".
GeneralInserts(t, run, dev) == <<<<"insert_tool_run", run>>>> \o SaveDevice(SetDeviceId(Device(Vendor(t)), dev), run)

\* getDeviceId: in lower case
DeviceId(t) == IF t \in Deviceless THEN "" ELSE SetDeviceId(NoDevice, Dev).id

\* The calls are made one after the other, up to one that is refused.
RECURSIVE Transaction(_, _)
Transaction(rows, calls) ==
  IF calls = <<>> THEN [db |-> rows, refused |-> FALSE]
  ELSE LET first == Execute(rows, Head(calls))
       IN  IF first.refused THEN first ELSE Transaction(first.db, Tail(calls))

\* generalInserts and specificInserts of the tool, for what its parser holds
Requests == GeneralInserts(tool, Run, DeviceId(tool)) \o Inserts(tool, parser, Run, DeviceId(tool))

----------------------------------------------------------------------------
Init ==
  /\ tool \in Tools
  /\ read = <<>>
  /\ parser = Start(tool)
  /\ made = <<>>
  /\ db = {}
  /\ outcome = "reading"

\* One more line of the file
ReadLine ==
  /\ outcome = "reading" /\ parser.mode # "failed"
  /\ \E l \in LinesOf(tool, read) :
       /\ parser' = Line(tool, parser, l)
       /\ read'   = Append(read, l)
  /\ UNCHANGED <<tool, made, db, outcome>>

\* fromFilePath: what is left over, or cut short, ends the program before it connects.
Reject ==
  /\ outcome = "reading"
  /\ parser.mode = "failed" \/ ~MayEnd(tool, parser)
  /\ outcome' = "failed"
  /\ UNCHANGED <<tool, read, parser, made, db>>

\* The file was understood: what the tool is going to ask of the data store
Parsed ==
  /\ outcome = "reading" /\ parser.mode # "failed" /\ MayEnd(tool, parser)
  /\ made' = Requests
  /\ outcome' = IF NothingRead(tool, read, parser) THEN "nothing" ELSE "parsed"
  /\ UNCHANGED <<tool, read, parser, db>>

\* AbstractImportTool::runTool after parseData.  A refused statement throws, and
\* nothing of the transaction stays; a result like the default one is not committed.
Import ==
  /\ outcome \in {"parsed", "nothing"}
  /\ \E t \in {Transaction(db, made)} :
       /\ outcome' = IF t.refused THEN "failed" ELSE IF outcome = "nothing" THEN "aborted" ELSE "stored"
       /\ db' = IF t.refused \/ outcome = "nothing" THEN db ELSE t.db
  /\ UNCHANGED <<tool, read, parser, made>>

Done == outcome \in {"stored", "aborted", "failed"} /\ UNCHANGED vars

Next == ReadLine \/ Reject \/ Parsed \/ Import \/ Done
Spec == Init /\ [][Next]_vars
================================================================================
