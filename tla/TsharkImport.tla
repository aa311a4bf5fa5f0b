---------------------------- MODULE TsharkImport ----------------------------
(***************************************************************************)
(* nmdb-import-tshark: a parser thread (std::async) pushes one result per  *)
(* packet into the DataContainerSingleton, a ThreadSafeQueue, while the    *)
(* main thread drains it and commits one transaction per result.  With a   *)
(* file the main thread first waits for the parser; with --pipe the two    *)
(* run together until the stream ends.                                     *)
(*                                                                         *)
(* A packet is its number in the input.  Times are counted in packets      *)
(* read: executionStop = n means "taken when n packets had been read".     *)
(***************************************************************************)
EXTENDS Naturals, Sequences, SequencesExt

CONSTANTS
  Modes,       \* subset of {"file", "pipe"}: how the input is given
  Metadata,    \* subset of BOOLEAN: whether --tool-run-metadata is given
  Endings,     \* subset of {"complete", "abrupt", "trailing"}
  MaxPackets,  \* bound: how many packets the input has at most
  MayFail      \* TRUE: the data store may fail and signals may arrive

ASSUME TsharkAssumption ==
  /\ Modes \subseteq {"file", "pipe"}
  /\ Metadata \subseteq BOOLEAN
  /\ Endings \subseteq {"complete", "abrupt", "trailing"}
  /\ MaxPackets \in Nat /\ MayFail \in BOOLEAN

VARIABLES
  mode, metadata,  \* the command line
  pc,              \* where the main thread is, or how the process ended
  parser,          \* "none", "running", "returned" or "threw"
  valid,           \* parser.valid(): the future still has its shared state
  sigint,          \* "default" or "once": what SIGINT does
  read,            \* packets read so far
  seen,            \* those that processPacket could use
  data,            \* the queue of DataContainerSingleton
  cnt,             \* getData: results still to take
  resultsv,        \* results taken, not yet saved
  executionStop,   \* the member of that name
  toolRun,         \* the tool_runs entry is committed
  stopTime,        \* its stop time
  saved            \* results committed

parsing == <<parser, read, seen>>
db      == <<toolRun, stopTime, saved>>
vars    == <<mode, metadata, pc, parsing, valid, sigint, data, cnt,
             resultsv, executionStop, db>>

Ended == {"ok", "failed", "killed"}
Up    == pc \notin Ended

Init ==
  /\ mode \in Modes /\ metadata \in Metadata
  /\ pc = "start"
  /\ parser = "none" /\ valid = FALSE /\ sigint = "default"
  /\ read = 0 /\ seen = <<>> /\ data = <<>>
  /\ cnt = 0 /\ resultsv = <<>>
  /\ executionStop = 0
  /\ toolRun = FALSE /\ stopTime = 0 /\ saved = <<>>

-----------------------------------------------------------------------------
(* The parser thread.                                                      *)

\* One packet; processPacket inserts its data when there is any to use.
ParsePacket ==
  /\ Up /\ parser = "running" /\ read < MaxPackets
  /\ read' = read + 1
  /\ \/ seen' = Append(seen, read') /\ data' = Append(data, read')
     \/ UNCHANGED <<seen, data>>
  /\ UNCHANGED <<mode, metadata, pc, parser, valid, sigint, cnt, resultsv,
                 executionStop, db>>

\* The end of the packet array is also the end of the input.
ParserReturns ==
  /\ Up /\ parser = "running" /\ "complete" \in Endings
  /\ parser' = "returned"
  /\ UNCHANGED <<mode, metadata, pc, read, seen, valid, sigint, data, cnt,
                 resultsv, executionStop, db>>

\* The input stops inside the array, or a value cannot be converted.  With
\* --pipe the exception is caught in the thread ("Partial save").
ParserThrows ==
  /\ Up /\ parser = "running" /\ "abrupt" \in Endings
  /\ parser' = IF mode = "pipe" THEN "returned" ELSE "threw"
  /\ UNCHANGED <<mode, metadata, pc, read, seen, valid, sigint, data, cnt,
                 resultsv, executionStop, db>>

\* Something follows the packet array: std::exit in the parser thread.
ParserExits ==
  /\ Up /\ parser = "running" /\ "trailing" \in Endings
  /\ pc' = "failed"
  /\ UNCHANGED <<mode, metadata, parsing, valid, sigint, data, cnt,
                 resultsv, executionStop, db>>

-----------------------------------------------------------------------------
(* The main thread.                                                        *)

StartParser ==
  /\ pc = "start"
  /\ pc' = "parse"
  /\ parser' = "running" /\ valid' = TRUE
  /\ sigint' = IF mode = "pipe" THEN "once" ELSE sigint
  /\ UNCHANGED <<mode, metadata, read, seen, data, cnt, resultsv,
                 executionStop, db>>

\* Mutant: a file is not waited for either.
ParseDataNoWait ==
  /\ pc = "parse"
  /\ pc' = "insert"
  /\ executionStop' = read
  /\ UNCHANGED <<mode, metadata, parsing, valid, sigint, data, cnt,
                 resultsv, db>>

\* The rest of parseData: parser.get() for a file, which passes on what the
\* parser threw; then the stop time is taken.
ParseData ==
  /\ pc = "parse"
  /\ mode = "file" => parser # "running"
  /\ IF parser = "threw"
     THEN pc' = "failed" /\ UNCHANGED executionStop
     ELSE pc' = "insert" /\ executionStop' = read
  /\ valid' = (mode = "pipe")
  /\ UNCHANGED <<mode, metadata, parsing, sigint, data, cnt, resultsv, db>>

\* Mutant: the first transaction stays open.
InsertsUncommitted ==
  /\ pc = "insert"
  /\ pc' = IF metadata THEN "leave" ELSE "connect"
  /\ UNCHANGED <<mode, metadata, parsing, valid, sigint, data, cnt,
                 resultsv, executionStop, db>>

\* runTool's transaction: generalInserts, committed by specificInserts; with
\* --tool-run-metadata there is nothing to insert and it is aborted.
Inserts ==
  /\ pc = "insert"
  /\ pc' = IF metadata THEN "leave" ELSE "connect"
  /\ IF metadata THEN UNCHANGED <<toolRun, stopTime>>
     ELSE toolRun' = TRUE /\ stopTime' = executionStop
  /\ UNCHANGED <<mode, metadata, parsing, valid, sigint, data, cnt,
                 resultsv, executionStop, saved>>

\* The second connection, for the transactions of the loop.
Connect ==
  /\ pc = "connect"
  /\ pc' = "loop"
  /\ UNCHANGED <<mode, metadata, parsing, valid, sigint, data, cnt,
                 resultsv, executionStop, db>>

\* The top of specificInserts' loop: sleep or call getData.
HasData ==
  /\ pc = "loop"
  /\ pc' = IF data = <<>> THEN "wait" ELSE "count"
  /\ UNCHANGED <<mode, metadata, parsing, valid, sigint, data, cnt,
                 resultsv, executionStop, db>>

\* getData: the size is read once, ...
CountData ==
  /\ pc = "count"
  /\ pc' = "take" /\ cnt' = Len(data)
  /\ UNCHANGED <<mode, metadata, parsing, valid, sigint, data,
                 resultsv, executionStop, db>>

\* Mutants: one result too many; front() without pop().
TakeDataOffByOne ==
  /\ pc = "take"
  /\ IF cnt >= 0 /\ data # <<>>
     THEN /\ resultsv' = Append(resultsv, Head(data))
          /\ data' = Tail(data)
          /\ cnt' = cnt - 1
          /\ UNCHANGED pc
     ELSE pc' = "save" /\ UNCHANGED <<data, cnt, resultsv>>
  /\ UNCHANGED <<mode, metadata, parsing, valid, sigint, executionStop, db>>

TakeDataNoPop ==
  /\ pc = "take"
  /\ IF cnt > 0 /\ data # <<>>
     THEN /\ resultsv' = Append(resultsv, Head(data))
          /\ cnt' = cnt - 1
          /\ UNCHANGED pc
     ELSE pc' = "save" /\ UNCHANGED <<cnt, resultsv>>
  /\ UNCHANGED <<mode, metadata, parsing, valid, sigint, data,
                 executionStop, db>>

\* ... and as many results are taken, while the parser may push more.
TakeData ==
  /\ pc = "take"
  /\ IF cnt > 0 /\ data # <<>>
     THEN /\ resultsv' = Append(resultsv, Head(data))
          /\ data' = Tail(data)
          /\ cnt' = cnt - 1
          /\ UNCHANGED pc
     ELSE pc' = "save" /\ UNCHANGED <<data, cnt, resultsv>>
  /\ UNCHANGED <<mode, metadata, parsing, valid, sigint, executionStop, db>>

\* One result, one transaction.
SaveResult ==
  /\ pc = "save"
  /\ IF resultsv # <<>>
     THEN /\ saved' = Append(saved, Head(resultsv))
          /\ resultsv' = Tail(resultsv)
          /\ UNCHANGED pc
     ELSE pc' = "wait" /\ UNCHANGED <<saved, resultsv>>
  /\ UNCHANGED <<mode, metadata, parsing, valid, sigint, data, cnt,
                 executionStop, toolRun, stopTime>>

\* Mutants: the future is never used up; the entry is not updated; wait()
\* instead of wait_for().
WaitForParserKeepsFuture ==
  /\ pc = "wait"
  /\ pc' = "check"
  /\ IF valid /\ parser # "running"
     THEN executionStop' = read /\ stopTime' = executionStop'
     ELSE UNCHANGED <<executionStop, stopTime>>
  /\ UNCHANGED <<mode, metadata, parsing, valid, sigint, data, cnt, resultsv,
                 toolRun, saved>>

WaitForParserNoUpdate ==
  /\ pc = "wait"
  /\ pc' = "check"
  /\ valid' = (valid /\ parser = "running")
  /\ UNCHANGED <<mode, metadata, parsing, sigint, data, cnt, resultsv,
                 executionStop, db>>

WaitForParserBlocks ==
  /\ pc = "wait"
  /\ pc' = "check"
  /\ valid => parser # "running"
  /\ valid' = FALSE
  /\ executionStop' = read /\ stopTime' = read
  /\ UNCHANGED <<mode, metadata, parsing, sigint, data, cnt, resultsv,
                 toolRun, saved>>

\* wait_for: once the parser has returned, the stop time is written and the
\* future is used up.
WaitForParser ==
  /\ pc = "wait"
  /\ pc' = "check"
  /\ IF valid /\ parser # "running"
     THEN /\ executionStop' = read /\ stopTime' = executionStop'
          /\ valid' = FALSE
     ELSE UNCHANGED <<executionStop, stopTime, valid>>
  /\ UNCHANGED <<mode, metadata, parsing, sigint, data, cnt, resultsv,
                 toolRun, saved>>

\* Mutant: the queue is not looked at again.
CheckDoneStale ==
  /\ pc = "check"
  /\ pc' = IF ~valid THEN "ok" ELSE "loop"
  /\ UNCHANGED <<mode, metadata, parsing, valid, sigint, data, cnt,
                 resultsv, executionStop, db>>

CheckDone ==
  /\ pc = "check"
  /\ pc' = IF ~valid /\ data = <<>> THEN "ok" ELSE "loop"
  /\ UNCHANGED <<mode, metadata, parsing, valid, sigint, data, cnt,
                 resultsv, executionStop, db>>

\* main returns; the destructor of a future that still has its state waits
\* for the parser.
Leave ==
  /\ pc = "leave"
  /\ valid => parser # "running"
  /\ pc' = "ok"
  /\ UNCHANGED <<mode, metadata, parsing, valid, sigint, data, cnt,
                 resultsv, executionStop, db>>

-----------------------------------------------------------------------------
(* The environment.                                                        *)

\* A connection or a statement fails: the exception reaches
\* AbstractTool::start, which calls std::exit.
DataStoreFails ==
  /\ MayFail
  /\ \/ pc \in {"insert", "connect"}
     \/ pc = "save" /\ resultsv # <<>>
     \/ pc = "wait" /\ valid /\ parser # "running"
  /\ pc' = "failed"
  /\ UNCHANGED <<mode, metadata, parsing, valid, sigint, data, cnt,
                 resultsv, executionStop, db>>

\* SIGINT: the first one is for tshark and only restores the default.
Interrupt ==
  /\ MayFail /\ Up
  /\ IF sigint = "once" THEN UNCHANGED pc ELSE pc' = "killed"
  /\ sigint' = "default"
  /\ UNCHANGED <<mode, metadata, parsing, valid, data, cnt, resultsv,
                 executionStop, db>>

Exited == ~Up /\ UNCHANGED vars

ParserEnds == ParserReturns \/ ParserThrows \/ ParserExits

MainStep ==
  \/ StartParser \/ ParseData \/ Inserts \/ Connect \/ HasData \/ CountData
  \/ TakeData \/ SaveResult \/ WaitForParser \/ CheckDone \/ Leave

Next ==
  \/ ParsePacket \/ ParserEnds \/ MainStep
  \/ DataStoreFails \/ Interrupt \/ Exited

Spec == Init /\ [][Next]_vars

\* The main thread is scheduled; a live stream need not end.
LiveSpec == Spec /\ WF_vars(MainStep)

-----------------------------------------------------------------------------
(* Properties.                                                             *)

\* Type invariant.
TypeOK ==
  /\ mode \in Modes /\ metadata \in Metadata
  /\ pc \in {"start", "parse", "insert", "connect", "loop", "count", "take",
             "save", "wait", "check", "leave"} \cup Ended
  /\ parser \in {"none", "running", "returned", "threw"}
  /\ valid \in BOOLEAN /\ sigint \in {"default", "once"}
  /\ read \in Nat /\ cnt \in Nat
  /\ executionStop \in Nat /\ stopTime \in Nat
  /\ seen \in Seq(Nat) /\ data \in Seq(Nat)
  /\ resultsv \in Seq(Nat) /\ saved \in Seq(Nat)
  /\ toolRun \in BOOLEAN

\* Whatever the interleaving of pushes and pops, every usable packet is in
\* exactly one place, and in the order of the capture: saved, taken, queued.
NothingLost == saved \o resultsv \o data = seen

\* Success means that every usable packet was stored, although the loop
\* looks at the future and at the queue at different times.
SuccessStoresAll == pc = "ok" /\ ~metadata => saved = seen

\* The stop time of a successful import was taken after the last packet was
\* read, also for a stream whose entry was written before it ended.
StopTimeIsFinal == pc = "ok" /\ ~metadata => stopTime = read

\* A file that cannot be parsed to its end leaves nothing in the data store.
BadFileLeavesNoTrace ==
  mode = "file" /\ (parser = "threw" \/ parser = "running") =>
    ~toolRun /\ saved = <<>>

\* A packet that was pushed is stored at some time unless the process ends,
\* even when the stream goes on for ever.
StoredInRealTime ==
  mode = "pipe" /\ ~metadata =>
    \A p \in 1..MaxPackets :
      p \in ToSet(seen) ~> (p \in ToSet(saved) \/ ~Up)

\* The tool ends once the parser has: no thread waits for the other, and
\* the future is used up at some time.
EndsWithInput == parser \in {"returned", "threw"} ~> ~Up

\* The promise of Ingest.
Outcome == IF Up THEN "running" ELSE IF pc = "ok" THEN "ok" ELSE "failed"

Promise == INSTANCE Ingest WITH
  Records <- 1..MaxPackets, arrived <- seen,
  ended <- parser \in {"returned", "threw"},
  registered <- toolRun, stored <- saved, outcome <- Outcome

\* nmdb-import-tshark keeps the promise of a streaming importer.
KeepsPromise == Promise!IngestSpec
=============================================================================
