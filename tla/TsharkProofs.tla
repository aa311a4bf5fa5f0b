---------------------------- MODULE TsharkProofs ----------------------------
(***************************************************************************)
(* Proofs about nmdb-import-tshark, for inputs of any length: the type     *)
(* invariant, that the queue between the two threads neither loses nor     *)
(* repeats nor reorders a packet, what success means, and that the tool    *)
(* implements the promise of module Ingest.                                *)
(***************************************************************************)
EXTENDS TsharkImport, SequenceTheorems, TLAPS

-----------------------------------------------------------------------------
(* Sequences.                                                              *)

\* Taking the head off one sequence and appending it to the one before it
\* leaves their concatenation alone.
LEMMA MoveHead ==
  ASSUME NEW s \in Seq(Nat), NEW t \in Seq(Nat), t # <<>>
  PROVE  /\ Head(t) \in Nat /\ Tail(t) \in Seq(Nat)
         /\ Append(s, Head(t)) \in Seq(Nat)
         /\ Append(s, Head(t)) \o Tail(t) = s \o t
<1> DEFINE h == Head(t)
           one == <<h>>
<1>1. h \in Nat /\ Tail(t) \in Seq(Nat)
  BY HeadTailProperties
<1>2. one \in Seq(Nat) /\ Append(s, h) = s \o one /\ Append(s, h) \in Seq(Nat)
  BY <1>1, AppendIsConcat, AppendProperties
<1>3. one \o Tail(t) = t
  <2>1. one \o Tail(t) \in Seq(Nat)
    BY <1>1, <1>2, ConcatProperties
  <2>2. Len(one) = 1 /\ one[1] = h
    OBVIOUS
  <2>3. Len(one \o Tail(t)) = Len(t)
    BY <1>1, <1>2, <2>2, ConcatProperties, HeadTailProperties, LenProperties
  <2>4. ASSUME NEW i \in 1..Len(t) PROVE (one \o Tail(t))[i] = t[i]
    <3>1. CASE i = 1
      BY <3>1, <1>1, <1>2, <2>2, <2>3, ConcatProperties, LenProperties
    <3>2. CASE i # 1
      BY <3>2, <1>1, <1>2, <2>2, <2>3, ConcatProperties, LenProperties,
         HeadTailProperties
    <3> QED BY <3>1, <3>2
  <2> QED BY <2>1, <2>3, <2>4, SeqEqual
<1>4. (s \o one) \o Tail(t) = s \o (one \o Tail(t))
  BY <1>1, <1>2, ConcatAssociative
<1> QED BY <1>1, <1>2, <1>3, <1>4

\* Concatenation of packet sequences is associative.
LEMMA Associative ==
  \A s, t, u \in Seq(Nat) : (s \o t) \o u = s \o (t \o u)
BY ConcatAssociative

\* The same behind a third sequence.
LEMMA MoveHeadBehind ==
  ASSUME NEW s \in Seq(Nat), NEW t \in Seq(Nat), NEW u \in Seq(Nat), u # <<>>
  PROVE  (s \o Append(t, Head(u))) \o Tail(u) = (s \o t) \o u
<1>1. PICK a \in Seq(Nat) : a = Append(t, Head(u))
  BY MoveHead
<1>2. PICK b \in Seq(Nat) : b = Tail(u)
  BY MoveHead
<1>3. a \o b = t \o u
  BY <1>1, <1>2, MoveHead
<1>4. (s \o a) \o b = s \o (a \o b)
  BY Associative, Zenon
<1>5. (s \o t) \o u = s \o (t \o u)
  BY Associative, Zenon
<1>6. (s \o a) \o b = (s \o t) \o u
  BY <1>3, <1>4, <1>5
<1> QED BY <1>1, <1>2, <1>6

\* Where the head of a middle sequence is in the whole.
LEMMA HeadInConcat ==
  ASSUME NEW s \in Seq(Nat), NEW t \in Seq(Nat), NEW u \in Seq(Nat), t # <<>>
  PROVE  /\ Len(s) < Len((s \o t) \o u)
         /\ Head(t) = ((s \o t) \o u)[Len(s) + 1]
<1>1. PICK f \in Seq(Nat) : f = s \o t
  BY ConcatProperties
<1>2. Len(s) \in Nat /\ Len(t) \in Nat /\ Len(u) \in Nat /\ Len(f) \in Nat
  BY LenProperties
<1>3. Len(t) >= 1 /\ Head(t) = t[1]
  BY <1>2, HeadTailProperties, EmptySeq
<1>4. Len(f) = Len(s) + Len(t) /\ f[Len(s) + 1] = t[1]
  BY <1>1, <1>2, <1>3, ConcatProperties
<1>5. /\ Len(f \o u) = Len(f) + Len(u)
      /\ \A i \in 1 .. Len(f) + Len(u) :
           (f \o u)[i] = IF i <= Len(f) THEN f[i] ELSE u[i - Len(f)]
  BY ConcatProperties
<1>6. Len(s) + 1 \in 1 .. Len(f) + Len(u) /\ Len(s) + 1 <= Len(f)
  BY <1>2, <1>3, <1>4
<1>7. (f \o u)[Len(s) + 1] = f[Len(s) + 1]
  BY <1>5, <1>6
<1>8. Len(s) < Len(f \o u)
  BY <1>2, <1>3, <1>4, <1>5
<1> QED BY <1>1, <1>3, <1>4, <1>7, <1>8

\* Appending to the last of two sequences appends to both.
LEMMA AppendConcat ==
  ASSUME NEW s \in Seq(Nat), NEW t \in Seq(Nat), NEW e \in Nat
  PROVE  /\ s \o t \in Seq(Nat)
         /\ s \o Append(t, e) = Append(s \o t, e)
<1>1. s \o t \in Seq(Nat) /\ <<e>> \in Seq(Nat)
  BY ConcatProperties
<1>2. /\ Append(t, e) = t \o <<e>>
      /\ Append(s \o t, e) = (s \o t) \o <<e>>
  BY <1>1, AppendIsConcat
<1> QED BY <1>1, <1>2, ConcatAssociative

-----------------------------------------------------------------------------
(* The type invariant.                                                     *)

\* Every variable keeps its type, whatever the input and the failures.
THEOREM TypeCorrect == Spec => []TypeOK
<1>1. Init => TypeOK
  <2> SUFFICES ASSUME Init PROVE TypeOK
    OBVIOUS
  <2>1. <<>> \in Seq(Nat)
    BY EmptySeq
  <2> QED BY <2>1, Zenon DEF Init, TypeOK, Ended
<1>2. TypeOK /\ [Next]_vars => TypeOK'
  <2> SUFFICES ASSUME TypeOK, [Next]_vars PROVE TypeOK'
    OBVIOUS
  <2> USE DEF TypeOK, Ended, parsing, db
  <2>1. CASE ParsePacket
    <3>1. read' \in Nat BY <2>1 DEF ParsePacket
    <3>2. Append(seen, read') \in Seq(Nat) /\ Append(data, read') \in Seq(Nat)
      BY <3>1, AppendProperties
    <3> QED BY <2>1, <3>1, <3>2 DEF ParsePacket
  <2>2. CASE ParserEnds
    BY <2>2 DEF ParserEnds, ParserReturns, ParserThrows, ParserExits
  <2>3. CASE StartParser BY <2>3 DEF StartParser
  <2>4. CASE ParseData BY <2>4 DEF ParseData
  <2>5. CASE Inserts BY <2>5 DEF Inserts
  <2>6. CASE HasData \/ Connect BY <2>6 DEF HasData, Connect
  <2>7. CASE CountData BY <2>7 DEF CountData
  <2>8. CASE TakeData
    <3>1. data' \in Seq(Nat) /\ resultsv' \in Seq(Nat)
      BY <2>8, MoveHead DEF TakeData
    <3>2. cnt' \in Nat BY <2>8 DEF TakeData
    <3> QED BY <2>8, <3>1, <3>2 DEF TakeData
  <2>9. CASE SaveResult
    <3>1. saved' \in Seq(Nat) /\ resultsv' \in Seq(Nat)
      BY <2>9, MoveHead DEF SaveResult
    <3> QED BY <2>9, <3>1 DEF SaveResult
  <2>10. CASE WaitForParser BY <2>10 DEF WaitForParser
  <2>11. CASE CheckDone BY <2>11 DEF CheckDone
  <2>12. CASE Leave BY <2>12 DEF Leave
  <2>13. CASE DataStoreFails BY <2>13 DEF DataStoreFails
  <2>14. CASE Interrupt BY <2>14 DEF Interrupt
  <2>15. CASE UNCHANGED vars BY <2>15 DEF vars
  <2> QED
    BY <2>1, <2>2, <2>3, <2>4, <2>5, <2>6, <2>7, <2>8, <2>9, <2>10, <2>11,
       <2>12, <2>13, <2>14, <2>15 DEF Next, MainStep, Exited
<1> QED BY <1>1, <1>2, PTL DEF Spec

-----------------------------------------------------------------------------
(* The inductive invariant: what the position of the main thread says about *)
(* the parser, the future, the results taken and the data store.            *)

Before == {"start", "parse", "insert"}
InLoop == {"connect", "loop", "count", "take", "save", "wait", "check"}

\* The parser has been started, and has returned when its future is used up.
ParserPart ==
  /\ pc = "start" => parser = "none"
  /\ pc = "parse" => parser # "none"
  /\ pc \in {"insert", "leave"} \cup InLoop =>
       /\ parser \in {"running", "returned"}
       /\ ~valid => parser = "returned"
       /\ mode = "file" => ~valid
  /\ mode = "pipe" => parser # "threw"

\* What is in the data store, and the results taken but not yet saved.
StorePart ==
  /\ pc \in Before \cup {"leave"} =>
       ~toolRun /\ saved = <<>> /\ resultsv = <<>>
  /\ pc \in InLoop => toolRun
  /\ pc \in InLoop \ {"take", "save"} => resultsv = <<>>
  /\ pc = "leave" => metadata
  /\ ~toolRun => saved = <<>>
  /\ toolRun => ~metadata /\ (mode = "file" => parser = "returned")

\* The stop time, once the future is used up.
TimePart ==
  /\ pc = "insert" /\ ~valid => executionStop = read
  /\ pc \in InLoop /\ ~valid => stopTime = read

\* A process that ended with success.
OkPart ==
  pc = "ok" =>
    /\ parser = "returned"
    /\ metadata <=> ~toolRun
    /\ ~metadata => resultsv = <<>> /\ data = <<>> /\ stopTime = read

Control == ParserPart /\ StorePart /\ TimePart /\ OkPart

\* Control is inductive, given the types.
LEMMA ControlInductive ==
  TypeOK /\ Control /\ [Next]_vars => Control'
<1> SUFFICES ASSUME TypeOK, Control, [Next]_vars PROVE Control'
  OBVIOUS
<1> USE DEF Control, ParserPart, StorePart, TimePart, OkPart, TypeOK,
            Before, InLoop, Ended, Up, parsing, db
<1>1. CASE ParsePacket BY <1>1 DEF ParsePacket
<1>2. CASE StartParser BY <1>2 DEF StartParser
<1>3. CASE ParseData BY <1>3, TsharkAssumption DEF ParseData
<1>4. CASE Inserts BY <1>4 DEF Inserts
<1>5. CASE HasData \/ Connect
  <2>1. CASE HasData BY <2>1 DEF HasData
  <2>2. CASE Connect BY <2>2 DEF Connect
  <2> QED BY <1>5, <2>1, <2>2
<1>6. CASE CountData BY <1>6 DEF CountData
<1>7. CASE TakeData BY <1>7 DEF TakeData
<1>8. CASE SaveResult BY <1>8 DEF SaveResult
<1>9. CASE WaitForParser BY <1>9 DEF WaitForParser
<1>10. CASE CheckDone BY <1>10 DEF CheckDone
<1>11. CASE Leave BY <1>11 DEF Leave
<1>12. CASE DataStoreFails BY <1>12 DEF DataStoreFails
<1>13. CASE Interrupt BY <1>13 DEF Interrupt
<1>14. CASE ParserEnds
  <2>1. CASE ParserReturns BY <2>1 DEF ParserReturns
  <2>2. CASE ParserThrows
    <3>1. CASE mode = "pipe" BY <2>2, <3>1 DEF ParserThrows
    <3>2. CASE mode = "file" BY <2>2, <3>2 DEF ParserThrows
    <3> QED BY <3>1, <3>2, TsharkAssumption
  <2>3. CASE ParserExits BY <2>3 DEF ParserExits
  <2> QED BY <1>14, <2>1, <2>2, <2>3 DEF ParserEnds
<1>15. CASE UNCHANGED vars BY <1>15 DEF vars
<1> QED
  BY <1>1, <1>2, <1>3, <1>4, <1>5, <1>6, <1>7, <1>8, <1>9, <1>10, <1>11,
     <1>12, <1>13, <1>14, <1>15 DEF Next, MainStep, Exited

\* Control holds at the start.
LEMMA ControlInitial == Init => Control
BY DEF Init, Control, ParserPart, StorePart, TimePart, OkPart, Before, InLoop

\* Control is an invariant.
LEMMA ControlInvariant == Spec => []Control
BY TypeCorrect, ControlInitial, ControlInductive, PTL DEF Spec

-----------------------------------------------------------------------------
(* The queue.                                                              *)

\* Every step of either thread keeps each packet in one place and in order.
LEMMA QueueInductive ==
  TypeOK /\ NothingLost /\ [Next]_vars => NothingLost'
<1> SUFFICES ASSUME TypeOK, NothingLost, [Next]_vars PROVE NothingLost'
  OBVIOUS
<1> DEFINE queues == <<saved, resultsv, data, seen>>
<1>0. /\ saved \in Seq(Nat) /\ resultsv \in Seq(Nat) /\ data \in Seq(Nat)
      /\ read \in Nat
  BY DEF TypeOK
<1>1. CASE ParsePacket
  <2>1. CASE UNCHANGED queues
    BY <2>1 DEF NothingLost
  <2>2. CASE seen' = Append(seen, read') /\ data' = Append(data, read')
    <3>1. read' \in Nat /\ UNCHANGED <<saved, resultsv>>
      BY <1>0, <1>1 DEF ParsePacket, db
    <3>2. saved \o resultsv \in Seq(Nat)
      BY <1>0, ConcatProperties
    <3>3. (saved \o resultsv) \o Append(data, read')
            = Append((saved \o resultsv) \o data, read')
      BY <1>0, <3>1, <3>2, AppendConcat
    <3> QED BY <2>2, <3>1, <3>3 DEF NothingLost
  <2> QED BY <1>1, <2>1, <2>2 DEF ParsePacket, db
<1>2. CASE TakeData
  <2>1. CASE cnt > 0 /\ data # <<>>
    <3>1. /\ resultsv' = Append(resultsv, Head(data)) /\ data' = Tail(data)
          /\ UNCHANGED <<saved, seen>>
      BY <1>2, <2>1 DEF TakeData, db, parsing
    <3>2. (saved \o Append(resultsv, Head(data))) \o Tail(data)
            = (saved \o resultsv) \o data
      BY <1>0, <2>1, MoveHeadBehind
    <3> QED BY <3>1, <3>2 DEF NothingLost
  <2>2. CASE ~(cnt > 0 /\ data # <<>>)
    BY <1>2, <2>2 DEF TakeData, db, parsing, NothingLost
  <2> QED BY <2>1, <2>2
<1>3. CASE SaveResult
  <2>1. CASE resultsv # <<>>
    <3>1. /\ saved' = Append(saved, Head(resultsv)) /\ resultsv' = Tail(resultsv)
          /\ UNCHANGED <<data, seen>>
      BY <1>3, <2>1 DEF SaveResult, parsing
    <3>2. saved' \o resultsv' = saved \o resultsv
      BY <1>0, <2>1, <3>1, MoveHead
    <3> QED BY <3>1, <3>2 DEF NothingLost
  <2>2. CASE resultsv = <<>>
    BY <1>3, <2>2 DEF SaveResult, parsing, NothingLost
  <2> QED BY <2>1, <2>2
<1>4. CASE UNCHANGED queues
  BY <1>4 DEF NothingLost
<1>5. ParsePacket \/ TakeData \/ SaveResult \/ UNCHANGED queues
  BY DEF Next, MainStep, ParserEnds, ParserReturns, ParserThrows, ParserExits,
         StartParser, ParseData, Inserts, Connect, HasData, CountData,
         WaitForParser, CheckDone, Leave, DataStoreFails, Interrupt, Exited, vars, parsing, db
<1> QED BY <1>1, <1>2, <1>3, <1>4, <1>5

\* No interleaving of the parser's pushes with the main thread's pops and
\* commits loses, repeats or reorders a packet.
THEOREM QueueSafe == Spec => []NothingLost
<1>1. Init => NothingLost
  <2> SUFFICES ASSUME Init PROVE NothingLost
    OBVIOUS
  <2>1. <<>> \in Seq(Nat)
    BY EmptySeq
  <2>2. <<>> \o <<>> \o <<>> = <<>>
    BY <2>1, ConcatEmptySeq
  <2> QED BY <2>2 DEF Init, NothingLost
<1> QED BY <1>1, TypeCorrect, QueueInductive, PTL DEF Spec

\* An import that reports success has stored every usable packet of its
\* input, in order.
THEOREM SuccessIsComplete == Spec => []SuccessStoresAll
<1>1. TypeOK /\ Control /\ NothingLost => SuccessStoresAll
  <2> SUFFICES ASSUME TypeOK, Control, NothingLost, pc = "ok", ~metadata
               PROVE  saved = seen
    BY DEF SuccessStoresAll
  <2>1. resultsv = <<>> /\ data = <<>>
    BY DEF Control, OkPart
  <2>2. saved \in Seq(Nat)
    BY DEF TypeOK
  <2>3. (saved \o <<>>) \o <<>> = saved
    BY <2>2, ConcatEmptySeq
  <2> QED BY <2>1, <2>3 DEF NothingLost
<1> QED BY <1>1, TypeCorrect, ControlInvariant, QueueSafe, PTL

\* The stop time of a successful import is that of the end of its input.
THEOREM StopTimeCorrect == Spec => []StopTimeIsFinal
<1>1. Control => StopTimeIsFinal
  BY DEF Control, OkPart, StopTimeIsFinal
<1> QED BY <1>1, ControlInvariant, PTL

\* A file the parser rejects leaves nothing in the data store.
THEOREM BadFileAtomic == Spec => []BadFileLeavesNoTrace
<1>1. Control => BadFileLeavesNoTrace
  BY DEF Control, StorePart, BadFileLeavesNoTrace
<1> QED BY <1>1, ControlInvariant, PTL

-----------------------------------------------------------------------------
(* Refinement.                                                             *)

\* The first result still to save is the packet after the last one saved.
LEMMA NextToStore ==
  ASSUME TypeOK, NothingLost, resultsv # <<>>
  PROVE  /\ Len(saved) < Len(seen)
         /\ Head(resultsv) = seen[Len(saved) + 1]
BY HeadInConcat DEF TypeOK, NothingLost

\* Every step of the tool is a step of the promise, or none.
LEMMA PromiseStep ==
  TypeOK /\ Control /\ NothingLost /\ SuccessStoresAll' /\ [Next]_vars
    => [Promise!IngestNext]_(Promise!ivars)
<1> SUFFICES ASSUME TypeOK, Control, NothingLost, SuccessStoresAll',
                    [Next]_vars
             PROVE  Promise!IngestNext \/ UNCHANGED Promise!ivars
  OBVIOUS
<1> USE DEF Promise!ivars, Outcome, Up, Ended, parsing, db
<1>1. CASE ParsePacket
  <2>1. CASE UNCHANGED <<seen, data>>
    BY <1>1, <2>1 DEF ParsePacket
  <2>2. CASE seen' = Append(seen, read')
    <3>1. read' \in 1..MaxPackets
      BY <1>1, TsharkAssumption DEF ParsePacket, TypeOK
    <3>2. Promise!Arrive
      BY <1>1, <2>2, <3>1 DEF ParsePacket, Promise!Arrive
    <3> QED BY <3>2 DEF Promise!IngestNext
  <2> QED BY <1>1, <2>1, <2>2 DEF ParsePacket
<1>2. CASE ParserReturns \/ ParserThrows
  <2>1. Promise!End
    BY <1>2 DEF ParserReturns, ParserThrows, Promise!End
  <2> QED BY <2>1 DEF Promise!IngestNext
<1>3. CASE StartParser
  BY <1>3 DEF StartParser, Control, ParserPart
<1>4. CASE Inserts
  <2>1. CASE metadata BY <1>4, <2>1 DEF Inserts
  <2>2. CASE ~metadata
    <3>1. Promise!Register
      BY <1>4, <2>2 DEF Inserts, Promise!Register
    <3> QED BY <3>1 DEF Promise!IngestNext
  <2> QED BY <2>1, <2>2
<1>5. CASE SaveResult
  <2>1. CASE resultsv = <<>>
    BY <1>5, <2>1 DEF SaveResult
  <2>2. CASE resultsv # <<>>
    <3>1. toolRun
      BY <1>5 DEF SaveResult, Control, StorePart, InLoop
    <3>2. Promise!Store
      BY <1>5, <2>2, <3>1, NextToStore DEF SaveResult, Promise!Store
    <3> QED BY <3>2 DEF Promise!IngestNext
  <2> QED BY <2>1, <2>2
<1>6. CASE CheckDone
  <2>1. CASE pc' = "loop" BY <1>6, <2>1 DEF CheckDone
  <2>2. CASE pc' = "ok"
    <3>1. parser = "returned"
      BY <1>6, <2>2 DEF CheckDone, Control, ParserPart, InLoop
    <3>2. toolRun /\ ~metadata
      BY <1>6 DEF CheckDone, Control, StorePart, InLoop
    <3>3. saved = seen
      BY <1>6, <2>2, <3>2 DEF CheckDone, SuccessStoresAll
    <3>4. Promise!Succeed
      BY <1>6, <2>2, <3>1, <3>3 DEF CheckDone, Promise!Succeed
    <3> QED BY <3>4 DEF Promise!IngestNext
  <2> QED BY <1>6, <2>1, <2>2 DEF CheckDone
<1>7. CASE Leave
  <2>1. parser = "returned" /\ ~toolRun
    BY <1>7 DEF Leave, Control, ParserPart, StorePart, InLoop, Before
  <2>2. Promise!Succeed
    BY <1>7, <2>1 DEF Leave, Promise!Succeed
  <2> QED BY <2>2 DEF Promise!IngestNext
<1>8. CASE ParserExits \/ DataStoreFails
  <2>1. Promise!Fail
    BY <1>8 DEF ParserExits, DataStoreFails, Promise!Fail
  <2> QED BY <2>1 DEF Promise!IngestNext
<1>9. CASE ParseData
  <2>1. CASE pc' = "insert" BY <1>9, <2>1 DEF ParseData
  <2>2. CASE pc' = "failed"
    <3>1. Promise!Fail
      BY <1>9, <2>2 DEF ParseData, Promise!Fail
    <3> QED BY <3>1 DEF Promise!IngestNext
  <2> QED BY <1>9, <2>1, <2>2 DEF ParseData
<1>10. CASE Interrupt
  <2>1. CASE UNCHANGED pc BY <1>10, <2>1 DEF Interrupt
  <2>2. CASE pc' = "killed"
    <3>1. Promise!Fail
      BY <1>10, <2>2 DEF Interrupt, Promise!Fail
    <3> QED BY <3>1 DEF Promise!IngestNext
  <2> QED BY <1>10, <2>1, <2>2 DEF Interrupt
<1>11. CASE HasData \/ Connect BY <1>11 DEF HasData, Connect
<1>12. CASE CountData BY <1>12 DEF CountData
<1>13. CASE TakeData BY <1>13 DEF TakeData
<1>14. CASE WaitForParser BY <1>14 DEF WaitForParser
<1>15. CASE UNCHANGED vars BY <1>15 DEF vars
<1> QED
  BY <1>1, <1>2, <1>3, <1>4, <1>5, <1>6, <1>7, <1>8, <1>9, <1>10, <1>11,
     <1>12, <1>13, <1>14, <1>15 DEF Next, MainStep, ParserEnds, Exited

\* nmdb-import-tshark implements Ingest: records appear one at a time, in
\* order, under a registered tool run, and success means all of them.
THEOREM PromiseKept == Spec => KeepsPromise
<1>1. Init => Promise!IngestInit
  BY DEF Init, Promise!IngestInit, Outcome, Up, Ended
<1> QED
  BY <1>1, PromiseStep, TypeCorrect, ControlInvariant, QueueSafe,
     SuccessIsComplete, PTL DEF Spec, KeepsPromise, Promise!IngestSpec

=============================================================================
