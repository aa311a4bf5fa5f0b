------------------------------- MODULE RunStore -------------------------------
(***************************************************************************)
(* What a user of the data store may rely on for a tool run recorded by    *)
(* clw: the run is recorded before anything about it, each of its parts    *)
(* appears whole and once, a removal takes all of it at once, and after a  *)
(* removal only the import of the command's own results brings it back.    *)
(***************************************************************************)
EXTENDS Naturals

CONSTANTS
  Context,   \* the parts that tell where the command was run
  Results    \* the parts that hold what the command found

VARIABLES
  recorded,  \* the tool run is in the data store
  parts      \* its parts that are

rvars == <<recorded, parts>>

StoreInit == recorded = FALSE /\ parts = {}

Record == recorded' = TRUE /\ UNCHANGED parts

AddContext(part) ==
  /\ recorded /\ part \notin parts
  /\ parts' = parts \union {part}
  /\ UNCHANGED recorded

AddResults(part) ==
  /\ part \notin parts
  /\ recorded' = TRUE
  /\ parts' = parts \union {part}

RemoveRun == recorded' = FALSE /\ parts' = {}

StoreNext ==
  \/ Record
  \/ \E part \in Context : AddContext(part)
  \/ \E part \in Results : AddResults(part)
  \/ RemoveRun

StoreSpec == StoreInit /\ [][StoreNext]_rvars
===============================================================================
