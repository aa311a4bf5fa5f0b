------------------------------- MODULE Ingest -------------------------------
(***************************************************************************)
(* What an importer that stores records while they arrive promises to the  *)
(* user of the data store: records become visible one by one, in the order *)
(* in which they arrived, none twice and none without the tool run they    *)
(* belong to; success is reported only when the input has ended and all of *)
(* it is stored.                                                           *)
(***************************************************************************)
EXTENDS Naturals, Sequences

CONSTANT Records      \* everything that may arrive

VARIABLES
  arrived,     \* the records that arrived, in order
  ended,       \* the input has ended
  registered,  \* the tool run is in the data store
  stored,      \* those in the data store
  outcome      \* "running", "ok" or "failed"

ivars == <<arrived, ended, registered, stored, outcome>>

IngestInit ==
  /\ arrived = <<>> /\ stored = <<>>
  /\ ended = FALSE /\ registered = FALSE
  /\ outcome = "running"

Arrive ==
  /\ outcome = "running" /\ ~ended
  /\ \E r \in Records : arrived' = Append(arrived, r)
  /\ UNCHANGED <<ended, registered, stored, outcome>>

End ==
  /\ outcome = "running"
  /\ ended' = TRUE
  /\ UNCHANGED <<arrived, registered, stored, outcome>>

Register ==
  /\ outcome = "running"
  /\ registered' = TRUE
  /\ UNCHANGED <<arrived, ended, stored, outcome>>

Store ==
  /\ outcome = "running" /\ registered
  /\ Len(stored) < Len(arrived)
  /\ stored' = Append(stored, arrived[Len(stored) + 1])
  /\ UNCHANGED <<arrived, ended, registered, outcome>>

Succeed ==
  /\ outcome = "running"
  /\ ended
  /\ registered => stored = arrived
  /\ outcome' = "ok"
  /\ UNCHANGED <<arrived, ended, registered, stored>>

Fail ==
  /\ outcome = "running"
  /\ outcome' = "failed"
  /\ UNCHANGED <<arrived, ended, registered, stored>>

IngestNext == Arrive \/ End \/ Register \/ Store \/ Succeed \/ Fail

IngestSpec == IngestInit /\ [][IngestNext]_ivars
=============================================================================
