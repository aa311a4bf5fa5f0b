-------------------------------- MODULE Lake --------------------------------
(***************************************************************************)
(* What the data lake promises, whatever its back-end: for every time the  *)
(* data that was stored then.  A caller asks for one change, which is made *)
(* as asked and at once, or not at all.  Storing and removing change the   *)
(* present and what follows, never the past; only a permanent removal      *)
(* changes the past too, and only for what it names.                       *)
(***************************************************************************)
EXTENDS Naturals

CONSTANTS
  Callers,
  Paths,     \* names of stored data
  Contents,  \* what is stored under a name
  Absent,    \* nothing is
  MaxTime

Times == 0..MaxTime

NoRequest == [do |-> "none"]
Requests  ==
  [do : {"put"}, path : Paths, content : Contents]
  \cup [do : {"remove", "purge"}, paths : SUBSET Paths]

VARIABLES
  now,     \* the present
  asOf,    \* asOf[t][p]: what a user sees under p who asks for time t
  request  \* what each caller waits for

lakeVars == <<now, asOf, request>>

Nothing == [p \in Paths |-> Absent]

Set(tree, S, c) == [p \in Paths |-> IF p \in S THEN c ELSE tree[p]]

LakeInit ==
  /\ now = 0 /\ asOf = [t \in Times |-> Nothing]
  /\ request = [s \in Callers |-> NoRequest]

Answered(s) == request' = [request EXCEPT ![s] = NoRequest] /\ UNCHANGED now

\* c under the names of S from the present on.
Change(S, c) ==
  asOf' = [t \in Times |-> IF t < now THEN asOf[t] ELSE Set(asOf[t], S, c)]

Ask(s) ==
  /\ request[s] = NoRequest
  /\ \E r \in Requests : request' = [request EXCEPT ![s] = r]
  /\ UNCHANGED <<now, asOf>>

Put(s) ==
  /\ request[s].do = "put"
  /\ Change({request[s].path}, request[s].content)
  /\ Answered(s)

Remove(s) ==
  /\ request[s].do = "remove"
  /\ Change(request[s].paths, Absent)
  /\ Answered(s)

\* Purge of everything is also what initializing does.
Purge(s) ==
  /\ request[s].do = "purge"
  /\ asOf' = [t \in Times |-> Set(asOf[t], request[s].paths, Absent)]
  /\ Answered(s)

\* A request that fails, or has nothing to change, changes nothing.
Drop(s) == request[s] # NoRequest /\ Answered(s) /\ UNCHANGED asOf

Tick == now < MaxTime /\ now' = now + 1 /\ UNCHANGED <<asOf, request>>

LakeNext ==
  Tick \/ \E s \in Callers : Ask(s) \/ Put(s) \/ Remove(s) \/ Purge(s) \/ Drop(s)

LakeSpec == LakeInit /\ [][LakeNext]_lakeVars
=============================================================================
