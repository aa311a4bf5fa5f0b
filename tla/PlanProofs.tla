----------------------------- MODULE PlanProofs -----------------------------
(***************************************************************************)
(* What the loops of module PlaybookPlan produce, for every playbook and   *)
(* plays file.                                                             *)
(***************************************************************************)
EXTENDS PlaybookPlan, Inductions

-----------------------------------------------------------------------------
(* Keys in their order.                                                    *)

\* A finite set of keys is iterated over in Cardinality(S) turns.
LEMMA AscendingLength ==
  ASSUME NEW S, IsFiniteSet(S)
  PROVE  /\ Cardinality(S) \in Nat
         /\ Len(Ascending(S)) = Cardinality(S)
         /\ DOMAIN Ascending(S) = 1..Cardinality(S)
<1>1. Cardinality(S) \in Nat
  BY FS_CardinalityType
<1> QED
  BY <1>1 DEF Ascending

\* The values a function takes on a finite set are finitely many.
LEMMA FiniteImage ==
  ASSUME NEW S, IsFiniteSet(S), NEW f
  PROVE  IsFiniteSet({f[x] : x \in S})
<1> DEFINE T == {f[x] : x \in S}
           g == [x \in S |-> f[x]]
<1>1. g \in [S -> T] /\ \A y \in T : \E x \in S : g[x] = y
  OBVIOUS
<1>2. g \in Surjection(S, T)
  BY <1>1 DEF Surjection
<1> QED
  BY <1>2, FS_Surjection

\* The number of smaller keys numbers the keys from 0 without a gap.
LEMMA RankBijection ==
  ASSUME NEW S \in SUBSET Nat, IsFiniteSet(S)
  PROVE  LET rank == [x \in S |-> Cardinality({y \in S : y < x})]
         IN  rank \in Bijection(S, 0..(Cardinality(S) - 1))
<1> DEFINE below(x) == {y \in S : y < x}
           rank == [x \in S |-> Cardinality(below(x))]
           c == Cardinality(S)
           T == 0..(c - 1)
<1>1. c \in Nat
  BY FS_CardinalityType
<1>2. ASSUME NEW x \in S
      PROVE  IsFiniteSet(below(x)) /\ rank[x] \in Nat /\ rank[x] < c
  <2>1. IsFiniteSet(below(x)) /\ rank[x] \in Nat
    <3>1. below(x) \in SUBSET S
      OBVIOUS
    <3>2. IsFiniteSet(below(x))
      BY <3>1, FS_Subset
    <3> QED BY <3>2, FS_CardinalityType
  <2>2. below(x) \in SUBSET (S \ {x})
    OBVIOUS
  <2>3. IsFiniteSet(S \ {x}) /\ Cardinality(S \ {x}) = c - 1
    BY FS_RemoveElement
  <2> HIDE DEF below, c
  <2>4. Cardinality(below(x)) <= c - 1
    BY <2>2, <2>3, FS_Subset
  <2> QED BY <1>1, <2>1, <2>4
<1>3. ASSUME NEW x \in S, NEW z \in S, x < z
      PROVE  rank[x] < rank[z]
  <2>1. below(x) \in SUBSET (below(z) \ {x}) /\ x \in below(z)
    <3>1. \A y \in S : y < x => y < z /\ y # x
      BY <1>3
    <3> QED BY <1>3, <3>1
  <2>2. IsFiniteSet(below(z)) /\ Cardinality(below(z)) \in Nat
    BY <1>2
  <2>3. Cardinality(below(x)) \in Nat
    BY <1>2
  <2> HIDE DEF below
  <2>4. /\ IsFiniteSet(below(z) \ {x})
        /\ Cardinality(below(z) \ {x}) = Cardinality(below(z)) - 1
    BY <2>1, <2>2, FS_RemoveElement
  <2>5. Cardinality(below(x)) <= Cardinality(below(z)) - 1
    BY <2>1, <2>4, FS_Subset
  <2> QED BY <2>2, <2>3, <2>5
<1>4. rank \in Injection(S, T)
  <2>1. \A x \in S : rank[x] \in T
    <3> TAKE x \in S
    <3>1. rank[x] \in Nat /\ rank[x] < c
      BY <1>2
    <3> HIDE DEF rank, c
    <3> QED BY <1>1, <3>1
  <2>2. \A x, z \in S : rank[x] = rank[z] => x = z
    <3> SUFFICES ASSUME NEW x \in S, NEW z \in S, x # z PROVE rank[x] # rank[z]
      OBVIOUS
    <3>1. rank[x] \in Nat /\ rank[z] \in Nat /\ (x < z \/ z < x)
      BY <1>2
    <3> HIDE DEF rank
    <3> QED BY <1>3, <3>1
  <2>3. rank \in [S -> T]
    BY <2>1
  <2> HIDE DEF rank, T
  <2> QED BY <2>2, <2>3 DEF Injection, IsInjective
<1>5. IsFiniteSet(T) /\ Cardinality(T) = c
  <2> HIDE DEF c
  <2>1. 0 \in Int /\ c - 1 \in Int
    BY <1>1
  <2>2. IsFiniteSet(T) /\ Cardinality(T) = IF 0 > c - 1 THEN 0 ELSE (c - 1) - 0 + 1
    BY <2>1, FS_Interval
  <2> QED BY <1>1, <2>2
<1> HIDE DEF rank, T
<1>6. rank \in Surjection(S, T)
  BY <1>4, <1>5, FS_Injection
<1>7. rank \in Bijection(S, T)
  BY <1>4, <1>6 DEF Bijection
<1> QED BY <1>7 DEF rank, T

\* Each key of a finite set gets exactly one turn.
LEMMA AscendingKeys ==
  ASSUME NEW S \in SUBSET Nat, IsFiniteSet(S)
  PROVE  LET keys == Ascending(S)
             n == Len(keys)
         IN  /\ n \in Nat /\ DOMAIN keys = 1..n
             /\ \A k \in 1..n : keys[k] \in S
             /\ \A k, l \in 1..n : keys[k] = keys[l] => k = l
             /\ \A x \in S : \E k \in 1..n : keys[k] = x
<1> DEFINE c == Cardinality(S)
           rank == [x \in S |-> Cardinality({y \in S : y < x})]
           keys == Ascending(S)
<1>1. c \in Nat /\ Len(keys) = c /\ DOMAIN keys = 1..c
  BY AscendingLength
<1>2. rank \in Bijection(S, 0..(c - 1))
  BY RankBijection
<1>3. \A k \in 1..c : keys[k] = CHOOSE x \in S : rank[x] = k - 1
  BY DEF Ascending
<1> HIDE DEF rank, keys
<1>4. /\ \A x \in S : rank[x] \in 0..(c - 1)
      /\ \A x, z \in S : rank[x] = rank[z] => x = z
      /\ \A v \in 0..(c - 1) : \E x \in S : rank[x] = v
  BY <1>2 DEF Bijection, Injection, Surjection, IsInjective
<1> HIDE DEF c
<1>5. ASSUME NEW k \in 1..c
      PROVE  keys[k] \in S /\ rank[keys[k]] = k - 1
  <2>1. k - 1 \in 0..(c - 1)
    BY <1>1
  <2>2. \E x \in S : rank[x] = k - 1
    BY <1>4, <2>1
  <2> QED BY <1>3, <2>2
<1>6. ASSUME NEW x \in S
      PROVE  \E k \in 1..c : keys[k] = x
  <2>1. rank[x] + 1 \in 1..c /\ (rank[x] + 1) - 1 = rank[x]
    BY <1>1, <1>4
  <2>2. keys[rank[x] + 1] \in S /\ rank[keys[rank[x] + 1]] = rank[x]
    BY <1>5, <2>1
  <2> QED BY <1>4, <2>1, <2>2
<1>7. \A k, l \in 1..c : keys[k] = keys[l] => k = l
  BY <1>1, <1>5
<1> QED BY <1>1, <1>5, <1>6, <1>7 DEF keys

-----------------------------------------------------------------------------
(* Reading a thread's steps as the structured program they come from.  A   *)
(* control point says where in the nested loops a thread is: which threads *)
(* it has started and joined, which sources it has completed, which        *)
(* <<source, router>> sessions it has been through, and, between the       *)
(* beginning and the end of a session, at which phase of which session and *)
(* after how many of its command sets, and whether the link was checked in *)
(* this phase.  phase is 0 outside of sessions.  held is what the thread's *)
(* guards have configured on its link and not yet undone.                  *)

Control(kids, joined, done, tested, src, rtr, phase, set, checked, held) ==
  [kids |-> kids, joined |-> joined, done |-> done, tested |-> tested,
   src |-> src, rtr |-> rtr, phase |-> phase, set |-> set,
   checked |-> checked, held |-> held]

Beginning == Control({}, {}, {}, {}, 0, 0, 0, 0, FALSE, {})
Starting(kids, joined, H) == Control(kids, joined, {}, {}, 0, 0, 0, 0, FALSE, H)
Between(done, tested, H)  == Control({}, {}, done, tested, 0, 0, 0, 0, FALSE, H)
Within(done, tested, src, rtr, phase, set, checked, H) ==
  Control({}, {}, done, tested, src, rtr, phase, set, checked, H)
Holding(A, H) ==
  Control(A.kids, A.joined, A.done, A.tested, A.src, A.rtr, A.phase, A.set,
          A.checked, H)

IsSeq(s) == s \in Seq(Range(s))

\* c is a thread that p may start.
IsChild(p, c) ==
  \/ p = Main /\ \E i : c = <<i>>
  \/ \E i, v : p = <<i>> /\ c = <<i, v>>

\* The routers a source is tested through (0 for none, intra-network).
RoutersOf(o, src)  == IF o.scope = "intra" THEN {0} ELSE src.routers
PhaseEnabled(o, p) == o.phases = {} \/ p \in o.phases

-----------------------------------------------------------------------------
(* What the guards of a thread configure, as pairs <<what, argument>>.     *)

Device == <<"link", 0>>
Up     == <<"up", 0>>

\* The link a thread works on, and whether it is a device it adds itself.
MyLink(t)   == IF Len(t) = 2 THEN LinkName(t) ELSE t
OnDevice(t) == Len(t) = 2 /\ t[2] < RESERVED

\* Main configures no link, and neither does the thread of the reserved VLAN.
HasLink(t) == t # Main /\ (Len(t) = 2 => t[2] # RESERVED)

HasNo(H, whats) == \A h \in H : h[1] \notin whats

\* What is configured after command c if H was before it.
Configured(H, c) ==
  CASE c.op = "link add"    -> H \cup {Device}
    [] c.op = "link del"    -> {}
    [] c.op = "link up"     -> H \cup {Up}
    [] c.op = "link down"   -> {h \in H : h[1] \notin {"up", "routes", "default"}}
    [] c.op = "mac set"     -> H \cup {<<"macs", c.arg>>}
    [] c.op = "mac reset"   -> {h \in H : h[1] # "macs"}
    [] c.op = "sysctl on"   -> H \cup {<<"knobs", c.arg>>}
    [] c.op = "sysctl off"  -> H \ {<<"knobs", c.arg>>}
    [] c.op = "addr add"    -> H \cup {<<"addrs", c.arg>>}
    [] c.op = "addr del"    -> H \ {<<"addrs", c.arg>>}
    [] c.op = "route add"   -> H \cup {<<"routes", c.arg>>}
    [] c.op = "route del"   -> H \ {<<"routes", c.arg>>}
    [] c.op = "default add" -> H \cup {<<"default", c.arg>>}
    [] c.op = "default del" -> H \ {<<"default", c.arg>>}
    [] OTHER                -> H

\* Thread t may issue command c at A, where H is configured: it works on its
\* own link, and on what is there; it adds to its link only while it has
\* started no thread; a link comes up and an address is added only before the
\* first test of a source or after the last.
May(o, t, A, H, c) ==
  /\ \/ HasLink(t) /\ c.link = MyLink(t)
     \/ /\ c.link = NoLink
        /\ c.op \in {"sleep", "flush cache", "default add", "default del", "link del"}
  /\ c.op \in {"link up", "mac set", "sysctl on", "addr add"} => A.kids = {}
  /\ c.op \in {"link up", "addr add"} => \A p \in A.tested : p[1] \in A.done
  /\ c.op = "link add" => OnDevice(t) /\ H = {}
  /\ c.op = "link del" => \/ OnDevice(t) /\ c.link = MyLink(t)
                          \/ c.link = NoLink /\ H = {}
  /\ c.op \in {"link up", "mac set", "sysctl on", "addr add"} =>
       (OnDevice(t) => Device \in H)
  /\ c.op \in {"route add", "default add", "default del"} =>
       o.scope = "inter" /\ Len(t) = 2
  /\ c.op = "route add" => Up \in H
  /\ c.op = "default add" => <<"routes", c.arg>> \in H /\ HasNo(H, {"default"})

\* h says what is configured before each of the commands, and after the last.
Configures(o, t, A, cmds, h) ==
  /\ Len(cmds) \in Nat
  /\ \A k \in 1..Len(cmds) : /\ May(o, t, A, h[k - 1], cmds[k])
                             /\ h[k] = Configured(h[k - 1], cmds[k])

\* What has to be configured for the tests of a source through a router.
ReadyFor(H, src, rtr) ==
  /\ Up \in H /\ <<"addrs", src.addr>> \in H
  /\ rtr # 0 => {h \in H : h[1] = "default"} = {<<"default", rtr>>}

\* What has to be configured, and what must not be, when a thread is started.
ReadyToStart(H, c) ==
  Len(c) = 2 => IF c[2] = NONE THEN H = {} ELSE Up \in H

-----------------------------------------------------------------------------
(* The steps between control points.                                       *)

\* own: the sources a thread is to test.
IsControl(own, A) ==
  /\ A.phase \in Nat /\ A.set \in Nat
  /\ A.done \subseteq own
  /\ A.phase # 0 => /\ A.src \in own \ A.done
                    /\ <<A.src, A.rtr>> \notin A.tested
                    /\ ReadyFor(A.held, A.src, A.rtr)

\* There is a command set after A in its phase.
HasNextSet(A) ==
  A.phase \in 1..Len(Plays) /\ A.set + 1 \in 1..Len(Plays[A.phase])

\* Step x may be taken at A and leads to B.
SpawnFollows(t, A, x, B) ==
  /\ x.do = "spawn" /\ IsChild(t, x.thread) /\ x.thread \notin A.kids
  /\ ReadyToStart(A.held, x.thread)
  /\ B = Control(A.kids \cup {x.thread}, A.joined, A.done, A.tested,
                 A.src, A.rtr, A.phase, A.set, A.checked, A.held)

JoinFollows(A, x, B) ==
  /\ x.do = "join" /\ x.thread \in A.kids
  /\ B = Control(A.kids, A.joined \cup {x.thread}, A.done, A.tested,
                 A.src, A.rtr, A.phase, A.set, A.checked, A.held)

\* A block of commands, outside of sessions and with no thread at work that
\* t has started.
BlockFollows(o, t, A, x, B) ==
  /\ x.do = "block" /\ A.phase = 0 /\ A.kids = A.joined
  /\ \E h : /\ h[0] = A.held /\ Configures(o, t, A, x.cmds, h)
           /\ B = Holding(A, h[Len(x.cmds)])

SessionFollows(o, own, A, x, B) ==
  /\ x.do = "session" /\ A.phase = 0
  /\ \E src \in own \ A.done : \E rtr \in RoutersOf(o, src) :
       /\ <<src, rtr>> \notin A.tested
       /\ B = Control(A.kids, A.joined, A.done, A.tested, src, rtr, 1, 0,
                      FALSE, A.held)

CheckFollows(A, x, B) ==
  /\ x.do = "check" /\ A.phase # 0 /\ A.set = 0 /\ x.src = A.src
  /\ B = Control(A.kids, A.joined, A.done, A.tested,
                 A.src, A.rtr, A.phase, A.set, TRUE, A.held)

DisableFollows(o, A, x, B) ==
  /\ x.do = "disable" /\ HasNextSet(A)
  /\ o.noPrompt /\ Plays[A.phase][A.set + 1].skip
  /\ B = A

SetFollows(A, x, B) ==
  /\ x.do = "set" /\ HasNextSet(A)
  /\ x.cmds = PhaseCommands(A.src, A.rtr, A.phase, A.set + 1)
  /\ x.onFail = Plays[A.phase][A.set + 1].onFail
  /\ B = Control(A.kids, A.joined, A.done, A.tested,
                 A.src, A.rtr, A.phase, A.set + 1, A.checked, A.held)

EndPhaseFollows(o, A, x, B) ==
  /\ x.do = "end of phase" /\ A.phase \in 1..Len(Plays)
  /\ PhaseEnabled(o, A.phase) => A.set = Len(Plays[A.phase])
  /\ B = Control(A.kids, A.joined, A.done, A.tested,
                 A.src, A.rtr, A.phase + 1, 0, FALSE, A.held)

ResetFollows(A, x, B) ==
  /\ x.do = "reset" /\ A.phase = Len(Plays) + 1
  /\ B = Control(A.kids, A.joined, A.done, A.tested \cup {<<A.src, A.rtr>>},
                 0, 0, 0, 0, FALSE, A.held)

CompleteFollows(o, own, A, x, B) ==
  /\ x.do = "complete" /\ A.phase = 0
  /\ x.src \in own \ A.done
  /\ \A rtr \in RoutersOf(o, x.src) : <<x.src, rtr>> \in A.tested
  /\ B = Control(A.kids, A.joined, A.done \cup {x.src}, A.tested,
                 0, 0, 0, 0, FALSE, A.held)

Follows(o, t, own, A, x, B) ==
  \/ (x.do = "stage" /\ B = A) \/ BlockFollows(o, t, A, x, B)
  \/ SpawnFollows(t, A, x, B) \/ JoinFollows(A, x, B)
  \/ SessionFollows(o, own, A, x, B) \/ DisableFollows(o, A, x, B)
  \/ (CheckFollows(A, x, B) /\ o.ignoreIfaceStateChange)
  \/ (SetFollows(A, x, B) /\ (o.ignoreIfaceStateChange => A.checked))
  \/ EndPhaseFollows(o, A, x, B) \/ ResetFollows(A, x, B)
  \/ CompleteFollows(o, own, A, x, B)

\* c gives the control point before each of the steps s, and after the last.
Traces(o, t, own, s, c) ==
  /\ \A k \in 1..(Len(s) + 1) : IsControl(own, c[k])
  /\ \A k \in 1..Len(s) : Follows(o, t, own, c[k], s[k], c[k + 1])

\* The steps s may be taken from A on and lead to B.
Leads(o, t, own, A, s, B) ==
  /\ IsSeq(s)
  /\ \E c : c[1] = A /\ c[Len(s) + 1] = B /\ Traces(o, t, own, s, c)

\* No step, no change.
LEMMA LeadsEmpty ==
  ASSUME NEW o, NEW t, NEW own, NEW A, IsControl(own, A)
  PROVE  Leads(o, t, own, A, <<>>, A)
<1> DEFINE c == [k \in {1} |-> A]
<1>1. IsSeq(<<>>) /\ Len(<<>>) = 0
  BY DEF IsSeq, Range
<1>2. c[1] = A /\ Traces(o, t, own, <<>>, c)
  BY <1>1 DEF Traces
<1> HIDE DEF c
<1> QED BY <1>1, <1>2 DEF Leads

\* One step.
LEMMA LeadsStep ==
  ASSUME NEW o, NEW t, NEW own, NEW A, NEW B, NEW x,
         IsControl(own, A), IsControl(own, B), Follows(o, t, own, A, x, B)
  PROVE  Leads(o, t, own, A, <<x>>, B)
<1> DEFINE c == [k \in {1, 2} |-> IF k = 1 THEN A ELSE B]
           s == <<x>>
<1>1. IsSeq(s) /\ Len(s) = 1 /\ s[1] = x
  BY DEF IsSeq, Range
<1>2. c[1] = A /\ c[2] = B
  OBVIOUS
<1> HIDE DEF c, s
<1>3. Traces(o, t, own, s, c)
  <2>1. \A k \in 1..(Len(s) + 1) : k = 1 \/ k = 2
    BY <1>1
  <2>2. \A k \in 1..Len(s) : k = 1
    BY <1>1
  <2> QED BY <1>1, <1>2, <2>1, <2>2 DEF Traces
<1>4. c[Len(s) + 1] = B
  BY <1>1, <1>2
<1>5. Leads(o, t, own, A, s, B)
  BY <1>1, <1>2, <1>3, <1>4 DEF Leads
<1> QED BY <1>5 DEF s

\* A concatenation of sequences is a sequence, element by element.
LEMMA ConcatSeq ==
  ASSUME NEW a, NEW b, IsSeq(a), IsSeq(b)
  PROVE  /\ IsSeq(a \o b)
         /\ Len(a) \in Nat /\ Len(b) \in Nat
         /\ Len(a \o b) = Len(a) + Len(b)
         /\ \A k \in 1..Len(a) : (a \o b)[k] = a[k]
         /\ \A k \in 1..Len(b) : (a \o b)[Len(a) + k] = b[k]
<1> DEFINE S == Range(a) \cup Range(b)
<1>1. a \in Seq(S) /\ b \in Seq(S)
  BY DEF IsSeq
<1> HIDE DEF S
<1>2. /\ Len(a) \in Nat /\ Len(b) \in Nat
      /\ Len(a \o b) = Len(a) + Len(b)
      /\ DOMAIN (a \o b) = 1..(Len(a) + Len(b))
      /\ \A k \in 1..Len(a) : (a \o b)[k] = a[k]
      /\ \A k \in 1..Len(b) : (a \o b)[Len(a) + k] = b[k]
  BY <1>1
<1>3. IsSeq(a \o b)
  <2>1. a \o b \in Seq(S)
    BY <1>1
  <2>2. \A k \in 1..Len(a \o b) : (a \o b)[k] \in Range(a \o b)
    BY <1>2 DEF Range
  <2> DEFINE c == a \o b
  <2>3. c \in Seq(S) /\ \A k \in 1..Len(c) : c[k] \in Range(c)
    BY <2>1, <2>2
  <2> HIDE DEF c, IsSeq
  <2>4. c \in Seq(Range(c))
    BY <2>3
  <2> QED BY <2>4 DEF IsSeq, c
<1> QED BY <1>2, <1>3

\* A pair is the concatenation of its elements.
LEMMA PairConcat ==
  ASSUME NEW x, NEW y
  PROVE  <<x, y>> = <<x>> \o <<y>>
<1> DEFINE S == {x, y}
           a == <<x>>
           b == <<y>>
           c == <<x, y>>
<1>1. /\ a \in Seq(S) /\ b \in Seq(S) /\ c \in Seq(S)
      /\ Len(a) = 1 /\ Len(b) = 1 /\ Len(c) = 2
      /\ a[1] = c[1] /\ b[1] = c[2]
  OBVIOUS
<1> HIDE DEF S, a, b, c
<1>2. /\ Len(a \o b) = 2 /\ a \o b \in Seq(S)
      /\ (a \o b)[1] = c[1] /\ (a \o b)[2] = c[2]
  <2>1. 1 \in 1..2 /\ 2 \in 1..2 /\ 2 - 1 = 1 /\ 1 + 1 = 2
    OBVIOUS
  <2> QED BY <1>1, <2>1, ConcatProperties
<1>3. \A k \in 1..2 : (a \o b)[k] = c[k]
  BY <1>2
<1>4. a \o b = c
  BY <1>1, <1>2, <1>3, SeqEqual
<1> QED BY <1>4 DEF a, b, c

\* One list of steps after another.
LEMMA LeadsConcat ==
  ASSUME NEW o, NEW t, NEW own, NEW A, NEW B, NEW C, NEW a, NEW b,
         Leads(o, t, own, A, a, B), Leads(o, t, own, B, b, C)
  PROVE  Leads(o, t, own, A, a \o b, C)
<1> DEFINE m == Len(a)
           n == Len(b)
           s == a \o b
<1>1. IsSeq(a) /\ IsSeq(b)
  BY DEF Leads
<1>2. /\ IsSeq(s) /\ m \in Nat /\ n \in Nat /\ Len(s) = m + n
      /\ \A k \in 1..m : s[k] = a[k]
      /\ \A k \in 1..n : s[m + k] = b[k]
  BY <1>1, ConcatSeq
<1>3. PICK c : c[1] = A /\ c[m + 1] = B /\ Traces(o, t, own, a, c)
  BY DEF Leads
<1>4. PICK d : d[1] = B /\ d[n + 1] = C /\ Traces(o, t, own, b, d)
  BY DEF Leads
<1> DEFINE e == [k \in 1..(m + n + 1) |-> IF k <= m THEN c[k] ELSE d[k - m]]
<1>c. /\ \A k \in 1..(m + 1) : IsControl(own, c[k])
      /\ \A k \in 1..m : Follows(o, t, own, c[k], a[k], c[k + 1])
  BY <1>3 DEF Traces
<1>d. /\ \A k \in 1..(n + 1) : IsControl(own, d[k])
      /\ \A k \in 1..n : Follows(o, t, own, d[k], b[k], d[k + 1])
  BY <1>4 DEF Traces
<1> HIDE DEF m, n, s
<1>5. \A k \in 1..(m + 1) : k \in 1..(m + n + 1) /\ e[k] = c[k]
  <2> TAKE k \in 1..(m + 1)
  <2>1. k \in 1..(m + n + 1)
    BY <1>2
  <2>2. CASE k <= m
    BY <2>1, <2>2
  <2>3. CASE k = m + 1
    <3>1. ~(k <= m) /\ k - m = 1
      BY <1>2, <2>3
    <3> QED BY <1>3, <1>4, <2>1, <2>3, <3>1
  <2> QED BY <1>2, <2>2, <2>3
<1>6. \A k \in 1..(n + 1) : m + k \in 1..(m + n + 1) /\ e[m + k] = d[k]
  <2> TAKE k \in 1..(n + 1)
  <2>1. m + k \in 1..(m + n + 1) /\ ~(m + k <= m) /\ (m + k) - m = k
    BY <1>2
  <2> QED BY <2>1
<1> HIDE DEF e
<1>7. ASSUME NEW k \in 1..(m + n + 1) PROVE IsControl(own, e[k])
  <2>1. CASE k \in 1..(m + 1)
    BY <1>5, <1>c, <2>1
  <2>2. CASE k \notin 1..(m + 1)
    <3>1. k - m \in 1..(n + 1) /\ m + (k - m) = k
      BY <1>2, <2>2
    <3> QED BY <1>6, <1>d, <3>1
  <2> QED BY <2>1, <2>2
<1>8. ASSUME NEW k \in 1..(m + n)
      PROVE  Follows(o, t, own, e[k], s[k], e[k + 1])
  <2>1. CASE k \in 1..m
    <3>1. k \in 1..(m + 1) /\ k + 1 \in 1..(m + 1)
      BY <1>2, <2>1
    <3> QED BY <1>2, <1>5, <1>c, <2>1, <3>1
  <2>2. CASE k \notin 1..m
    <3>1. /\ k - m \in 1..n /\ m + (k - m) = k
          /\ k - m \in 1..(n + 1) /\ (k - m) + 1 \in 1..(n + 1)
          /\ m + ((k - m) + 1) = k + 1
      BY <1>2, <2>2
    <3>2. e[k] = d[k - m] /\ e[k + 1] = d[(k - m) + 1] /\ s[k] = b[k - m]
      BY <1>2, <1>6, <3>1
    <3> QED BY <1>d, <3>1, <3>2
  <2> QED BY <2>1, <2>2
<1>9. e[1] = A /\ e[m + n + 1] = C
  <2>1. 1 \in 1..(m + 1) /\ n + 1 \in 1..(n + 1) /\ m + (n + 1) = m + n + 1
    BY <1>2
  <2> QED BY <1>3, <1>4, <1>5, <1>6, <2>1
<1>10. Traces(o, t, own, s, e)
  BY <1>2, <1>7, <1>8 DEF Traces
<1>11. Leads(o, t, own, A, s, C)
  BY <1>2, <1>9, <1>10 DEF Leads
<1> QED BY <1>11 DEF s

\* A loop whose turns lead from each point to the next leads from the first
\* to the last.
LEMMA LeadsLoop ==
  ASSUME NEW o, NEW t, NEW own, NEW n \in Nat, NEW ss, NEW p,
         ss = [k \in 1..n |-> ss[k]],
         IsControl(own, p[1]),
         \A k \in 1..n : Leads(o, t, own, p[k], ss[k], p[k + 1])
  PROVE  Leads(o, t, own, p[1], FlattenSeq(ss), p[n + 1])
<1> DEFINE S == UNION {Range(ss[k]) : k \in 1..n}
<1>1. \A k \in 1..n : ss[k] \in Seq(S)
  <2> TAKE k \in 1..n
  <2>1. ss[k] \in Seq(Range(ss[k])) /\ Range(ss[k]) \subseteq S
    BY DEF Leads, IsSeq
  <2> HIDE DEF S
  <2> QED BY <2>1
<1>2. ss \in Seq(Seq(S)) /\ Len(ss) = n
  <2> HIDE DEF S
  <2>1. ss \in [1..n -> Seq(S)]
    BY <1>1
  <2> QED BY <2>1
<1>3. CASE n = 0
  <2>1. FlattenSeq(ss) = ss
    BY <1>2, <1>3 DEF FlattenSeq
  <2>2. ss = <<>>
    BY <1>2, <1>3, EmptySeq
  <2>3. p[n + 1] = p[1]
    BY <1>3
  <2> QED BY <2>1, <2>2, <2>3, LeadsEmpty
<1>4. CASE n # 0
  <2> HIDE DEF S
  <2>1. ss # <<>>
    BY <1>2, <1>4
  <2>2. PICK f \in [1..n -> Seq(S)] : Flattens(f, ss) /\ FlattenSeq(ss) = f[n]
    BY <1>2, <2>1, FlattenSolves
  <2>3. \A k \in 1..n : f[k] = IF k = 1 THEN ss[k] ELSE f[k - 1] \o ss[k]
    BY <1>2, <2>2, Zenon DEF Flattens
  <2> DEFINE T == {k \in 1..n : Leads(o, t, own, p[1], f[k], p[k + 1])}
  <2>4. n >= 1 => 1 \in T
    BY <2>3
  <2>5. ASSUME NEW k \in 1..(n - 1), k \in T PROVE k + 1 \in T
    <3>1. k + 1 \in 1..n /\ k + 1 # 1 /\ (k + 1) - 1 = k
      OBVIOUS
    <3>2. f[k + 1] = f[k] \o ss[k + 1]
      BY <2>3, <3>1
    <3>3. Leads(o, t, own, p[1], f[k], p[k + 1])
      BY <2>5
    <3>4. Leads(o, t, own, p[k + 1], ss[k + 1], p[(k + 1) + 1])
      BY <3>1
    <3>5. Leads(o, t, own, p[1], f[k + 1], p[(k + 1) + 1])
      BY <3>2, <3>3, <3>4, LeadsConcat
    <3> QED BY <3>1, <3>5
  <2> HIDE DEF T
  <2>6. 1..n \subseteq T
    BY <2>4, <2>5, IntervalBySteps
  <2>7. n \in T
    BY <1>4, <2>6
  <2> QED BY <2>2, <2>7 DEF T
<1> QED BY <1>3, <1>4

-----------------------------------------------------------------------------
(* Guards.                                                                 *)

\* A thread is outside of sessions and has joined all it has started.
AtRest(own, A) == IsControl(own, A) /\ A.phase = 0 /\ A.kids = A.joined

\* The first tests of a source have not begun, or its last are over.
Untested(A) == A.kids = {} /\ \A p \in A.tested : p[1] \in A.done

\* What each command configures.
LEMMA ConfiguredBy ==
  ASSUME NEW H, NEW l, NEW a
  PROVE  /\ Configured(H, Cmd("link add", l, a)) = H \cup {Device}
         /\ Configured(H, Cmd("link del", l, a)) = {}
         /\ Configured(H, Cmd("link up", l, a)) = H \cup {Up}
         /\ Configured(H, Cmd("link down", l, a))
              = {h \in H : h[1] \notin {"up", "routes", "default"}}
         /\ Configured(H, Cmd("mac set", l, a)) = H \cup {<<"macs", a>>}
         /\ Configured(H, Cmd("mac reset", l, a)) = {h \in H : h[1] # "macs"}
         /\ Configured(H, Cmd("sysctl on", l, a)) = H \cup {<<"knobs", a>>}
         /\ Configured(H, Cmd("sysctl off", l, a)) = H \ {<<"knobs", a>>}
         /\ Configured(H, Cmd("addr add", l, a)) = H \cup {<<"addrs", a>>}
         /\ Configured(H, Cmd("addr del", l, a)) = H \ {<<"addrs", a>>}
         /\ Configured(H, Cmd("route add", l, a)) = H \cup {<<"routes", a>>}
         /\ Configured(H, Cmd("route del", l, a)) = H \ {<<"routes", a>>}
         /\ Configured(H, Cmd("default add", l, a)) = H \cup {<<"default", a>>}
         /\ Configured(H, Cmd("default del", l, a)) = H \ {<<"default", a>>}
         /\ Configured(H, Cmd("flush cache", l, a)) = H
         /\ Configured(H, Cmd("dumpcap", l, a)) = H
         /\ Configured(H, Sleep) = H
BY DEF Configured, Cmd, Sleep

\* Whatever is configured, a thread may sleep, and flush the cache.
LEMMA MaySleep ==
  ASSUME NEW o, NEW t, NEW A, NEW H
  PROVE  May(o, t, A, H, Sleep) /\ May(o, t, A, H, Cmd("flush cache", NoLink, 0))
BY DEF May, Sleep, Cmd

\* A block of commands changes what is configured, one after the other.
LEMMA LeadsBlock ==
  ASSUME NEW o, NEW t, NEW own, NEW A, NEW cmds, NEW h, NEW H,
         AtRest(own, A), h[0] = H, Configures(o, t, A, cmds, h)
  PROVE  Leads(o, t, own, Holding(A, H), Block(cmds), Holding(A, h[Len(cmds)]))
<1> DEFINE P == Holding(A, H)
           Q == Holding(A, h[Len(cmds)])
           x == [do |-> "block", cmds |-> cmds]
<1>1. IsControl(own, P) /\ IsControl(own, Q)
  BY DEF AtRest, IsControl, Holding, Control
<1>2. P.phase = 0 /\ P.kids = P.joined /\ P.held = H
  BY DEF AtRest, Holding, Control
<1>3. Configures(o, t, P, cmds, h)
  <2>1. /\ P.kids = A.kids /\ P.tested = A.tested /\ P.done = A.done
    BY DEF Holding, Control
  <2>2. \A G, c : May(o, t, A, G, c) => May(o, t, P, G, c)
    <3> HIDE DEF P
    <3> QED BY <2>1 DEF May
  <2> HIDE DEF P
  <2> QED BY <2>2 DEF Configures
<1>4. Q = Holding(P, h[Len(cmds)])
  BY DEF Holding, Control
<1>5. x.do = "block" /\ x.cmds = cmds /\ Block(cmds) = <<x>>
  BY DEF Block
<1> HIDE DEF P, Q, x
<1>6. BlockFollows(o, t, P, x, Q)
  BY <1>2, <1>3, <1>4, <1>5 DEF BlockFollows
<1>7. Leads(o, t, own, P, <<x>>, Q)
  BY <1>1, <1>6, LeadsStep DEF Follows
<1> QED BY <1>5, <1>7 DEF P, Q

\* Blocks of no command, of one, of two and of four; the last one sleeps.
LEMMA LeadsBlocks ==
  ASSUME NEW o, NEW t, NEW own, NEW A, NEW H, AtRest(own, A)
  PROVE  /\ Leads(o, t, own, Holding(A, H), Block(<<>>), Holding(A, H))
         /\ \A c : May(o, t, A, H, c) =>
              Leads(o, t, own, Holding(A, H), Block(<<c>>),
                    Holding(A, Configured(H, c)))
         /\ \A c : May(o, t, A, H, c) =>
              Leads(o, t, own, Holding(A, H), Block(<<c, Sleep>>),
                    Holding(A, Configured(H, c)))
         /\ \A c, d, e, H1, H2 :
              /\ May(o, t, A, H, c) /\ H1 = Configured(H, c)
              /\ May(o, t, A, H1, d) /\ H2 = Configured(H1, d)
              /\ May(o, t, A, H2, e)
              => Leads(o, t, own, Holding(A, H), Block(<<c, d, e, Sleep>>),
                       Holding(A, Configured(H2, e)))
<1>1. Leads(o, t, own, Holding(A, H), Block(<<>>), Holding(A, H))
  <2> DEFINE h == [k \in 0..0 |-> H]
             cmds == <<>>
  <2>1. Len(cmds) = 0 /\ h[0] = H
    OBVIOUS
  <2> HIDE DEF h, cmds
  <2>2. Configures(o, t, A, cmds, h)
    BY <2>1 DEF Configures
  <2>3. Leads(o, t, own, Holding(A, H), Block(cmds), Holding(A, h[Len(cmds)]))
    BY <2>1, <2>2, LeadsBlock
  <2> QED BY <2>1, <2>3 DEF cmds
<1>2. ASSUME NEW c, May(o, t, A, H, c)
      PROVE  Leads(o, t, own, Holding(A, H), Block(<<c>>),
                   Holding(A, Configured(H, c)))
  <2> DEFINE G == Configured(H, c)
             h == [k \in 0..1 |-> IF k = 0 THEN H ELSE G]
             cmds == <<c>>
  <2>1. Len(cmds) = 1 /\ cmds[1] = c /\ h[0] = H /\ h[1] = G
    OBVIOUS
  <2> HIDE DEF h, cmds, G
  <2>2. Configures(o, t, A, cmds, h)
    <3>1. \A k \in 1..Len(cmds) : k = 1 /\ k - 1 = 0
      BY <2>1
    <3> QED BY <1>2, <2>1, <3>1 DEF Configures, G
  <2>3. Leads(o, t, own, Holding(A, H), Block(cmds), Holding(A, h[Len(cmds)]))
    BY <2>1, <2>2, LeadsBlock
  <2> QED BY <2>1, <2>3 DEF cmds, G
<1>3. ASSUME NEW c, May(o, t, A, H, c)
      PROVE  Leads(o, t, own, Holding(A, H), Block(<<c, Sleep>>),
                   Holding(A, Configured(H, c)))
  <2> DEFINE G == Configured(H, c)
             h == [k \in 0..2 |-> IF k = 0 THEN H ELSE G]
             cmds == <<c, Sleep>>
  <2>1. /\ Len(cmds) = 2 /\ cmds[1] = c /\ cmds[2] = Sleep
        /\ h[0] = H /\ h[1] = G /\ h[2] = G
    OBVIOUS
  <2>2. May(o, t, A, G, Sleep) /\ Configured(G, Sleep) = G
    BY MaySleep, ConfiguredBy
  <2> HIDE DEF h, cmds, G
  <2>3. Configures(o, t, A, cmds, h)
    <3>1. \A k \in 1..Len(cmds) : (k = 1 /\ k - 1 = 0) \/ (k = 2 /\ k - 1 = 1)
      BY <2>1
    <3> QED BY <1>3, <2>1, <2>2, <3>1 DEF Configures, G
  <2>4. Leads(o, t, own, Holding(A, H), Block(cmds), Holding(A, h[Len(cmds)]))
    BY <2>1, <2>3, LeadsBlock
  <2> QED BY <2>1, <2>4 DEF cmds, G
<1>4. ASSUME NEW c, NEW d, NEW e, NEW H1, NEW H2,
             May(o, t, A, H, c), H1 = Configured(H, c),
             May(o, t, A, H1, d), H2 = Configured(H1, d),
             May(o, t, A, H2, e)
      PROVE  Leads(o, t, own, Holding(A, H), Block(<<c, d, e, Sleep>>),
                   Holding(A, Configured(H2, e)))
  <2> DEFINE G == Configured(H2, e)
             h == [k \in 0..4 |-> IF k = 0 THEN H ELSE IF k = 1 THEN H1
                                  ELSE IF k = 2 THEN H2 ELSE G]
             cmds == <<c, d, e, Sleep>>
  <2>1. /\ Len(cmds) = 4 /\ cmds[1] = c /\ cmds[2] = d /\ cmds[3] = e
        /\ cmds[4] = Sleep
        /\ h[0] = H /\ h[1] = H1 /\ h[2] = H2 /\ h[3] = G /\ h[4] = G
    OBVIOUS
  <2>2. May(o, t, A, G, Sleep) /\ Configured(G, Sleep) = G
    BY MaySleep, ConfiguredBy
  <2> HIDE DEF h, cmds, G
  <2>3. Configures(o, t, A, cmds, h)
    <3>1. \A k \in 1..Len(cmds) : \/ k = 1 /\ k - 1 = 0
                                  \/ k = 2 /\ k - 1 = 1
                                  \/ k = 3 /\ k - 1 = 2
                                  \/ k = 4 /\ k - 1 = 3
      BY <2>1
    <3> QED BY <1>4, <2>1, <2>2, <3>1 DEF Configures, G
  <2>4. Leads(o, t, own, Holding(A, H), Block(cmds), Holding(A, h[Len(cmds)]))
    BY <2>1, <2>3, LeadsBlock
  <2> QED BY <2>1, <2>4 DEF cmds, G
<1> QED BY <1>1, <1>2, <1>3, <1>4

\* What the guards of thread t add to what is configured.
DeviceOf(t)   == IF OnDevice(t) THEN {Device} ELSE {}
MacOf(mac)    == IF mac = 0 THEN {} ELSE {<<"macs", mac>>}
AddrOf(addr)  == { <<"knobs", "autoconf">>, <<"knobs", "accept_ra">>,
                   <<"addrs", addr>> }
RouteOf(rtr)  == { <<"routes", rtr>>, <<"default", rtr>> }

\* Where the numbers of VLANs are, to the two numbers that are none.
LEMMA VlanNumbers ==
  \A v \in 0..RESERVED \cup {NONE} :
    /\ v # RESERVED => ~(RESERVED <= v /\ NONE # v)
    /\ v < RESERVED => ~(RESERVED <= v) /\ ~(v > RESERVED) /\ RESERVED > v
    /\ v < RESERVED <=> v # RESERVED /\ v # NONE
BY DEF NONE, RESERVED

\* The device of a VLAN is added, and deleted with all that is on it.
LEMMA LeadsRaiiVlan ==
  ASSUME NEW o, NEW t, NEW own, NEW A, AtRest(own, A),
         Len(t) = 2, t[2] \in 0..RESERVED \cup {NONE}
  PROVE  /\ Leads(o, t, own, Holding(A, {}), RaiiVlan(t), Holding(A, DeviceOf(t)))
         /\ Leads(o, t, own, Holding(A, DeviceOf(t)), UndoRaiiVlan(t), Holding(A, {}))
<1>0. \A B : AtRest(own, B) => IsControl(own, B)
  BY DEF AtRest
<1>1. AtRest(own, Holding(A, {}))
  BY DEF AtRest, IsControl, Holding, Control
<1>2. t[2] = NONE \/ t[2] = RESERVED \/ (t[2] # NONE /\ t[2] < RESERVED)
  BY Zenon, VlanNumbers
<1>3. CASE t[2] = NONE
  <2>1. ~OnDevice(t) /\ RaiiVlan(t) = <<>> /\ UndoRaiiVlan(t) = <<>>
    BY <1>3 DEF OnDevice, RaiiVlan, UndoRaiiVlan, NONE, RESERVED
  <2> QED BY <1>0, <1>1, <2>1, LeadsEmpty DEF DeviceOf
<1>4. CASE t[2] = RESERVED
  <2> DEFINE d == Cmd("link del", NoLink, 0)
  <2>1. ~OnDevice(t) /\ RaiiVlan(t) = <<>> /\ UndoRaiiVlan(t) = Block(<<d, Sleep>>)
    BY <1>4 DEF OnDevice, RaiiVlan, UndoRaiiVlan, VlanIfaceName, NONE, RESERVED
  <2>2. May(o, t, A, {}, d)
    BY DEF May, Cmd
  <2>3. Configured({}, d) = {}
    BY Zenon DEF Configured, Cmd
  <2> HIDE DEF d
  <2>4. Leads(o, t, own, Holding(A, {}), Block(<<d, Sleep>>), Holding(A, {}))
    BY <2>2, <2>3, LeadsBlocks
  <2> QED BY <1>0, <1>1, <2>1, <2>4, LeadsEmpty DEF DeviceOf
<1>5. CASE t[2] # NONE /\ t[2] < RESERVED
  <2>0. ~(RESERVED <= t[2]) /\ ~(t[2] > RESERVED) /\ RESERVED > t[2]
    BY <1>5, VlanNumbers, Zenon
  <2> DEFINE c == Cmd("link add", t, 0)
             d == Cmd("link del", t, 0)
             H == {Device}
  <2>1. /\ OnDevice(t) /\ RaiiVlan(t) = Block(<<c, Sleep>>)
        /\ UndoRaiiVlan(t) = Block(<<d, Sleep>>) /\ MyLink(t) = t /\ HasLink(t)
    <3>1. HasLink(t)
      BY <1>5 DEF HasLink, Main, RESERVED
    <3> QED BY <1>5, <2>0, <3>1
            DEF OnDevice, RaiiVlan, UndoRaiiVlan, VlanIfaceName, MyLink, LinkName
  <2>2. May(o, t, A, {}, c) /\ May(o, t, A, H, d)
    BY <2>1 DEF May, Cmd
  <2>3. Configured({}, c) = H /\ Configured(H, d) = {} /\ DeviceOf(t) = H
    <3>1. Configured({}, c) = {} \cup {Device}
      BY Zenon DEF Configured, Cmd
    <3>2. Configured(H, d) = {}
      BY Zenon DEF Configured, Cmd
    <3> QED BY <2>1, <3>1, <3>2 DEF DeviceOf
  <2> HIDE DEF c, d, H
  <2>4. /\ Leads(o, t, own, Holding(A, {}), Block(<<c, Sleep>>), Holding(A, H))
        /\ Leads(o, t, own, Holding(A, H), Block(<<d, Sleep>>), Holding(A, {}))
    BY <2>2, <2>3, LeadsBlocks
  <2> QED BY <2>1, <2>3, <2>4
<1> QED BY <1>2, <1>3, <1>4, <1>5

\* The MAC address of a link.
LEMMA LeadsRaiiMac ==
  ASSUME NEW o, NEW t, NEW own, NEW A, AtRest(own, A), NEW H, NEW mac,
         HasLink(t), HasNo(H, {"macs"}), OnDevice(t) => Device \in H
  PROVE  LET l == MyLink(t) IN
         /\ Untested(A) => Leads(o, t, own, Holding(A, H), RaiiMacAddr(l, mac),
                                 Holding(A, H \cup MacOf(mac)))
         /\ Leads(o, t, own, Holding(A, H \cup MacOf(mac)), UndoRaiiMacAddr(l, mac),
                  Holding(A, H))
<1> DEFINE l == MyLink(t)
           c == Cmd("mac set", l, mac)
           d == Cmd("mac reset", l, 0)
           G == H \cup {<<"macs", mac>>}
<1>1. CASE mac = 0
  <2>1. RaiiMacAddr(l, mac) = <<>> /\ UndoRaiiMacAddr(l, mac) = <<>> /\ H \cup MacOf(mac) = H
    BY <1>1 DEF RaiiMacAddr, UndoRaiiMacAddr, MacOf
  <2>2. IsControl(own, Holding(A, H))
    BY DEF AtRest, IsControl, Holding, Control
  <2> QED BY <2>1, <2>2, LeadsEmpty
<1>2. CASE mac # 0
  <2>1. /\ RaiiMacAddr(l, mac) = Block(<<c, Sleep>>)
        /\ UndoRaiiMacAddr(l, mac) = Block(<<d, Sleep>>)
        /\ H \cup MacOf(mac) = G
    BY <1>2 DEF RaiiMacAddr, UndoRaiiMacAddr, MacOf
  <2>2. (Untested(A) => May(o, t, A, H, c)) /\ May(o, t, A, G, d)
    BY DEF May, Cmd, Untested
  <2>3. Configured(H, c) = G /\ Configured(G, d) = H
    <3>1. Configured(H, c) = G
      BY Zenon DEF Configured, Cmd
    <3>2. Configured(G, d) = {h \in G : h[1] # "macs"}
      BY Zenon DEF Configured, Cmd
    <3>3. {h \in G : h[1] # "macs"} = H
      BY DEF HasNo
    <3> QED BY <3>1, <3>2, <3>3
  <2> HIDE DEF c, d, G, l
  <2>4. /\ Untested(A) =>
             Leads(o, t, own, Holding(A, H), Block(<<c, Sleep>>), Holding(A, G))
        /\ Leads(o, t, own, Holding(A, G), Block(<<d, Sleep>>), Holding(A, H))
    BY <2>2, <2>3, LeadsBlocks
  <2> QED BY <2>1, <2>4 DEF l
<1> QED BY <1>1, <1>2

\* A link goes up and down.
LEMMA LeadsRaiiLink ==
  ASSUME NEW o, NEW t, NEW own, NEW A, AtRest(own, A), NEW H,
         HasNo(H, {"knobs", "up", "routes", "default"}),
         HasLink(t), OnDevice(t) => Device \in H
  PROVE  LET l == MyLink(t) IN
         /\ Untested(A) => Leads(o, t, own, Holding(A, H), RaiiIpLink(l),
                                 Holding(A, H \cup {Up}))
         /\ Leads(o, t, own, Holding(A, H \cup {Up}), UndoRaiiIpLink(l), Holding(A, H))
         /\ Leads(o, t, own, Holding(A, H \cup {Up}), captureTraffic(l),
                  Holding(A, H \cup {Up}))
<1> DEFINE l == MyLink(t)
           c == Cmd("sysctl off", l, "autoconf")
           d == Cmd("sysctl off", l, "accept_ra")
           e == Cmd("link up", l, 0)
           f == Cmd("link down", l, 0)
           g == Cmd("dumpcap", l, 0)
           G == H \cup {Up}
<1>1. /\ RaiiIpLink(l) = Block(<<c, d, e, Sleep>>)
      /\ UndoRaiiIpLink(l) = Block(<<f, Sleep>>)
      /\ captureTraffic(l) = Block(<<g>>)
  BY DEF RaiiIpLink, UndoRaiiIpLink, captureTraffic
<1>2. /\ May(o, t, A, H, c) /\ May(o, t, A, H, d) /\ May(o, t, A, G, f)
      /\ May(o, t, A, G, g)
  BY DEF May, Cmd
<1>3. Untested(A) => May(o, t, A, H, e)
  BY DEF May, Cmd, Untested
<1>4. /\ Configured(H, c) = H /\ Configured(H, d) = H /\ Configured(H, e) = G
      /\ Configured(G, f) = H /\ Configured(G, g) = G
  <2>a. Configured(H, c) = H \ {<<"knobs", "autoconf">>}
    BY Zenon DEF Configured, Cmd
  <2>b. Configured(H, d) = H \ {<<"knobs", "accept_ra">>}
    BY Zenon DEF Configured, Cmd
  <2>c. Configured(H, e) = G
    BY Zenon DEF Configured, Cmd
  <2>d. Configured(G, g) = G
    BY Zenon DEF Configured, Cmd
  <2>1. Configured(G, f) = {h \in G : h[1] \notin {"up", "routes", "default"}}
    BY Zenon DEF Configured, Cmd
  <2>2. <<"knobs", "autoconf">> \notin H /\ <<"knobs", "accept_ra">> \notin H
    BY DEF HasNo
  <2>3. {h \in G : h[1] \notin {"up", "routes", "default"}} = H
    BY DEF HasNo, Up
  <2> QED BY <2>a, <2>b, <2>c, <2>d, <2>1, <2>2, <2>3
<1> HIDE DEF c, d, e, f, g, G, l
<1>5. /\ Leads(o, t, own, Holding(A, G), Block(<<f, Sleep>>), Holding(A, H))
      /\ Leads(o, t, own, Holding(A, G), Block(<<g>>), Holding(A, G))
  BY <1>2, <1>4, LeadsBlocks
<1>6. Untested(A) =>
        Leads(o, t, own, Holding(A, H), Block(<<c, d, e, Sleep>>), Holding(A, G))
  BY <1>2, <1>3, <1>4, LeadsBlocks
<1> QED BY <1>1, <1>5, <1>6 DEF G, l

\* The address of a source.
LEMMA LeadsRaiiAddr ==
  ASSUME NEW o, NEW t, NEW own, NEW A, AtRest(own, A), NEW H, NEW addr,
         HasNo(H, {"knobs", "addrs"}), Untested(A),
         HasLink(t), OnDevice(t) => Device \in H
  PROVE  LET l == MyLink(t) IN
         /\ Leads(o, t, own, Holding(A, H), RaiiIpAddr(l, addr),
                  Holding(A, H \cup AddrOf(addr)))
         /\ Leads(o, t, own, Holding(A, H \cup AddrOf(addr)),
                  UndoRaiiIpAddr(l, addr), Holding(A, H))
<1> DEFINE l == MyLink(t)
           a == <<"knobs", "autoconf">>
           r == <<"knobs", "accept_ra">>
           x == <<"addrs", addr>>
           c == Cmd("sysctl on", l, "autoconf")
           d == Cmd("sysctl on", l, "accept_ra")
           e == Cmd("addr add", l, addr)
           f == Cmd("addr del", l, addr)
           g == Cmd("sysctl off", l, "accept_ra")
           i == Cmd("sysctl off", l, "autoconf")
           G1 == H \cup {a}
           G2 == G1 \cup {r}
           G == G2 \cup {x}
<1>1. /\ RaiiIpAddr(l, addr) = Block(<<c, d, e, Sleep>>)
      /\ UndoRaiiIpAddr(l, addr) = Block(<<f, g, i, Sleep>>)
      /\ H \cup AddrOf(addr) = G
  BY DEF RaiiIpAddr, UndoRaiiIpAddr, AddrOf
<1>2. /\ May(o, t, A, H, c) /\ May(o, t, A, G1, d) /\ May(o, t, A, G2, e)
      /\ May(o, t, A, G, f) /\ May(o, t, A, G2, g) /\ May(o, t, A, G1, i)
  BY DEF May, Cmd, Untested
<1>3. /\ Configured(H, c) = G1 /\ Configured(G1, d) = G2 /\ Configured(G2, e) = G
      /\ Configured(G, f) = G \ {x} /\ Configured(G2, g) = G2 \ {r}
      /\ Configured(G1, i) = G1 \ {a}
  <2>1. Configured(H, c) = G1
    BY Zenon DEF Configured, Cmd
  <2>2. Configured(G1, d) = G2
    BY Zenon DEF Configured, Cmd
  <2>3. Configured(G2, e) = G
    BY Zenon DEF Configured, Cmd
  <2>4. Configured(G, f) = G \ {x}
    BY Zenon DEF Configured, Cmd
  <2>5. Configured(G2, g) = G2 \ {r}
    BY Zenon DEF Configured, Cmd
  <2>6. Configured(G1, i) = G1 \ {a}
    BY Zenon DEF Configured, Cmd
  <2> QED BY <2>1, <2>2, <2>3, <2>4, <2>5, <2>6
<1>4. G \ {x} = G2 /\ G2 \ {r} = G1 /\ G1 \ {a} = H
  BY DEF HasNo
<1> HIDE DEF c, d, e, f, g, i, G1, G2, G, a, r, x, l
<1>5. /\ Leads(o, t, own, Holding(A, H), Block(<<c, d, e, Sleep>>), Holding(A, G))
      /\ Leads(o, t, own, Holding(A, G), Block(<<f, g, i, Sleep>>), Holding(A, H))
  BY <1>2, <1>3, <1>4, LeadsBlocks
<1> QED BY <1>1, <1>5 DEF l

\* The routes of a test through a router, inter-network.
LEMMA LeadsRaiiRoute ==
  ASSUME NEW o, NEW t, NEW own, NEW A, AtRest(own, A), NEW H, NEW rtr,
         HasNo(H, {"routes", "default"}), Up \in H,
         o.scope = "inter", HasLink(t), Len(t) = 2
  PROVE  LET l == MyLink(t) IN
         /\ Leads(o, t, own, Holding(A, H), RaiiIpRoute(l, rtr),
                  Holding(A, H \cup RouteOf(rtr)))
         /\ Leads(o, t, own, Holding(A, H \cup RouteOf(rtr)),
                  UndoRaiiIpRoute(l, rtr), Holding(A, H))
<1> DEFINE l == MyLink(t)
           a == <<"routes", rtr>>
           r == <<"default", rtr>>
           c == Cmd("route add", l, rtr)
           d == Cmd("default add", NoLink, rtr)
           e == Cmd("flush cache", NoLink, 0)
           f == Cmd("default del", NoLink, rtr)
           g == Cmd("route del", l, rtr)
           G1 == H \cup {a}
           G == G1 \cup {r}
<1>1. /\ RaiiIpRoute(l, rtr) = Block(<<c, d, e, Sleep>>)
      /\ UndoRaiiIpRoute(l, rtr) = Block(<<f, g, e, Sleep>>)
      /\ H \cup RouteOf(rtr) = G
  BY DEF RaiiIpRoute, UndoRaiiIpRoute, RouteOf
<1>2. /\ May(o, t, A, H, c) /\ May(o, t, A, G1, d) /\ May(o, t, A, G, e)
      /\ May(o, t, A, G, f) /\ May(o, t, A, G1, g) /\ May(o, t, A, H, e)
  BY DEF May, Cmd, HasNo
<1>3. /\ Configured(H, c) = G1 /\ Configured(G1, d) = G /\ Configured(G, e) = G
      /\ Configured(G, f) = G \ {r} /\ Configured(G1, g) = G1 \ {a}
      /\ Configured(H, e) = H
  <2>1. Configured(H, c) = G1
    BY Zenon DEF Configured, Cmd
  <2>2. Configured(G1, d) = G
    BY Zenon DEF Configured, Cmd
  <2>3. Configured(G, e) = G /\ Configured(H, e) = H
    BY Zenon DEF Configured, Cmd
  <2>4. Configured(G, f) = G \ {r}
    BY Zenon DEF Configured, Cmd
  <2>5. Configured(G1, g) = G1 \ {a}
    BY Zenon DEF Configured, Cmd
  <2> QED BY <2>1, <2>2, <2>3, <2>4, <2>5
<1>4. G \ {r} = G1 /\ G1 \ {a} = H
  BY DEF HasNo
<1> HIDE DEF c, d, e, f, g, G1, G, a, r, l
<1>5. \A K, c1, c2, c3, K1, K2 :
        /\ May(o, t, A, K, c1) /\ K1 = Configured(K, c1)
        /\ May(o, t, A, K1, c2) /\ K2 = Configured(K1, c2)
        /\ May(o, t, A, K2, c3)
        => Leads(o, t, own, Holding(A, K), Block(<<c1, c2, c3, Sleep>>),
                 Holding(A, Configured(K2, c3)))
  BY LeadsBlocks
<1>6. Leads(o, t, own, Holding(A, H), Block(<<c, d, e, Sleep>>),
            Holding(A, Configured(G, e)))
  BY <1>2, <1>3, <1>5
<1>7. Leads(o, t, own, Holding(A, G), Block(<<f, g, e, Sleep>>),
            Holding(A, Configured(H, e)))
  BY <1>2, <1>3, <1>4, <1>5
<1> QED BY <1>1, <1>3, <1>6, <1>7 DEF l

-----------------------------------------------------------------------------
(* The tests of a source.                                                  *)

\* The plays file is a sequence of phases, each a sequence of command sets.
LEMMA PlaysTyped ==
  /\ Len(Plays) \in Nat
  /\ \A p \in 1..Len(Plays) : Len(Plays[p]) \in Nat
BY OptionsAssumption, LenProperties, ElementOfSeq

\* A point within a session of a source of the thread is a control point.
LEMMA PointWithin ==
  ASSUME NEW own, NEW done \in SUBSET own, NEW tested,
         NEW src \in own \ done, NEW rtr, <<src, rtr>> \notin tested,
         NEW p \in Nat, NEW k \in Nat, NEW ch, NEW H, ReadyFor(H, src, rtr)
  PROVE  IsControl(own, Within(done, tested, src, rtr, p, k, ch, H))
BY DEF IsControl, Within, Control

\* A point between sessions is a control point.
LEMMA PointBetween ==
  ASSUME NEW own, NEW done \in SUBSET own, NEW tested, NEW H
  PROVE  AtRest(own, Between(done, tested, H)) /\ IsControl(own, Between(done, tested, H))
BY DEF AtRest, IsControl, Between, Control

\* A command set is one step, after the one that skips it.
LEMMA LeadsSet ==
  ASSUME NEW o \in OptionType, NEW t, NEW own, NEW done \in SUBSET own, NEW tested,
         NEW src \in own \ done, NEW rtr, <<src, rtr>> \notin tested,
         NEW p \in 1..Len(Plays), NEW s \in 1..Len(Plays[p]),
         NEW ch, o.ignoreIfaceStateChange => ch,
         NEW H, ReadyFor(H, src, rtr)
  PROVE  Leads(o, t, own, Within(done, tested, src, rtr, p, s - 1, ch, H),
               runPhaseCommands(o, src, rtr, p, s),
               Within(done, tested, src, rtr, p, s, ch, H))
<1> DEFINE A == Within(done, tested, src, rtr, p, s - 1, ch, H)
           B == Within(done, tested, src, rtr, p, s, ch, H)
           off == [do |-> "disable", cmds |-> <<>>]
           x == [do |-> "set", cmds |-> PhaseCommands(src, rtr, p, s),
                 onFail |-> Plays[p][s].onFail]
           guard == IF o.noPrompt /\ Plays[p][s].skip THEN Do("disable") ELSE <<>>
<1>1. s \in Nat /\ s - 1 \in Nat /\ (s - 1) + 1 = s /\ p \in Nat
  BY PlaysTyped
<1>2. IsControl(own, A) /\ IsControl(own, B)
  BY <1>1, PointWithin
<1>3. HasNextSet(A) /\ A.phase = p /\ A.set + 1 = s
  BY <1>1 DEF HasNextSet, Within, Control
<1>4. SetFollows(A, x, B)
  BY <1>1, <1>3 DEF SetFollows, Within, Control
<1>5. Leads(o, t, own, A, <<x>>, B)
  <2>0. o.ignoreIfaceStateChange => A.checked
    BY DEF Within, Control
  <2> HIDE DEF A, B, x
  <2>1. Follows(o, t, own, A, x, B)
    BY <1>4, <2>0 DEF Follows
  <2> QED BY <1>2, <2>1, LeadsStep
<1>6. Leads(o, t, own, A, guard, A)
  <2>1. CASE o.noPrompt /\ Plays[p][s].skip
    <3>1. DisableFollows(o, A, off, A)
      BY <1>3, <2>1 DEF DisableFollows
    <3>2. Follows(o, t, own, A, off, A)
      BY <3>1 DEF Follows
    <3>3. guard = <<off>>
      BY <2>1 DEF Do
    <3> HIDE DEF A, off, guard
    <3> QED BY <1>2, <3>2, <3>3, LeadsStep
  <2>2. CASE ~(o.noPrompt /\ Plays[p][s].skip)
    <3>1. guard = <<>>
      BY <2>2
    <3> HIDE DEF A, guard
    <3> QED BY <1>2, <3>1, LeadsEmpty
  <2> QED BY <2>1, <2>2
<1>7. runPhaseCommands(o, src, rtr, p, s) = guard \o <<x>>
  BY DEF runPhaseCommands
<1> HIDE DEF A, B, guard, x
<1>8. Leads(o, t, own, A, guard \o <<x>>, B)
  BY <1>5, <1>6, LeadsConcat
<1> QED BY <1>7, <1>8 DEF A, B

\* phaseCheck checks the link, if that is asked for.
LEMMA LeadsCheck ==
  ASSUME NEW o \in OptionType, NEW t, NEW own, NEW done \in SUBSET own, NEW tested,
         NEW src \in own \ done, NEW rtr, <<src, rtr>> \notin tested,
         NEW p \in 1..Len(Plays), NEW H, ReadyFor(H, src, rtr)
  PROVE  Leads(o, t, own, Within(done, tested, src, rtr, p, 0, FALSE, H),
               phaseCheck(o, src),
               Within(done, tested, src, rtr, p, 0, o.ignoreIfaceStateChange, H))
<1> DEFINE A == Within(done, tested, src, rtr, p, 0, FALSE, H)
           B == Within(done, tested, src, rtr, p, 0, TRUE, H)
           x == [do |-> "check", cmds |-> <<>>, src |-> src]
<1>1. IsControl(own, A) /\ IsControl(own, B)
  <2>1. p \in Nat /\ 0 \in Nat
    BY PlaysTyped
  <2> QED BY <2>1, PointWithin
<1>2. CheckFollows(A, x, B)
  BY PlaysTyped DEF CheckFollows, Within, Control
<1>3. o.ignoreIfaceStateChange \in BOOLEAN
  BY DEF OptionType
<1> HIDE DEF A, B
<1>4. CASE o.ignoreIfaceStateChange
  <2>1. phaseCheck(o, src) = <<x>>
    BY <1>4 DEF phaseCheck
  <2>2. Follows(o, t, own, A, x, B)
    BY <1>2, <1>4 DEF Follows
  <2> HIDE DEF x
  <2>3. Leads(o, t, own, A, <<x>>, B)
    BY <1>1, <2>2, LeadsStep
  <2>4. o.ignoreIfaceStateChange = TRUE
    BY <1>3, <1>4
  <2> QED BY <2>1, <2>3, <2>4 DEF A, B
<1>5. CASE ~o.ignoreIfaceStateChange
  <2>1. phaseCheck(o, src) = <<>>
    BY <1>5 DEF phaseCheck
  <2>2. Leads(o, t, own, A, <<>>, A)
    BY <1>1, LeadsEmpty
  <2>3. o.ignoreIfaceStateChange = FALSE
    BY <1>3, <1>5
  <2> QED BY <2>1, <2>2, <2>3 DEF A
<1> QED BY <1>4, <1>5

\* A phase goes through its command sets in order, if it is enabled.
LEMMA LeadsPhase ==
  ASSUME NEW o \in OptionType, NEW t, NEW own, NEW done \in SUBSET own, NEW tested,
         NEW src \in own \ done, NEW rtr, <<src, rtr>> \notin tested,
         NEW p \in 1..Len(Plays), NEW H, ReadyFor(H, src, rtr)
  PROVE  Leads(o, t, own, Within(done, tested, src, rtr, p, 0, FALSE, H),
               phaseCheck(o, src)
                 \o (IF o.phases # {} /\ p \notin o.phases THEN <<>>
                     ELSE Concat(Len(Plays[p]), LAMBDA s :
                            runPhaseCommands(o, src, rtr, p, s)))
                 \o Do("end of phase"),
               Within(done, tested, src, rtr, p + 1, 0, FALSE, H))
<1> DEFINE n == Len(Plays[p])
           first == Within(done, tested, src, rtr, p, 0, FALSE, H)
           at(k) == Within(done, tested, src, rtr, p, k, o.ignoreIfaceStateChange, H)
           next == Within(done, tested, src, rtr, p + 1, 0, FALSE, H)
           ss == [k \in 1..n |-> runPhaseCommands(o, src, rtr, p, k)]
           sets == IF o.phases # {} /\ p \notin o.phases THEN <<>>
                   ELSE FlattenSeq(ss)
           last == IF o.phases # {} /\ p \notin o.phases THEN 0 ELSE n
           q == [k \in 1..(n + 1) |-> at(k - 1)]
           x == [do |-> "end of phase", cmds |-> <<>>]
<1>1. n \in Nat /\ p \in Nat /\ p + 1 \in Nat /\ 0 \in Nat /\ last \in Nat
  BY PlaysTyped
<1>2. IsControl(own, at(0)) /\ IsControl(own, at(last)) /\ IsControl(own, next)
  <2> HIDE DEF last
  <2> QED BY <1>1, PointWithin
<1>3. Leads(o, t, own, first, phaseCheck(o, src), at(0))
  BY LeadsCheck
<1>4. Leads(o, t, own, at(0), sets, at(last))
  <2>1. CASE o.phases # {} /\ p \notin o.phases
    <3>1. sets = <<>> /\ last = 0
      BY <2>1
    <3> HIDE DEF at, sets, last
    <3> QED BY <1>2, <3>1, LeadsEmpty
  <2>2. CASE ~(o.phases # {} /\ p \notin o.phases)
    <3>1. sets = FlattenSeq(ss) /\ last = n
      BY <2>2
    <3>2. /\ q[1] = at(0) /\ q[n + 1] = at(n)
          /\ \A k \in 1..n : q[k] = at(k - 1) /\ q[k + 1] = at(k)
      <4> HIDE DEF at, n
      <4>1. 1 \in 1..(n + 1) /\ n + 1 \in 1..(n + 1) /\ 1 - 1 = 0 /\ (n + 1) - 1 = n
        BY <1>1
      <4>2. \A k \in 1..n : k \in 1..(n + 1) /\ k + 1 \in 1..(n + 1) /\ (k + 1) - 1 = k
        BY <1>1
      <4> QED BY <4>1, <4>2
    <3>3. \A k \in 1..n : Leads(o, t, own, at(k - 1), ss[k], at(k))
      <4> TAKE k \in 1..n
      <4>1. ss[k] = runPhaseCommands(o, src, rtr, p, k)
        OBVIOUS
      <4> HIDE DEF ss
      <4> QED BY <4>1, LeadsSet
    <3>4. ss = [k \in 1..n |-> ss[k]]
      OBVIOUS
    <3> HIDE DEF ss, q, n, at, sets, last
    <3>5. \A k \in 1..n : Leads(o, t, own, q[k], ss[k], q[k + 1])
      BY <3>2, <3>3
    <3>6. Leads(o, t, own, q[1], FlattenSeq(ss), q[n + 1])
      BY <1>1, <1>2, <3>2, <3>4, <3>5, LeadsLoop
    <3> QED BY <3>1, <3>2, <3>6
  <2> QED BY <2>1, <2>2
<1>5. EndPhaseFollows(o, at(last), x, next)
  <2>1. PhaseEnabled(o, p) => last = n
    BY DEF PhaseEnabled
  <2> HIDE DEF last
  <2> QED BY <2>1 DEF EndPhaseFollows, Within, Control
<1>6. Leads(o, t, own, at(last), Do("end of phase"), next)
  <2>1. Do("end of phase") = <<x>>
    BY DEF Do
  <2> HIDE DEF at, next, x, last
  <2>2. Follows(o, t, own, at(last), x, next)
    BY <1>5 DEF Follows
  <2> QED BY <1>2, <2>1, <2>2, LeadsStep
<1>7. Concat(Len(Plays[p]), LAMBDA s : runPhaseCommands(o, src, rtr, p, s))
        = FlattenSeq(ss)
  BY DEF Concat
<1> HIDE DEF first, at, next, last, sets, ss
<1>8. Leads(o, t, own, first, (phaseCheck(o, src) \o sets) \o Do("end of phase"), next)
  BY <1>3, <1>4, <1>6, LeadsConcat
<1> QED BY <1>7, <1>8 DEF first, next, sets

\* The body of phaseActions' loop, one phase.
PhaseSteps(o, src, rtr, p) ==
  phaseCheck(o, src)
    \o (IF o.phases # {} /\ p \notin o.phases THEN <<>>
        ELSE Concat(Len(Plays[p]), LAMBDA s :
               runPhaseCommands(o, src, rtr, p, s)))
    \o Do("end of phase")

\* A session goes through all phases in order and leaves the source and its
\* router tested.
LEMMA LeadsSession ==
  ASSUME NEW o \in OptionType, NEW t, NEW own, NEW done \in SUBSET own, NEW tested,
         NEW src \in own \ done, NEW rtr \in RoutersOf(o, src),
         <<src, rtr>> \notin tested, NEW H, ReadyFor(H, src, rtr)
  PROVE  Leads(o, t, own, Between(done, tested, H), networkActions(o, src, rtr),
               Between(done, tested \cup {<<src, rtr>>}, H))
<1> DEFINE n == Len(Plays)
           A == Between(done, tested, H)
           B == Between(done, tested \cup {<<src, rtr>>}, H)
           at(k) == Within(done, tested, src, rtr, k, 0, FALSE, H)
           ss == [p \in 1..n |-> PhaseSteps(o, src, rtr, p)]
           q == [k \in 1..(n + 1) |-> at(k)]
           x == [do |-> "session", cmds |-> <<>>]
           y == [do |-> "reset", cmds |-> <<>>]
<1>1. n \in Nat
  BY PlaysTyped
<1>2. IsControl(own, A) /\ IsControl(own, B) /\ AtRest(own, B)
  BY PointBetween
<1>3. \A k \in 1..(n + 1) : IsControl(own, at(k))
  <2> TAKE k \in 1..(n + 1)
  <2>1. k \in Nat /\ 0 \in Nat
    BY <1>1
  <2> QED BY <2>1, PointWithin
<1>4. Leads(o, t, own, A, Do("session"), at(1))
  <2>1. SessionFollows(o, own, A, x, at(1))
    BY DEF SessionFollows, Between, Within, Control
  <2>2. Do("session") = <<x>> /\ 1 \in 1..(n + 1)
    BY <1>1 DEF Do
  <2> HIDE DEF x, A, at
  <2>3. Follows(o, t, own, A, x, at(1))
    BY <2>1 DEF Follows
  <2> QED BY <1>2, <1>3, <2>2, <2>3, LeadsStep
<1>5. Leads(o, t, own, at(1), FlattenSeq(ss), at(n + 1))
  <2>1. /\ q[1] = at(1) /\ q[n + 1] = at(n + 1)
        /\ \A k \in 1..n : q[k] = at(k) /\ q[k + 1] = at(k + 1)
    <3> HIDE DEF at, n
    <3>1. /\ 1 \in 1..(n + 1) /\ n + 1 \in 1..(n + 1)
          /\ \A k \in 1..n : k \in 1..(n + 1) /\ k + 1 \in 1..(n + 1)
      BY <1>1
    <3> QED BY <3>1
  <2>2. \A k \in 1..n : Leads(o, t, own, at(k), ss[k], at(k + 1))
    BY LeadsPhase DEF PhaseSteps
  <2>3. ss = [k \in 1..n |-> ss[k]]
    OBVIOUS
  <2>4. IsControl(own, at(1))
    <3>1. 1 \in 1..(n + 1)
      BY <1>1
    <3> HIDE DEF at
    <3> QED BY <1>3, <3>1
  <2> HIDE DEF ss, q, n, at
  <2>5. \A k \in 1..n : Leads(o, t, own, q[k], ss[k], q[k + 1])
    BY <2>1, <2>2
  <2>6. Leads(o, t, own, q[1], FlattenSeq(ss), q[n + 1])
    BY <1>1, <2>1, <2>3, <2>4, <2>5, LeadsLoop
  <2> QED BY <2>1, <2>6
<1>6. Leads(o, t, own, at(n + 1), Do("reset"), B)
  <2>1. ResetFollows(at(n + 1), y, B)
    BY DEF ResetFollows, Between, Within, Control
  <2>2. Do("reset") = <<y>> /\ n + 1 \in 1..(n + 1)
    BY <1>1 DEF Do
  <2>3. IsControl(own, at(n + 1))
    BY <1>3, <2>2
  <2> HIDE DEF y, B, at, n
  <2>4. Follows(o, t, own, at(n + 1), y, B)
    BY <2>1 DEF Follows
  <2> QED BY <1>2, <2>2, <2>3, <2>4, LeadsStep
<1>7. Leads(o, t, own, B, Block(<<>>), B)
  <2>1. Holding(B, H) = B
    BY DEF Holding, Between, Control
  <2> HIDE DEF B
  <2> QED BY <1>2, <2>1, LeadsBlocks
<1>8. phaseActions(o, src, rtr) = FlattenSeq(ss)
  BY DEF phaseActions, Concat, PhaseSteps
<1> HIDE DEF A, B, at, n, ss
<1>9. Leads(o, t, own, A,
            ((Do("session") \o FlattenSeq(ss)) \o Do("reset")) \o Block(<<>>), B)
  BY <1>4, <1>5, <1>6, <1>7, LeadsConcat
<1> QED BY <1>8, <1>9 DEF networkActions, A, B

\* The sessions of the sources that are done.
TestsOf(o, done) == UNION {{<<s, r>> : r \in RoutersOf(o, s)} : s \in done}
Done(o, done, H) == Between(done, TestsOf(o, done), H)

\* sourceTests goes through every router of the source, once.
LEMMA LeadsTests ==
  ASSUME NEW o \in OptionType, NEW t, NEW own \in SUBSET Rows,
         NEW done \in SUBSET own, NEW src \in own \ done,
         HasLink(t), Len(t) = 2, SourceLink(src) = MyLink(t),
         NEW H, HasNo(H, {"routes", "default"}),
         Up \in H, <<"addrs", src.addr>> \in H
  PROVE  Leads(o, t, own, Done(o, done, H), sourceTests(o, src),
               Between(done, TestsOf(o, done \cup {src}), H))
<1> DEFINE tested == TestsOf(o, done)
           all == TestsOf(o, done \cup {src})
<1>1. all = tested \cup {<<src, r>> : r \in RoutersOf(o, src)}
  BY DEF TestsOf
<1>2. \A r : <<src, r>> \notin tested
  BY DEF TestsOf
<1>3. CASE o.scope = "intra"
  <2>1. RoutersOf(o, src) = {0} /\ 0 \in RoutersOf(o, src)
    BY <1>3 DEF RoutersOf
  <2>2. Between(done, all, H) = Between(done, tested \cup {<<src, 0>>}, H)
    <3> HIDE DEF tested, all
    <3>1. all = tested \cup {<<src, 0>>}
      BY <1>1, <2>1
    <3> QED BY <3>1
  <2>3. sourceTests(o, src) = networkActions(o, src, 0)
    BY <1>3 DEF sourceTests
  <2> HIDE DEF tested, all
  <2>4. Leads(o, t, own, Between(done, tested, H), networkActions(o, src, 0),
              Between(done, tested \cup {<<src, 0>>}, H))
    <3>1. ReadyFor(H, src, 0)
      BY DEF ReadyFor
    <3> QED BY <1>2, <2>1, <3>1, LeadsSession
  <2> QED BY <2>2, <2>3, <2>4 DEF Done, tested, all
<1>4. CASE o.scope # "intra"
  <2> DEFINE keys == Ascending(src.routers)
             n == Len(keys)
             l == SourceLink(src)
             sofar(k) == {<<src, keys[j]>> : j \in 1..k}
             at(k) == Between(done, tested \cup sofar(k), H)
             ss == [k \in 1..n |-> RaiiIpRoute(l, keys[k])
                                     \o networkActions(o, src, keys[k])
                                     \o UndoRaiiIpRoute(l, keys[k])]
             q == [k \in 1..(n + 1) |-> at(k - 1)]
  <2>1. src.routers \in SUBSET Nat /\ IsFiniteSet(src.routers)
    BY RowsAssumption DEF RowType
  <2>2. RoutersOf(o, src) = src.routers
    BY <1>4 DEF RoutersOf
  <2>3. /\ n \in Nat
        /\ \A k \in 1..n : keys[k] \in src.routers
        /\ \A k, m \in 1..n : keys[k] = keys[m] => k = m
        /\ \A r \in src.routers : \E k \in 1..n : keys[k] = r
    BY <2>1, AscendingKeys
  <2>4. sourceTests(o, src) = FlattenSeq(ss)
    BY <1>4 DEF sourceTests, ForEach, Concat
  <2> HIDE DEF keys, n, tested, all, l
  <2>5. at(0) = Between(done, tested, H) /\ at(n) = Between(done, all, H)
    <3>1. tested \cup sofar(0) = tested
      OBVIOUS
    <3>2. tested \cup sofar(n) = all
      BY <1>1, <2>2, <2>3
    <3> HIDE DEF sofar
    <3> QED BY <3>1, <3>2
  <2>6. \A k \in 1..n : Leads(o, t, own, at(k - 1), ss[k], at(k))
    <3> TAKE k \in 1..n
    <3> DEFINE T == tested \cup sofar(k - 1)
               G == H \cup RouteOf(keys[k])
               U == T \cup {<<src, keys[k]>>}
               A == Between(done, T, H)
               B == Between(done, U, H)
    <3>1. sofar(k) = sofar(k - 1) \cup {<<src, keys[k]>>}
      <4>1. \A j : j \in 1..k <=> (j \in 1..(k - 1) \/ j = k)
        BY <2>3
      <4> QED BY <4>1
    <3>2. B = at(k)
      <4>1. T \cup {<<src, keys[k]>>} = tested \cup sofar(k)
        BY <3>1
      <4> HIDE DEF T, sofar
      <4> QED BY <4>1
    <3>3. <<src, keys[k]>> \notin T
      <4>1. \A j \in 1..(k - 1) : j \in 1..n /\ j # k
        BY <2>3
      <4> QED BY <1>2, <2>3, <4>1
    <3>4. keys[k] \in RoutersOf(o, src)
      BY <2>2, <2>3
    <3>5. /\ AtRest(own, A) /\ AtRest(own, B)
          /\ A = Holding(A, H) /\ Holding(A, G) = Between(done, T, G)
          /\ B = Holding(B, H) /\ Holding(B, G) = Between(done, U, G)
      <4>1. AtRest(own, A) /\ AtRest(own, B)
        BY PointBetween
      <4> QED BY <4>1 DEF Holding, Between, Control
    <3>6. Leads(o, t, own, Between(done, T, G), networkActions(o, src, keys[k]),
                Between(done, U, G))
      <4>1. ReadyFor(G, src, keys[k])
        BY DEF ReadyFor, HasNo, RouteOf, Up
      <4> HIDE DEF T, G
      <4> QED BY <3>3, <3>4, <4>1, LeadsSession
    <3>7. /\ Leads(o, t, own, Holding(A, H), RaiiIpRoute(l, keys[k]), Holding(A, G))
          /\ Leads(o, t, own, Holding(B, G), UndoRaiiIpRoute(l, keys[k]), Holding(B, H))
      <4>1. o.scope = "inter"
        BY <1>4 DEF OptionType
      <4>2. l = MyLink(t)
        BY DEF l
      <4> HIDE DEF A, B
      <4> QED BY <3>5, <4>1, <4>2, LeadsRaiiRoute
    <3> HIDE DEF A, B, G, T, U
    <3>8. Leads(o, t, own, A, (RaiiIpRoute(l, keys[k])
                                 \o networkActions(o, src, keys[k]))
                                 \o UndoRaiiIpRoute(l, keys[k]), B)
      BY <3>5, <3>6, <3>7, LeadsConcat
    <3> QED BY <3>2, <3>8 DEF A, T
  <2>7. ss = [k \in 1..n |-> ss[k]] /\ IsControl(own, at(0))
    BY PointBetween
  <2> HIDE DEF ss, sofar, at
  <2>8. /\ q[1] = at(0) /\ q[n + 1] = at(n)
        /\ \A k \in 1..n : q[k] = at(k - 1) /\ q[k + 1] = at(k)
    <3>1. 1 \in 1..(n + 1) /\ n + 1 \in 1..(n + 1) /\ 1 - 1 = 0 /\ (n + 1) - 1 = n
      BY <2>3
    <3>2. \A k \in 1..n : k \in 1..(n + 1) /\ k + 1 \in 1..(n + 1) /\ (k + 1) - 1 = k
      BY <2>3
    <3> QED BY <3>1, <3>2
  <2> HIDE DEF q
  <2>9. Leads(o, t, own, q[1], FlattenSeq(ss), q[n + 1])
    <3>1. \A k \in 1..n : Leads(o, t, own, q[k], ss[k], q[k + 1])
      BY <2>6, <2>8
    <3>2. n \in Nat /\ IsControl(own, q[1]) /\ ss = [k \in 1..n |-> ss[k]]
      BY <2>3, <2>7, <2>8
    <3> QED BY <3>1, <3>2, LeadsLoop
  <2> QED BY <2>4, <2>5, <2>8, <2>9 DEF Done, tested, all
<1> QED BY <1>3, <1>4

\* A source is tested and then completed.
LEMMA LeadsSource ==
  ASSUME NEW o \in OptionType, NEW t, NEW own \in SUBSET Rows,
         NEW done \in SUBSET own, NEW src \in own \ done,
         HasLink(t), Len(t) = 2, SourceLink(src) = MyLink(t),
         NEW H, HasNo(H, {"knobs", "addrs", "routes", "default"}),
         Up \in H, OnDevice(t) => Device \in H
  PROVE  Leads(o, t, own, Done(o, done, H), sourceActions(o, src),
               Done(o, done \cup {src}, H))
<1> DEFINE T == TestsOf(o, done \cup {src})
           G == H \cup AddrOf(src.addr)
           A == Done(o, done, H)
           AG == Done(o, done, G)
           B == Between(done, T, G)
           CG == Done(o, done \cup {src}, G)
           C == Done(o, done \cup {src}, H)
           l == SourceLink(src)
           x == [do |-> "complete", cmds |-> <<>>, src |-> src]
<1>1. /\ IsControl(own, B) /\ IsControl(own, CG)
      /\ AtRest(own, A) /\ AtRest(own, C)
  <2>1. done \cup {src} \in SUBSET own
    OBVIOUS
  <2> HIDE DEF T, G
  <2> QED BY <2>1, PointBetween DEF Done
<1>2. Leads(o, t, own, AG, sourceTests(o, src), B)
  <2>1. /\ HasNo(G, {"routes", "default"})
        /\ Up \in G /\ <<"addrs", src.addr>> \in G
    BY DEF HasNo, AddrOf
  <2> HIDE DEF G
  <2> QED BY <2>1, LeadsTests
<1>3. Leads(o, t, own, B, setCompleted(src), CG)
  <2>1. \A r \in RoutersOf(o, src) : <<src, r>> \in T
    BY DEF TestsOf
  <2>2. CompleteFollows(o, own, B, x, CG)
    <3> HIDE DEF T, G
    <3>1. CG = Between(done \cup {src}, T, G)
      BY DEF Done, T
    <3> HIDE DEF CG
    <3> QED BY <2>1, <3>1 DEF CompleteFollows, Between, Control
  <2>3. setCompleted(src) = <<x>>
    BY DEF setCompleted
  <2> HIDE DEF B, CG, x
  <2>4. Follows(o, t, own, B, x, CG)
    BY <2>2 DEF Follows
  <2> QED BY <1>1, <2>3, <2>4, LeadsStep
<1>4. /\ Holding(A, H) = A /\ Holding(A, G) = AG
      /\ Holding(C, H) = C /\ Holding(C, G) = CG
  BY DEF Holding, Done, Between, Control
<1>5. Untested(A) /\ Untested(C)
  BY DEF Untested, Done, TestsOf, Between, Control
<1>6. HasNo(H, {"knobs", "addrs"})
  BY DEF HasNo
<1> HIDE DEF A, AG, B, C, CG
<1>7. /\ Leads(o, t, own, Holding(A, H), RaiiIpAddr(l, src.addr), Holding(A, G))
      /\ Leads(o, t, own, Holding(C, G), UndoRaiiIpAddr(l, src.addr), Holding(C, H))
  BY <1>1, <1>5, <1>6, LeadsRaiiAddr
<1>8. Leads(o, t, own, A,
            ((RaiiIpAddr(l, src.addr) \o sourceTests(o, src))
               \o setCompleted(src)) \o UndoRaiiIpAddr(l, src.addr), C)
  BY <1>2, <1>3, <1>4, <1>7, LeadsConcat
<1> QED BY <1>8 DEF sourceActions, A, C

\* The keys of some rows are finitely many numbers.
LEMMA RowKeys ==
  ASSUME NEW rows \in SUBSET Rows
  PROVE  /\ IsFiniteSet(rows)
         /\ {r.mac : r \in rows} \in SUBSET Nat
         /\ IsFiniteSet({r.mac : r \in rows})
         /\ {r.addr : r \in rows} \in SUBSET Nat
         /\ IsFiniteSet({r.addr : r \in rows})
         /\ {r.vlan : r \in rows} \in SUBSET Nat
         /\ IsFiniteSet({r.vlan : r \in rows})
         /\ {r.iface : r \in rows} \in SUBSET Nat
         /\ IsFiniteSet({r.iface : r \in rows})
         /\ {r.stage : r \in rows} \in SUBSET Nat
         /\ IsFiniteSet({r.stage : r \in rows})
<1>1. IsFiniteSet(rows)
  BY RowsAssumption, FS_Subset
<1>2. \A r \in rows : /\ r.mac \in Nat /\ r.addr \in Nat /\ r.vlan \in Nat
                      /\ r.iface \in Nat /\ r.stage \in Nat
  <2> TAKE r \in rows
  <2>1. r \in RowType
    BY RowsAssumption
  <2>2. r.vlan \in 0..RESERVED \cup {NONE}
    BY <2>1 DEF RowType
  <2>3. \A v \in 0..RESERVED \cup {NONE} : v \in Nat
    BY DEF RESERVED, NONE
  <2> QED BY <2>1, <2>2, <2>3 DEF RowType
<1> DEFINE mac == [r \in rows |-> r.mac]
           addr == [r \in rows |-> r.addr]
           vlan == [r \in rows |-> r.vlan]
           iface == [r \in rows |-> r.iface]
           stg == [r \in rows |-> r.stage]
<1>3. /\ {r.mac : r \in rows} = {mac[r] : r \in rows}
      /\ {r.addr : r \in rows} = {addr[r] : r \in rows}
      /\ {r.vlan : r \in rows} = {vlan[r] : r \in rows}
      /\ {r.iface : r \in rows} = {iface[r] : r \in rows}
      /\ {r.stage : r \in rows} = {stg[r] : r \in rows}
  OBVIOUS
<1> HIDE DEF mac, addr, vlan, iface, stg
<1>4. /\ IsFiniteSet({mac[r] : r \in rows})
      /\ IsFiniteSet({addr[r] : r \in rows})
      /\ IsFiniteSet({vlan[r] : r \in rows})
      /\ IsFiniteSet({iface[r] : r \in rows})
      /\ IsFiniteSet({stg[r] : r \in rows})
  BY <1>1, FiniteImage
<1> QED BY <1>1, <1>2, <1>3, <1>4

\* The rows of a VLAN thread in one stage.
RowsOf(rows, stage, t) ==
  {r \in rows : r.stage = stage /\ r.iface = t[1] /\ r.vlan = t[2]}

\* The sources of one MAC address of a VLAN are tested once each, in the
\* order of their addresses.
LEMMA LeadsSources ==
  ASSUME NEW o \in OptionType, NEW t, NEW own \in SUBSET Rows,
         \A r, q \in own : r.stage = q.stage /\ r.iface = q.iface /\ r.vlan = q.vlan,
         NEW some \in SUBSET own, NEW done \in SUBSET own, some \cap done = {},
         HasLink(t), Len(t) = 2, \A r \in own : SourceLink(r) = MyLink(t),
         NEW H, HasNo(H, {"knobs", "addrs", "routes", "default"}),
         Up \in H, OnDevice(t) => Device \in H
  PROVE  Leads(o, t, own, Done(o, done, H),
               ForEach({r.addr : r \in some}, LAMBDA addr :
                 sourceActions(o, SourceAt(some, addr))),
               Done(o, done \cup some, H))
<1> DEFINE S == {r.addr : r \in some}
           keys == Ascending(S)
           n == Len(keys)
           source(k) == SourceAt(some, keys[k])
           sofar(k) == {source(j) : j \in 1..k}
           at(k) == Done(o, done \cup sofar(k), H)
           ss == [k \in 1..n |-> sourceActions(o, source(k))]
           q == [k \in 1..(n + 1) |-> at(k - 1)]
<1>1. S \in SUBSET Nat /\ IsFiniteSet(S)
  BY RowKeys
<1>2. \A r, u \in some : r.addr = u.addr => r = u
  BY RowsAssumption
<1>3. ForEach(S, LAMBDA addr : sourceActions(o, SourceAt(some, addr)))
        = FlattenSeq(ss)
  BY DEF ForEach, Concat
<1>4. /\ n \in Nat
      /\ \A k \in 1..n : keys[k] \in S
      /\ \A k, m \in 1..n : keys[k] = keys[m] => k = m
      /\ \A x \in S : \E k \in 1..n : keys[k] = x
  <2> HIDE DEF S
  <2> QED BY <1>1, AscendingKeys
<1> HIDE DEF keys, n
<1>5. \A k \in 1..n : source(k) \in some /\ source(k).addr = keys[k]
  <2> TAKE k \in 1..n
  <2>1. \E r \in some : r.addr = keys[k]
    BY <1>4
  <2> QED BY <2>1 DEF SourceAt
<1>6. \A r \in some : \E k \in 1..n : source(k) = r
  <2> TAKE r \in some
  <2>1. r.addr \in S
    OBVIOUS
  <2>2. PICK k \in 1..n : keys[k] = r.addr
    BY <1>4, <2>1
  <2>3. source(k) \in some /\ source(k).addr = r.addr
    BY <1>5, <2>2
  <2> QED BY <1>2, <2>3
<1> HIDE DEF source, S
<1>7. at(0) = Done(o, done, H) /\ at(n) = Done(o, done \cup some, H)
  <2>1. done \cup sofar(0) = done /\ sofar(n) = some
    BY <1>5, <1>6
  <2> HIDE DEF sofar
  <2> QED BY <2>1
<1>8. \A k \in 1..n : Leads(o, t, own, at(k - 1), ss[k], at(k))
  <2> TAKE k \in 1..n
  <2> DEFINE D == done \cup sofar(k - 1)
  <2>1. done \cup sofar(k) = D \cup {source(k)}
    <3>1. \A j : j \in 1..k <=> (j \in 1..(k - 1) \/ j = k)
      BY <1>4
    <3> QED BY <3>1
  <2>2. \A j \in 1..(k - 1) : j \in 1..n /\ j # k
    BY <1>4
  <2>3. D \in SUBSET own
    BY <1>5, <2>2
  <2>4. source(k) \in own \ D
    BY <1>4, <1>5, <2>2
  <2>5. ss[k] = sourceActions(o, source(k))
    OBVIOUS
  <2> HIDE DEF sofar, ss
  <2>6. at(k) = Done(o, D \cup {source(k)}, H)
    BY <2>1
  <2> HIDE DEF D
  <2>7. Leads(o, t, own, Done(o, D, H), ss[k], Done(o, D \cup {source(k)}, H))
    BY <2>3, <2>4, <2>5, LeadsSource
  <2> QED BY <2>6, <2>7 DEF D
<1>9. ss = [k \in 1..n |-> ss[k]] /\ IsControl(own, at(0))
  <2>1. IsControl(own, Done(o, done, H))
    BY PointBetween DEF Done
  <2> HIDE DEF at
  <2> QED BY <1>7, <2>1
<1> HIDE DEF ss, sofar, at
<1>10. /\ q[1] = at(0) /\ q[n + 1] = at(n)
       /\ \A k \in 1..n : q[k] = at(k - 1) /\ q[k + 1] = at(k)
  <2>1. 1 \in 1..(n + 1) /\ n + 1 \in 1..(n + 1) /\ 1 - 1 = 0 /\ (n + 1) - 1 = n
    BY <1>4
  <2>2. \A k \in 1..n : k \in 1..(n + 1) /\ k + 1 \in 1..(n + 1) /\ (k + 1) - 1 = k
    BY <1>4
  <2> QED BY <2>1, <2>2
<1> HIDE DEF q
<1>11. Leads(o, t, own, q[1], FlattenSeq(ss), q[n + 1])
  <2>1. \A k \in 1..n : Leads(o, t, own, q[k], ss[k], q[k + 1])
    BY <1>8, <1>10
  <2>2. n \in Nat /\ IsControl(own, q[1]) /\ ss = [k \in 1..n |-> ss[k]]
    BY <1>4, <1>9, <1>10
  <2> QED BY <2>1, <2>2, LeadsLoop
<1> QED BY <1>3, <1>7, <1>10, <1>11 DEF S

\* The body of the loop over the MAC addresses of a VLAN.
SourceSteps(o, some) ==
  ForEach({r.addr : r \in some}, LAMBDA addr :
    sourceActions(o, SourceAt(some, addr)))

MacSteps(o, own, t, mac) ==
  LET l == LinkName(t) IN
  RaiiMacAddr(l, mac) \o RaiiIpLink(l)
    \o (IF t[2] = NONE THEN captureTraffic(l) ELSE <<>>)
    \o SourceSteps(o, {r \in own : r.mac = mac})
    \o UndoRaiiIpLink(l) \o UndoRaiiMacAddr(l, mac)

\* The thread of a VLAN tests and completes each of its sources, once.
LEMMA LeadsVlan ==
  ASSUME NEW o \in OptionType, NEW rows \in SUBSET Rows, NEW stg, NEW t,
         \E i, v : t = <<i, v>>, t[2] # RESERVED, t[2] \in 0..RESERVED \cup {NONE}
  PROVE  LET own == RowsOf(rows, stg, t)
         IN  Leads(o, t, own, Done(o, {}, {}),
                   vlanIfaceThreadActions(o, rows, stg, t), Done(o, own, {}))
<1> DEFINE own == RowsOf(rows, stg, t)
           l == LinkName(t)
           H == DeviceOf(t)
           S == {r.mac : r \in own}
           keys == Ascending(S)
           n == Len(keys)
           sofar(k) == {r \in own : \E j \in 1..k : r.mac = keys[j]}
           at(k) == Done(o, sofar(k), H)
           ss == [k \in 1..n |-> MacSteps(o, own, t, keys[k])]
           q == [k \in 1..(n + 1) |-> at(k - 1)]
<1>0. own \in SUBSET Rows
  BY DEF RowsOf
<1>1. \A r, u \in own : r.stage = u.stage /\ r.iface = u.iface /\ r.vlan = u.vlan
  BY DEF RowsOf
<1>2. vlanIfaceThreadActions(o, rows, stg, t)
        = (RaiiVlan(t) \o FlattenSeq(ss)) \o UndoRaiiVlan(t)
  <2>2. ~(RESERVED <= t[2] /\ NONE # t[2])
    BY VlanNumbers, Zenon
  <2> QED
    BY <2>2, Zenon
    DEF vlanIfaceThreadActions, RowsOf, MacSteps, SourceSteps, ForEach, Concat
<1>3. /\ n \in Nat
      /\ \A k \in 1..n : keys[k] \in S
      /\ \A k, m \in 1..n : keys[k] = keys[m] => k = m
      /\ \A x \in S : \E k \in 1..n : keys[k] = x
  <2>1. S \in SUBSET Nat /\ IsFiniteSet(S)
    <3> HIDE DEF own
    <3> QED BY <1>0, RowKeys
  <2> HIDE DEF S
  <2> QED BY <2>1, AscendingKeys
<1>l. /\ Len(t) = 2 /\ MyLink(t) = l /\ HasLink(t)
      /\ \A r \in own : SourceLink(r) = MyLink(t)
  <2>1. PICK i, v : t = <<i, v>>
    OBVIOUS
  <2>2. Len(t) = 2 /\ t[1] = i /\ t[2] = v
    BY <2>1
  <2>3. \A r \in own : <<r.iface, r.vlan>> = t
    BY <2>1, <2>2, Zenon DEF RowsOf
  <2>4. HasLink(t)
    BY <2>1 DEF HasLink, Main
  <2> QED BY <2>2, <2>3, <2>4 DEF MyLink, SourceLink
<1>h. /\ \A w : Device[1] \notin w => HasNo(H, w)
      /\ OnDevice(t) => Device \in H
  BY DEF HasNo, DeviceOf
<1> HIDE DEF own, keys, n, l, H
<1>4. at(0) = Done(o, {}, H) /\ at(n) = Done(o, own, H)
  <2>1. sofar(0) = {}
    OBVIOUS
  <2>2. sofar(n) = own
    <3>1. \A r \in own : \E j \in 1..n : r.mac = keys[j]
      BY <1>3
    <3> QED BY <3>1
  <2> HIDE DEF sofar
  <2> QED BY <2>1, <2>2
<1>5. \A k \in 1..n : Leads(o, t, own, at(k - 1), ss[k], at(k))
  <2> TAKE k \in 1..n
  <2> DEFINE mac == keys[k]
             some == {r \in own : r.mac = mac}
             D == sofar(k - 1)
             M == H \cup MacOf(mac)
             G == M \cup {Up}
             A == Done(o, D, H)
             B == Done(o, D \cup some, H)
             AG == Done(o, D, G)
             BG == Done(o, D \cup some, G)
             all == SourceSteps(o, some)
             capture == IF t[2] = NONE THEN captureTraffic(l) ELSE <<>>
  <2>1. sofar(k) = D \cup some
    <3>1. \A j : j \in 1..k <=> (j \in 1..(k - 1) \/ j = k)
      BY <1>3
    <3> QED BY <3>1
  <2>2. some \cap D = {}
    <3>1. \A j \in 1..(k - 1) : keys[j] # keys[k]
      BY <1>3
    <3> QED BY <3>1
  <2>3. D \in SUBSET own /\ some \in SUBSET own /\ D \cup some \in SUBSET own
    OBVIOUS
  <2>4. ss[k] = ((((RaiiMacAddr(l, mac) \o RaiiIpLink(l)) \o capture) \o all)
                   \o UndoRaiiIpLink(l)) \o UndoRaiiMacAddr(l, mac)
    BY DEF MacSteps, l
  <2> HIDE DEF D, some, mac, sofar
  <2>5. Leads(o, t, own, AG, all, BG)
    <3>1. /\ HasNo(G, {"knobs", "addrs", "routes", "default"})
          /\ Up \in G /\ (OnDevice(t) => Device \in G)
      <4>1. HasNo(H, {"knobs", "addrs", "routes", "default"})
        BY <1>h DEF Device
      <4> QED BY <1>h, <4>1 DEF HasNo, MacOf, Up
    <3> HIDE DEF G
    <3> QED BY <1>0, <1>1, <1>l, <2>2, <2>3, <3>1, LeadsSources DEF SourceSteps
  <2>6. AtRest(own, A) /\ AtRest(own, B) /\ Untested(A)
    <3>1. AtRest(own, A) /\ AtRest(own, B)
      BY <2>3, PointBetween DEF Done
    <3> QED BY <3>1 DEF Untested, Done, TestsOf, Between, Control
  <2>7. /\ at(k - 1) = A /\ at(k) = B
        /\ Holding(A, H) = A /\ Holding(A, G) = AG
        /\ Holding(B, H) = B /\ Holding(B, G) = BG
    <3>1. at(k - 1) = A /\ at(k) = B
      BY <2>1 DEF D
    <3> HIDE DEF at, M, G, some
    <3> QED BY <3>1 DEF Holding, Done, Between, Control
  <2>h. /\ HasNo(H, {"macs"}) /\ HasNo(M, {"knobs", "up", "routes", "default"})
        /\ (OnDevice(t) => Device \in H) /\ (OnDevice(t) => Device \in M)
    <3>1. HasNo(H, {"macs"}) /\ HasNo(H, {"knobs", "up", "routes", "default"})
      BY <1>h DEF Device
    <3> QED BY <1>h, <3>1 DEF HasNo, MacOf
  <2> HIDE DEF A, B, AG, BG, M, all
  <2>8. /\ Leads(o, t, own, Holding(A, H), RaiiMacAddr(l, mac), Holding(A, M))
        /\ Leads(o, t, own, Holding(B, M), UndoRaiiMacAddr(l, mac), Holding(B, H))
    BY <1>l, <2>6, <2>h, LeadsRaiiMac DEF M
  <2>9. /\ Leads(o, t, own, Holding(A, M), RaiiIpLink(l), Holding(A, G))
        /\ Leads(o, t, own, Holding(B, G), UndoRaiiIpLink(l), Holding(B, M))
        /\ Leads(o, t, own, Holding(A, G), captureTraffic(l), Holding(A, G))
    BY <1>l, <2>6, <2>h, LeadsRaiiLink
  <2>10. Leads(o, t, own, AG, capture, AG)
    <3>1. IsControl(own, AG)
      BY <2>3, PointBetween DEF Done, AG
    <3> HIDE DEF G
    <3> QED BY <2>7, <2>9, <3>1, LeadsEmpty
  <2> HIDE DEF capture, ss, G
  <2>11. Leads(o, t, own, A, ss[k], B)
    BY <2>4, <2>5, <2>7, <2>8, <2>9, <2>10, LeadsConcat
  <2> QED BY <2>7, <2>11
<1>6. ss = [k \in 1..n |-> ss[k]]
  OBVIOUS
<1>7. AtRest(own, Done(o, {}, H)) /\ AtRest(own, Done(o, own, H))
  BY PointBetween DEF Done
<1> HIDE DEF ss, sofar, at
<1>8. /\ q[1] = at(0) /\ q[n + 1] = at(n)
      /\ \A k \in 1..n : q[k] = at(k - 1) /\ q[k + 1] = at(k)
  <2>1. 1 \in 1..(n + 1) /\ n + 1 \in 1..(n + 1) /\ 1 - 1 = 0 /\ (n + 1) - 1 = n
    BY <1>3
  <2>2. \A k \in 1..n : k \in 1..(n + 1) /\ k + 1 \in 1..(n + 1) /\ (k + 1) - 1 = k
    BY <1>3
  <2> QED BY <2>1, <2>2
<1> HIDE DEF q
<1>9. Leads(o, t, own, Done(o, {}, H), FlattenSeq(ss), Done(o, own, H))
  <2>1. \A k \in 1..n : Leads(o, t, own, q[k], ss[k], q[k + 1])
    BY <1>5, <1>8
  <2>2. n \in Nat /\ IsControl(own, q[1]) /\ ss = [k \in 1..n |-> ss[k]]
    BY <1>3, <1>4, <1>6, <1>7, <1>8 DEF AtRest
  <2>3. Leads(o, t, own, q[1], FlattenSeq(ss), q[n + 1])
    BY <2>1, <2>2, LeadsLoop
  <2> QED BY <1>4, <1>8, <2>3
<1>10. /\ Leads(o, t, own, Done(o, {}, {}), RaiiVlan(t), Done(o, {}, H))
       /\ Leads(o, t, own, Done(o, own, H), UndoRaiiVlan(t), Done(o, own, {}))
  <2>1. \A D, F, G : Holding(Done(o, D, F), G) = Done(o, D, G)
    BY DEF Holding, Done, Between, Control
  <2>2. /\ Leads(o, t, own, Holding(Done(o, {}, H), {}), RaiiVlan(t),
                 Holding(Done(o, {}, H), H))
        /\ Leads(o, t, own, Holding(Done(o, own, H), H), UndoRaiiVlan(t),
                 Holding(Done(o, own, H), {}))
    BY <1>7, <1>l, LeadsRaiiVlan DEF H
  <2> QED BY <2>1, <2>2
<1>11. Leads(o, t, own, Done(o, {}, {}),
             (RaiiVlan(t) \o FlattenSeq(ss)) \o UndoRaiiVlan(t), Done(o, own, {}))
  BY <1>9, <1>10, LeadsConcat
<1> QED BY <1>2, <1>11 DEF own

-----------------------------------------------------------------------------
(* The threads that start others.                                          *)

\* Starting a thread for the first time.
LEMMA SpawnStep ==
  ASSUME NEW o, NEW p, NEW own, NEW K, NEW J, NEW c, IsChild(p, c), c \notin K,
         NEW H, ReadyToStart(H, c)
  PROVE  Follows(o, p, own, Starting(K, J, H), Spawn(c), Starting(K \cup {c}, J, H))
<1>1. SpawnFollows(p, Starting(K, J, H), Spawn(c), Starting(K \cup {c}, J, H))
  BY DEF SpawnFollows, Starting, Control, Spawn
<1> QED BY <1>1 DEF Follows

\* Joining a thread that was started.
LEMMA JoinStep ==
  ASSUME NEW o, NEW p, NEW own, NEW K, NEW J, NEW c, c \in K, NEW H
  PROVE  Follows(o, p, own, Starting(K, J, H), Join(c), Starting(K, J \cup {c}, H))
<1>1. JoinFollows(Starting(K, J, H), Join(c), Starting(K, J \cup {c}, H))
  BY DEF JoinFollows, Starting, Control, Join
<1> QED BY <1>1 DEF Follows

\* startThreads starts each thread once and joins it after that, in either
\* scope.
LEMMA LeadsThreads ==
  ASSUME NEW o, NEW p, NEW own, NEW ts, Len(ts) \in Nat,
         \A k \in 1..Len(ts) : IsChild(p, ts[k]),
         \A k, l \in 1..Len(ts) : ts[k] = ts[l] => k = l,
         NEW H, \A k \in 1..Len(ts) : ReadyToStart(H, ts[k])
  PROVE  LET all == {ts[k] : k \in 1..Len(ts)}
         IN  Leads(o, p, own, Starting({}, {}, H), startThreads(o, ts),
                   Starting(all, all, H))
<1> DEFINE n == Len(ts)
           all == {ts[k] : k \in 1..n}
           upto(m) == {ts[k] : k \in {j \in 1..n : j <= m}}
           intra == o.scope = "intra"
           spawned(k) == IF intra THEN k ELSE (k + 1) \div 2
           joined(k)  == IF intra THEN k - n ELSE k \div 2
           at(k) == Starting(upto(spawned(k)), upto(joined(k)), H)
           c == [k \in 1..(2 * n + 1) |-> at(k - 1)]
           s == startThreads(o, ts)
<1>1. n \in Nat
  OBVIOUS
<1>2. s = [k \in 1..(2 * n) |->
             IF intra THEN IF k <= n THEN Spawn(ts[k]) ELSE Join(ts[k - n])
             ELSE IF k % 2 = 1 THEN Spawn(ts[(k + 1) \div 2]) ELSE Join(ts[k \div 2])]
  BY DEF startThreads
<1> HIDE DEF n, s, intra
<1>3. IsSeq(s) /\ Len(s) = 2 * n
  <2>1. DOMAIN s = 1..(2 * n) /\ \A k \in 1..(2 * n) : s[k] \in Range(s)
    BY <1>2 DEF Range
  <2>2. s = [k \in 1..(2 * n) |-> s[k]]
    BY <1>2
  <2> QED BY <1>1, <2>1, <2>2 DEF IsSeq
<1>4. /\ \A m \in 1..n : upto(m) = upto(m - 1) \cup {ts[m]}
      /\ \A m \in 1..n : ts[m] \notin upto(m - 1) /\ ts[m] \in upto(m)
      /\ \A m \in Int : m <= 0 => upto(m) = {}
      /\ \A m \in Int : m >= n => upto(m) = all
  <2>1. ASSUME NEW m \in 1..n
        PROVE  /\ upto(m) = upto(m - 1) \cup {ts[m]}
               /\ ts[m] \notin upto(m - 1) /\ ts[m] \in upto(m)
    <3>1. \A j \in 1..n : j <= m <=> (j <= m - 1 \/ j = m)
      BY <1>1
    <3>2. \A j \in 1..n : j <= m - 1 => ts[j] # ts[m]
      BY <1>1 DEF n
    <3> QED BY <3>1, <3>2
  <2>2. \A m \in Int : m <= 0 => upto(m) = {}
    BY <1>1
  <2>3. \A m \in Int : m >= n => upto(m) = all
    <3>1. \A m \in Int : m >= n => {j \in 1..n : j <= m} = 1..n
      BY <1>1
    <3> QED BY <3>1
  <2> QED BY <2>1, <2>2, <2>3
<1> HIDE DEF upto
<1>5. /\ \A k \in 1..(2 * n + 1) : IsControl(own, c[k]) /\ c[k] = at(k - 1)
      /\ \A k \in 1..(2 * n) : c[k] = at(k - 1) /\ c[k + 1] = at(k)
  <2>1. \A k \in 1..(2 * n + 1) : IsControl(own, at(k - 1))
    BY DEF Starting, Control, IsControl
  <2>2. \A k \in 1..(2 * n) :
          k \in 1..(2 * n + 1) /\ k + 1 \in 1..(2 * n + 1) /\ (k + 1) - 1 = k
    BY <1>1
  <2> HIDE DEF at
  <2> QED BY <2>1, <2>2
<1>6. c[1] = Starting({}, {}, H)
  <2>1. 1 \in 1..(2 * n + 1) /\ 1 - 1 = 0
    BY <1>1
  <2>2. spawned(0) \in Int /\ spawned(0) <= 0 /\ joined(0) \in Int /\ joined(0) <= 0
    BY <1>1
  <2> HIDE DEF spawned, joined
  <2>3. at(0) = Starting({}, {}, H)
    BY <1>4, <2>2
  <2> HIDE DEF at, c
  <2> QED BY <1>5, <2>1, <2>3
<1>7. c[2 * n + 1] = Starting(all, all, H)
  <2>1. 2 * n + 1 \in 1..(2 * n + 1) /\ (2 * n + 1) - 1 = 2 * n
    BY <1>1
  <2>2. /\ spawned(2 * n) \in Int /\ spawned(2 * n) >= n
        /\ joined(2 * n) \in Int /\ joined(2 * n) >= n
    BY <1>1
  <2> HIDE DEF spawned, joined, all
  <2>3. at(2 * n) = Starting(all, all, H)
    BY <1>4, <2>2
  <2> HIDE DEF at, c
  <2> QED BY <1>5, <2>1, <2>3
<1>8. ASSUME NEW k \in 1..(2 * n)
      PROVE  Follows(o, p, own, at(k - 1), s[k], at(k))
  <2>1. ASSUME NEW m \in 1..n, s[k] = Spawn(ts[m]),
               spawned(k) = m, spawned(k - 1) = m - 1,
               upto(joined(k)) = upto(joined(k - 1))
        PROVE  Follows(o, p, own, at(k - 1), s[k], at(k))
    <3>1. /\ upto(m) = upto(m - 1) \cup {ts[m]} /\ ts[m] \notin upto(m - 1)
          /\ IsChild(p, ts[m]) /\ ReadyToStart(H, ts[m])
      BY <1>4 DEF n
    <3> DEFINE J == upto(joined(k - 1))
    <3>2. /\ at(k - 1) = Starting(upto(m - 1), J, H)
          /\ at(k) = Starting(upto(m - 1) \cup {ts[m]}, J, H)
      <4> HIDE DEF spawned, joined
      <4> QED BY <2>1, <3>1
    <3> HIDE DEF at, J
    <3> QED BY <2>1, <3>1, <3>2, SpawnStep
  <2>2. ASSUME NEW m \in 1..n, s[k] = Join(ts[m]),
               joined(k) = m, joined(k - 1) = m - 1,
               upto(spawned(k)) = upto(spawned(k - 1)),
               ts[m] \in upto(spawned(k - 1))
        PROVE  Follows(o, p, own, at(k - 1), s[k], at(k))
    <3>1. upto(m) = upto(m - 1) \cup {ts[m]}
      BY <1>4
    <3> DEFINE K == upto(spawned(k - 1))
    <3>2. /\ at(k - 1) = Starting(K, upto(m - 1), H)
          /\ at(k) = Starting(K, upto(m - 1) \cup {ts[m]}, H)
      <4> HIDE DEF spawned, joined
      <4> QED BY <2>2, <3>1
    <3>3. ts[m] \in K
      BY <2>2
    <3> HIDE DEF at, K
    <3> QED BY <2>2, <3>2, <3>3, JoinStep
  <2>3. CASE intra /\ k <= n
    <3>1. s[k] = Spawn(ts[k]) /\ k \in 1..n
      BY <1>1, <1>2, <2>3
    <3>2. spawned(k) = k /\ spawned(k - 1) = k - 1
      BY <2>3
    <3>3. /\ joined(k) \in Int /\ joined(k) <= 0
          /\ joined(k - 1) \in Int /\ joined(k - 1) <= 0
      BY <1>1, <2>3
    <3>4. upto(joined(k)) = upto(joined(k - 1))
      <4> HIDE DEF joined
      <4> QED BY <1>4, <3>3
    <3> HIDE DEF spawned, joined, at
    <3> QED BY <2>1, <3>1, <3>2, <3>4
  <2>4. CASE intra /\ ~(k <= n)
    <3>1. s[k] = Join(ts[k - n]) /\ k - n \in 1..n
      BY <1>1, <1>2, <2>4
    <3>2. joined(k) = k - n /\ joined(k - 1) = (k - n) - 1
      BY <1>1, <2>4
    <3>3. /\ spawned(k) \in Int /\ spawned(k) >= n
          /\ spawned(k - 1) \in Int /\ spawned(k - 1) >= n
      BY <1>1, <2>4
    <3>4. upto(spawned(k)) = all /\ upto(spawned(k - 1)) = all /\ ts[k - n] \in all
      <4>1. ts[k - n] \in all
        BY <3>1
      <4> HIDE DEF spawned, all
      <4> QED BY <1>4, <3>3, <4>1
    <3> HIDE DEF spawned, joined, at, all
    <3> QED BY <2>2, <3>1, <3>2, <3>4
  <2>5. CASE ~intra /\ k % 2 = 1
    <3> DEFINE m == (k + 1) \div 2
    <3>1. s[k] = Spawn(ts[m]) /\ m \in 1..n
      BY <1>1, <1>2, <2>5
    <3>2. spawned(k) = m /\ spawned(k - 1) = m - 1 /\ joined(k) = joined(k - 1)
      BY <1>1, <2>5
    <3> HIDE DEF spawned, joined, at, m
    <3> QED BY <2>1, <3>1, <3>2
  <2>6. CASE ~intra /\ k % 2 # 1
    <3> DEFINE m == k \div 2
    <3>1. s[k] = Join(ts[m]) /\ m \in 1..n
      BY <1>1, <1>2, <2>6
    <3>2. joined(k) = m /\ joined(k - 1) = m - 1 /\ spawned(k) = m /\ spawned(k - 1) = m
      BY <1>1, <2>6
    <3>3. ts[m] \in upto(m)
      BY <1>4, <3>1
    <3> HIDE DEF spawned, joined, at, m
    <3> QED BY <2>2, <3>1, <3>2, <3>3
  <2> QED BY <2>3, <2>4, <2>5, <2>6
<1> HIDE DEF at, c, all
<1>9. Traces(o, p, own, s, c)
  BY <1>3, <1>5, <1>8 DEF Traces
<1>10. Leads(o, p, own, Starting({}, {}, H), s, Starting(all, all, H))
  BY <1>3, <1>6, <1>7, <1>9 DEF Leads
<1> QED BY <1>10 DEF all, n, s

\* The thread of an interface starts and joins the thread of each of its
\* VLANs, and of direct testing.
LEMMA LeadsPhys ==
  ASSUME NEW o, NEW rows \in SUBSET Rows, NEW stg, NEW i
  PROVE  LET kids == {<<i, r.vlan>> : r \in {q \in rows : q.stage = stg /\ q.iface = i}}
         IN  Leads(o, <<i>>, {}, Starting({}, {}, {}),
                   physIfaceThreadActions(o, rows, stg, <<i>>),
                   Starting(kids, kids, {}))
<1> DEFINE t == <<i>>
           mine == {r \in rows : r.stage = stg /\ r.iface = t[1]}
           S == {r.vlan : r \in mine}
           vlans == Ascending(S \ {NONE})
           n == Len(vlans)
           first == Ascending(S)[1]
           mac == Ascending({r.mac : r \in {q \in mine : q.vlan = first}})[1]
           direct == <<t[1], NONE>>
           ts == [k \in 1..n |-> <<t[1], vlans[k]>>]
           D == IF \E r \in mine : r.vlan = NONE
                THEN <<Spawn(direct), Join(direct)>> ELSE <<>>
           some == {ts[k] : k \in 1..n}
           kids == {<<i, r.vlan>> : r \in mine}
           M == MacOf(mac)
           G == M \cup {Up}
           A == Starting({}, {}, {})
           AG == Starting({}, {}, G)
           BG == Starting(some, some, G)
           B == Starting(some, some, {})
           C == Starting(kids, kids, {})
<1>1. /\ n \in Nat
      /\ \A k \in 1..n : vlans[k] \in S \ {NONE}
      /\ \A k, l \in 1..n : vlans[k] = vlans[l] => k = l
      /\ \A x \in S \ {NONE} : \E k \in 1..n : vlans[k] = x
  <2>1. mine \in SUBSET Rows
    OBVIOUS
  <2> HIDE DEF mine
  <2>2. S \in SUBSET Nat /\ IsFiniteSet(S)
    BY <2>1, RowKeys
  <2> HIDE DEF S
  <2>3. S \ {NONE} \in SUBSET Nat /\ IsFiniteSet(S \ {NONE})
    BY <2>2, FS_Subset
  <2> QED BY <2>3, AscendingKeys
<1> HIDE DEF n, vlans
<1>2. Len(ts) = n /\ \A k \in 1..n : ts[k] = <<i, vlans[k]>>
  BY <1>1
<1>3. some = {<<i, v>> : v \in S \ {NONE}}
  <2>1. \A k \in 1..n : ts[k] \in {<<i, v>> : v \in S \ {NONE}}
    BY <1>1, <1>2
  <2>2. \A v \in S \ {NONE} : <<i, v>> \in some
    BY <1>1, <1>2
  <2> QED BY <2>1, <2>2
<1>4. Leads(o, t, {}, AG, startThreads(o, ts), BG)
  <2>1. \A k \in 1..n : IsChild(t, ts[k])
    BY <1>2 DEF IsChild
  <2>3. \A k \in 1..n : ReadyToStart(G, ts[k])
    BY <1>1, <1>2 DEF ReadyToStart
  <2>2. \A k, l \in 1..n : ts[k] = ts[l] => k = l
    BY <1>1, <1>2
  <2> HIDE DEF ts, t, G
  <2>4. /\ Len(ts) \in Nat
        /\ \A k \in 1..Len(ts) : IsChild(t, ts[k]) /\ ReadyToStart(G, ts[k])
        /\ \A k, l \in 1..Len(ts) : ts[k] = ts[l] => k = l
    BY <1>1, <1>2, <2>1, <2>2, <2>3
  <2>5. Leads(o, t, {}, Starting({}, {}, G), startThreads(o, ts),
              Starting({ts[k] : k \in 1..Len(ts)}, {ts[k] : k \in 1..Len(ts)}, G))
    BY <2>4, LeadsThreads
  <2> QED BY <1>2, <2>5
<1>5. /\ \A K, J, F : IsControl({}, Starting(K, J, F))
      /\ \A K, F : AtRest({}, Starting(K, K, F))
      /\ \A K, J, F, E : Holding(Starting(K, J, F), E) = Starting(K, J, E)
      /\ \A F : Untested(Starting({}, {}, F))
  BY DEF AtRest, IsControl, Starting, Holding, Untested, Control
<1>6. Leads(o, t, {}, B, D, C)
  <2>1. CASE ~\E r \in mine : r.vlan = NONE
    <3>1. D = <<>> /\ some = kids
      BY <1>3, <2>1
    <3> HIDE DEF D, some, kids
    <3> QED BY <1>5, <3>1, LeadsEmpty
  <2>2. CASE \E r \in mine : r.vlan = NONE
    <3>1. /\ kids = some \cup {direct} /\ direct \notin some
          /\ D = <<Spawn(direct)>> \o <<Join(direct)>>
      <4>1. D = <<Spawn(direct), Join(direct)>>
        BY <2>2
      <4>2. \A x, y : <<x, y>> = <<x>> \o <<y>>
        BY PairConcat
      <4>3. kids = some \cup {direct} /\ direct \notin some
        BY <1>3, <2>2
      <4> HIDE DEF D, direct, kids, some
      <4> QED BY <4>1, <4>2, <4>3
    <3>2. IsChild(t, direct) /\ ReadyToStart({}, direct)
      BY DEF IsChild, ReadyToStart
    <3> HIDE DEF D, direct, kids, some, t
    <3>3. Leads(o, t, {}, B, <<Spawn(direct)>>,
                Starting(some \cup {direct}, some, {}))
      BY <1>5, <3>1, <3>2, SpawnStep, LeadsStep
    <3>4. Leads(o, t, {}, Starting(some \cup {direct}, some, {}), <<Join(direct)>>,
                Starting(some \cup {direct}, some \cup {direct}, {}))
      <4>1. direct \in some \cup {direct}
        OBVIOUS
      <4> QED BY <1>5, <4>1, JoinStep, LeadsStep
    <3> QED BY <3>1, <3>3, <3>4, LeadsConcat
  <2> QED BY <2>1, <2>2
<1>7. physIfaceThreadActions(o, rows, stg, t)
        = RaiiMacAddr(t, mac) \o RaiiIpLink(t) \o captureTraffic(t)
            \o startThreads(o, ts)
            \o UndoRaiiIpLink(t) \o UndoRaiiMacAddr(t, mac) \o D
  BY DEF physIfaceThreadActions, n, vlans
<1>8. /\ MyLink(t) = t /\ HasLink(t) /\ ~OnDevice(t) /\ {} \cup M = M
      /\ HasNo({}, {"macs"}) /\ HasNo(M, {"knobs", "up", "routes", "default"})
  BY DEF MyLink, HasLink, Main, OnDevice, HasNo, MacOf
<1>a. /\ Leads(o, t, {}, Holding(A, {}), RaiiMacAddr(t, mac), Holding(A, M))
      /\ Leads(o, t, {}, Holding(B, M), UndoRaiiMacAddr(t, mac), Holding(B, {}))
  <2> HIDE DEF t, mac
  <2>1. AtRest({}, A) /\ AtRest({}, B) /\ Untested(A)
    BY <1>5
  <2> HIDE DEF A, B
  <2> QED BY <1>8, <2>1, LeadsRaiiMac DEF M
<1>b. /\ Leads(o, t, {}, Holding(A, M), RaiiIpLink(t), Holding(A, G))
      /\ Leads(o, t, {}, Holding(A, G), captureTraffic(t), Holding(A, G))
      /\ Leads(o, t, {}, Holding(B, G), UndoRaiiIpLink(t), Holding(B, M))
  <2> HIDE DEF t, M
  <2>1. AtRest({}, A) /\ AtRest({}, B) /\ Untested(A)
    BY <1>5
  <2> HIDE DEF A, B
  <2> QED BY <1>8, <2>1, LeadsRaiiLink
<1>c. /\ Holding(A, {}) = A /\ Holding(A, G) = AG
      /\ Holding(B, G) = BG /\ Holding(B, {}) = B
  BY <1>5
<1>9. Leads(o, t, {}, A, physIfaceThreadActions(o, rows, stg, t), C)
  <2> HIDE DEF A, AG, B, BG, C, G, M, t, mac, ts, D
  <2>1. Leads(o, t, {}, A, (((((RaiiMacAddr(t, mac) \o RaiiIpLink(t))
                \o captureTraffic(t)) \o startThreads(o, ts))
                \o UndoRaiiIpLink(t)) \o UndoRaiiMacAddr(t, mac)) \o D, C)
    BY <1>4, <1>6, <1>a, <1>b, <1>c, LeadsConcat
  <2> QED BY <1>7, <2>1
<1>10. kids = {<<i, r.vlan>> : r \in {q \in rows : q.stage = stg /\ q.iface = i}}
  OBVIOUS
<1> HIDE DEF kids
<1> QED BY <1>9, <1>10

\* The main thread starts and joins the thread of each interface.
LEMMA LeadsStage ==
  ASSUME NEW o, NEW rows \in SUBSET Rows, NEW stg
  PROVE  LET kids == {<<r.iface>> : r \in {q \in rows : q.stage = stg}}
         IN  Leads(o, Main, {}, Starting({}, {}, {}), stageActions(o, rows, stg),
                   Starting(kids, kids, {}))
<1> DEFINE mine == {q \in rows : q.stage = stg}
           S == {r.iface : r \in mine}
           ifaces == Ascending(S)
           n == Len(ifaces)
           ts == [k \in 1..n |-> <<ifaces[k]>>]
           kids == {<<r.iface>> : r \in mine}
           A == Starting({}, {}, {})
           C == Starting(kids, kids, {})
           x == [do |-> "stage", cmds |-> <<>>]
<1>1. /\ n \in Nat
      /\ \A k \in 1..n : ifaces[k] \in S
      /\ \A k, l \in 1..n : ifaces[k] = ifaces[l] => k = l
      /\ \A y \in S : \E k \in 1..n : ifaces[k] = y
  <2>1. mine \in SUBSET Rows
    OBVIOUS
  <2> HIDE DEF mine
  <2>2. S \in SUBSET Nat /\ IsFiniteSet(S)
    BY <2>1, RowKeys
  <2> HIDE DEF S
  <2> QED BY <2>2, AscendingKeys
<1> HIDE DEF n, ifaces
<1>2. Len(ts) = n /\ \A k \in 1..n : ts[k] = <<ifaces[k]>>
  BY <1>1
<1>3. {ts[k] : k \in 1..n} = kids
  <2>1. \A k \in 1..n : ts[k] \in kids
    BY <1>1, <1>2
  <2>2. ASSUME NEW r \in mine PROVE <<r.iface>> \in {ts[k] : k \in 1..n}
    <3>1. PICK k \in 1..n : ifaces[k] = r.iface
      BY <1>1
    <3> QED BY <1>2, <3>1
  <2> QED BY <2>1, <2>2
<1>4. Leads(o, Main, {}, A, startThreads(o, ts), C)
  <2>1. \A k \in 1..n : IsChild(Main, ts[k])
    BY <1>2 DEF IsChild
  <2>2. \A k, l \in 1..n : ts[k] = ts[l] => k = l
    BY <1>1, <1>2
  <2>3. \A k \in 1..n : ReadyToStart({}, ts[k])
    BY <1>2 DEF ReadyToStart
  <2> HIDE DEF ts, kids
  <2>4. Leads(o, Main, {}, Starting({}, {}, {}), startThreads(o, ts),
              Starting({ts[k] : k \in 1..Len(ts)}, {ts[k] : k \in 1..Len(ts)}, {}))
    BY <1>1, <1>2, <2>1, <2>2, <2>3, LeadsThreads
  <2> QED BY <1>2, <1>3, <2>4
<1>5. IsControl({}, A) /\ AtRest({}, C) /\ Holding(C, {}) = C
  BY DEF AtRest, IsControl, Starting, Holding, Control
<1>6. stageActions(o, rows, stg) = (Do("stage") \o startThreads(o, ts)) \o Block(<<>>)
  BY DEF stageActions, n, ifaces
<1>7. Leads(o, Main, {}, A, Do("stage"), A)
  <2>1. Do("stage") = <<x>> /\ Follows(o, Main, {}, A, x, A)
    BY DEF Do, Follows
  <2> HIDE DEF x, A
  <2> QED BY <1>5, <2>1, LeadsStep
<1> HIDE DEF A, C, ts
<1>8. Leads(o, Main, {}, C, Block(<<>>), C)
  BY <1>5, LeadsBlocks
<1>9. Leads(o, Main, {}, A, stageActions(o, rows, stg), C)
  BY <1>4, <1>6, <1>7, <1>8, LeadsConcat
<1> QED BY <1>9 DEF A, C

\* The sources thread t is to test in a stage; the thread of the reserved
\* VLAN tests none.
Own(rows, stage, t) ==
  IF Len(t) = 2 /\ t[2] # RESERVED THEN RowsOf(rows, stage, t) ELSE {}

\* The threads t is to start in a stage.
Kids(rows, stage, t) ==
  IF t = Main THEN {<<r.iface>> : r \in {q \in rows : q.stage = stage}}
  ELSE IF Len(t) = 1
       THEN {<<t[1], r.vlan>> : r \in {q \in rows : q.stage = stage /\ q.iface = t[1]}}
       ELSE {}

\* c traces the steps of thread t in one stage.
ThreadTrace(o, rows, stage, t, s, c) ==
  /\ c[1] = Beginning
  /\ Traces(o, t, Own(rows, stage, t), s, c)
  /\ c[Len(s) + 1].phase = 0
  /\ c[Len(s) + 1].done = Own(rows, stage, t)
  /\ c[Len(s) + 1].kids = Kids(rows, stage, t)
  /\ c[Len(s) + 1].joined = Kids(rows, stage, t)
  /\ c[Len(s) + 1].held = {}

\* Whatever the playbook, the plays file and the command line: the steps of
\* every thread follow the nested loops of the code, complete all sources of
\* the thread and join all threads it has to start.
THEOREM ThreadsFollowLoops ==
  ASSUME NEW o \in OptionType, NEW rows \in SUBSET Rows, NEW stg,
         NEW t \in Threads
  PROVE  /\ IsSeq(threadActions(o, rows, stg, t))
         /\ \E c : ThreadTrace(o, rows, stg, t, threadActions(o, rows, stg, t), c)
<1> DEFINE own == Own(rows, stg, t)
           kids == Kids(rows, stg, t)
           s == threadActions(o, rows, stg, t)
           A == Beginning
<1>1. IsControl(own, A)
  BY DEF IsControl, Beginning, Control
<1>2. A = Starting({}, {}, {}) /\ A = Done(o, {}, {})
  BY DEF Beginning, Starting, Done, TestsOf, Between
<1>3. \/ t = Main
      \/ \E i : t = <<i>>
      \/ \E r \in Rows : t = <<r.iface, r.vlan>>
  BY DEF Threads
<1>4. \E B : /\ Leads(o, t, own, A, s, B)
             /\ B.phase = 0 /\ B.done = own
             /\ B.kids = kids /\ B.joined = kids /\ B.held = {}
  <2>1. CASE ~HasRows(rows, stg, t)
    <3>1. own = {}
      BY <2>1 DEF HasRows, Own, RowsOf
    <3>2. kids = {}
      <4>1. CASE t = Main
        BY <2>1, <4>1 DEF HasRows, Kids, Main
      <4>2. CASE t # Main /\ Len(t) = 1
        BY <2>1, <4>2 DEF HasRows, Kids
      <4> QED BY <4>1, <4>2 DEF Kids
    <3>3. s = <<>>
      BY <2>1 DEF threadActions
    <3>4. /\ A.phase = 0 /\ A.done = {} /\ A.kids = {} /\ A.joined = {}
          /\ A.held = {}
      BY DEF Beginning, Control
    <3> HIDE DEF A, s, own, kids
    <3> QED BY <1>1, <3>1, <3>2, <3>3, <3>4, LeadsEmpty
  <2>2. CASE HasRows(rows, stg, t) /\ t = Main
    <3>1. s = stageActions(o, rows, stg)
      BY <2>2 DEF threadActions
    <3>2. own = {} /\ kids = {<<r.iface>> : r \in {q \in rows : q.stage = stg}}
      BY <2>2 DEF Own, Kids, Main
    <3>3. /\ Starting(kids, kids, {}).phase = 0 /\ Starting(kids, kids, {}).done = {}
          /\ Starting(kids, kids, {}).kids = kids
          /\ Starting(kids, kids, {}).joined = kids
          /\ Starting(kids, kids, {}).held = {}
      BY DEF Starting, Control
    <3> HIDE DEF A, s, own, kids
    <3>4. Leads(o, t, own, A, s, Starting(kids, kids, {}))
      BY <1>2, <2>2, <3>1, <3>2, LeadsStage
    <3> QED BY <3>2, <3>3, <3>4
  <2>3. CASE HasRows(rows, stg, t) /\ \E i : t = <<i>>
    <3>1. PICK i : t = <<i>>
      BY <2>3
    <3>2. t # Main /\ Len(t) = 1 /\ t[1] = i
      BY <3>1 DEF Main
    <3>3. s = physIfaceThreadActions(o, rows, stg, <<i>>)
      BY <2>3, <3>1, <3>2 DEF threadActions
    <3>4. own = {} /\ kids = {<<i, r.vlan>> : r \in {q \in rows : q.stage = stg /\ q.iface = i}}
      BY <3>2 DEF Own, Kids
    <3>5. /\ Starting(kids, kids, {}).phase = 0 /\ Starting(kids, kids, {}).done = {}
          /\ Starting(kids, kids, {}).kids = kids
          /\ Starting(kids, kids, {}).joined = kids
          /\ Starting(kids, kids, {}).held = {}
      BY DEF Starting, Control
    <3> HIDE DEF A, s, own, kids
    <3>6. Leads(o, t, own, A, s, Starting(kids, kids, {}))
      BY <1>2, <3>1, <3>3, <3>4, LeadsPhys
    <3> QED BY <3>4, <3>5, <3>6
  <2>4. CASE HasRows(rows, stg, t) /\ \E r \in Rows : t = <<r.iface, r.vlan>>
    <3>1. PICK r \in Rows : t = <<r.iface, r.vlan>>
      BY <2>4
    <3>2. t # Main /\ Len(t) = 2 /\ t[2] = r.vlan /\ \E i, v : t = <<i, v>>
      BY <3>1 DEF Main
    <3>3. s = vlanIfaceThreadActions(o, rows, stg, t)
      BY <2>4, <3>2 DEF threadActions
    <3>4. kids = {}
      BY <3>2 DEF Kids
    <3>5. t[2] \in 0..RESERVED \cup {NONE}
      BY <3>2, RowsAssumption DEF RowType
    <3>6. \A D : /\ Done(o, D, {}).phase = 0 /\ Done(o, D, {}).done = D
                 /\ Done(o, D, {}).kids = {} /\ Done(o, D, {}).joined = {}
                 /\ Done(o, D, {}).held = {}
      BY DEF Done, Between, Control
    <3>7. CASE t[2] # RESERVED
      <4>1. own = RowsOf(rows, stg, t)
        BY <3>2, <3>7 DEF Own
      <4> HIDE DEF A, s, own, kids
      <4>2. Leads(o, t, own, A, s, Done(o, own, {}))
        BY <1>2, <3>2, <3>3, <3>5, <3>7, <4>1, LeadsVlan
      <4> QED BY <3>4, <3>6, <4>2
    <3>8. CASE t[2] = RESERVED
      <4>1. own = {}
        BY <3>8 DEF Own
      <4>2. RESERVED <= t[2] /\ NONE # t[2]
        BY <3>8 DEF RESERVED, NONE
      <4>3. s = (RaiiVlan(t) \o <<>>) \o UndoRaiiVlan(t)
        BY <3>3, <4>2 DEF vlanIfaceThreadActions
      <4>4. /\ AtRest(own, A) /\ Holding(A, {}) = A
        BY <1>1 DEF AtRest, Holding, Beginning, Control
      <4>5. DeviceOf(t) = {}
        <5>1. ~(t[2] < RESERVED)
          BY <3>8 DEF RESERVED
        <5> QED BY <5>1 DEF DeviceOf, OnDevice
      <4> HIDE DEF A, s, own, kids
      <4>6. Leads(o, t, own, A, RaiiVlan(t), A) /\ Leads(o, t, own, A, UndoRaiiVlan(t), A)
        BY <3>2, <3>5, <4>4, <4>5, LeadsRaiiVlan
      <4>7. Leads(o, t, own, A, s, A)
        BY <1>1, <4>3, <4>6, LeadsEmpty, LeadsConcat
      <4> QED BY <1>2, <3>4, <3>6, <4>1, <4>7
    <3> QED BY <3>7, <3>8
  <2> QED BY <1>3, <2>1, <2>2, <2>3, <2>4
<1> HIDE DEF s, A, own, kids
<1>5. PICK B : /\ Leads(o, t, own, A, s, B)
               /\ B.phase = 0 /\ B.done = own
               /\ B.kids = kids /\ B.joined = kids /\ B.held = {}
  BY <1>4
<1>6. PICK c : c[1] = A /\ c[Len(s) + 1] = B /\ Traces(o, t, own, s, c)
  BY <1>5 DEF Leads
<1>7. ThreadTrace(o, rows, stg, t, s, c)
  BY <1>5, <1>6 DEF ThreadTrace, own, kids, A
<1>8. IsSeq(s)
  BY <1>5 DEF Leads
<1> QED BY <1>7, <1>8 DEF s
=============================================================================
