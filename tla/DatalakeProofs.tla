---------------------------- MODULE DatalakeProofs ----------------------------
(***************************************************************************)
(* Proofs about the data lake.  First for any number of tools that run     *)
(* together and may be killed between any two commands: types, the order   *)
(* of commits, and that what was committed is kept.  Then for tools that   *)
(* run one after another: listings are exact, what is removed permanently  *)
(* is gone, and the tools implement the store with a time axis of Lake.    *)
(***************************************************************************)
EXTENDS Datalake, Inductions

-------------------------------------------------------------------------------
(* What filter-branch computes.                                            *)

\* The histories f[k] that remain of the first k commits of h.
Filters(f, h, S) ==
  /\ f[0] = <<>>
  /\ \A k \in 1..Len(h) : f[k] = FilterCommit(f[k - 1], h[k], S)

\* The equation of the fold over the commits up to m.
FilterFold(g, h, S, m) ==
  g = [s \in SUBSET (1..m) |->
         IF s = {} THEN <<>>
         ELSE FilterCommit(g[s \ {Max(s)}], h[Max(s)], S)]

\* It has a solution.
LEMMA FilterFoldExists ==
  ASSUME NEW h, NEW S, NEW n \in Nat
  PROVE  \E g : FilterFold(g, h, S, n)
<1> DEFINE T == {m \in Nat : \E g : FilterFold(g, h, S, m)}
<1>1. 0 \in T
  <2> DEFINE g == [s \in SUBSET (1..0) |-> <<>>]
  <2>1. \A s \in SUBSET (1..0) : s = {}
    OBVIOUS
  <2>2. FilterFold(g, h, S, 0)
    BY <2>1 DEF FilterFold
  <2> HIDE DEF g
  <2> QED BY <2>2
<1>2. ASSUME NEW m \in T PROVE m + 1 \in T
  <2>1. PICK g : FilterFold(g, h, S, m)
    OBVIOUS
  <2> DEFINE D == SUBSET (1..(m + 1))
             step(u, s) == IF s = {} THEN <<>>
                           ELSE FilterCommit(u[s \ {Max(s)}], h[Max(s)], S)
             e == [s \in D |-> IF m + 1 \in s
                               THEN FilterCommit(g[s \ {m + 1}], h[m + 1], S)
                               ELSE g[s]]
  <2>2. ASSUME NEW s \in D PROVE e[s] = step(e, s)
    <3>1. CASE m + 1 \in s
      <4>1. s \in SUBSET (0..(m + 1)) /\ s # {}
        BY <3>1
      <4>11. m \in Nat /\ m + 1 \in Nat
        OBVIOUS
      <4>2. Max(s) \in s /\ \A x \in s : x <= Max(s)
        BY <4>1, <4>11, MaxOf
      <4>3. Max(s) = m + 1
        <5>1. PICK u : u = Max(s)
          OBVIOUS
        <5>2. u \in 0..(m + 1) /\ m + 1 <= u
          BY <3>1, <4>1, <4>2, <5>1
        <5> HIDE DEF T, e, step, D
        <5> QED BY <4>11, <5>1, <5>2
      <4>4. s \ {m + 1} \in D /\ m + 1 \notin s \ {m + 1}
        OBVIOUS
      <4>5. e[s \ {m + 1}] = g[s \ {m + 1}]
        BY <4>4
      <4>6. e[s] = FilterCommit(g[s \ {m + 1}], h[m + 1], S)
        BY <3>1
      <4> HIDE DEF e
      <4> QED BY <4>1, <4>3, <4>5, <4>6
    <3>2. CASE m + 1 \notin s
      <4>1. s \in SUBSET (1..m)
        BY <3>2
      <4>2. g[s] = step(g, s)
        BY <2>1, <4>1 DEF FilterFold
      <4>3. e[s] = g[s]
        BY <3>2
      <4>4. CASE s = {}
        BY <4>2, <4>3, <4>4
      <4>5. CASE s # {}
        <5>1. s \ {Max(s)} \in D /\ m + 1 \notin s \ {Max(s)}
          BY <3>2
        <5>2. e[s \ {Max(s)}] = g[s \ {Max(s)}]
          BY <5>1
        <5> HIDE DEF e
        <5> QED BY <4>2, <4>3, <4>5, <5>2
      <4> QED BY <4>4, <4>5
    <3> QED BY <3>1, <3>2
  <2>3. e = [s \in D |-> e[s]]
    OBVIOUS
  <2> HIDE DEF e
  <2>4. e = [s \in D |-> step(e, s)]
    BY <2>2, <2>3
  <2>5. FilterFold(e, h, S, m + 1)
    BY <2>4 DEF FilterFold
  <2> QED BY <2>5
<1>3. n \in T
  <2> HIDE DEF T
  <2>1. T \in SUBSET Nat
    BY DEF T
  <2> QED BY <1>1, <1>2, <2>1, NumbersBySteps
<1> QED BY <1>3

\* So Filter goes through the commits one by one.
LEMMA FilterSteps ==
  ASSUME NEW C, NEW h \in Seq(C), NEW S
  PROVE  \E f : Filters(f, h, S) /\ Filter(h, S) = f[Len(h)]
<1> DEFINE n == Len(h)
           g == CHOOSE g : FilterFold(g, h, S, n)
           f == [k \in 0..n |-> g[1..k]]
<1>1. n \in Nat /\ DOMAIN h = 1..n
  OBVIOUS
<1>2. Filter(h, S) = (CHOOSE u : u = [s \in SUBSET DOMAIN h |->
                        IF s = {} THEN <<>>
                        ELSE FilterCommit(u[s \ {Max(s)}], h[Max(s)], S)])[DOMAIN h]
  BY Zenon DEF Filter, FoldLeft, MapThenFoldSet
<1>3. Filter(h, S) = g[1..n]
  BY <1>1, <1>2 DEF FilterFold
<1>4. FilterFold(g, h, S, n)
  BY <1>1, FilterFoldExists, Zenon
<1> HIDE DEF g, n
<1>5. f[0] = <<>>
  <2>1. 1..0 \in SUBSET (1..n) /\ 1..0 = {} /\ 0 \in 0..n
    BY <1>1
  <2> QED BY <1>4, <2>1 DEF FilterFold
<1>6. ASSUME NEW k \in 1..n PROVE f[k] = FilterCommit(f[k - 1], h[k], S)
  <2>0. k \in Nat /\ n \in Nat /\ 1 <= k /\ k <= n
    BY <1>1
  <2>1. 1..k \in SUBSET (1..n) /\ 1..k \in SUBSET (0..k) /\ 1..k # {} /\ k \in Nat
    <3>1. k \in 1..k
      BY <2>0
    <3>2. \A x \in 1..k : x \in 1..n /\ x \in 0..k
      BY <2>0
    <3> QED BY <2>0, <3>1, <3>2
  <2>2. Max(1..k) \in 1..k /\ \A x \in 1..k : x <= Max(1..k)
    BY <2>1, MaxOf
  <2>3. Max(1..k) = k
    BY <2>1, <2>2
  <2>4. (1..k) \ {k} = 1..(k - 1)
    <3>1. k \in Nat
      BY <2>1
    <3> HIDE DEF f
    <3> QED BY <3>1
  <2>5. g[1..k] = FilterCommit(g[(1..k) \ {Max(1..k)}], h[Max(1..k)], S)
    BY <1>4, <2>1 DEF FilterFold
  <2> QED BY <1>1, <2>3, <2>4, <2>5
<1>7. f[n] = Filter(h, S)
  BY <1>1, <1>3
<1> HIDE DEF f
<1> QED BY <1>5, <1>6, <1>7 DEF Filters, n

-------------------------------------------------------------------------------
(* Histories                                                               *)

Notes   == {NoNote} \cup (Paths \X Tools)
Commits == [time : 0..MaxTime, tree : Tree, note : Notes]

\* The commits of h were made by time t.
Until(h, t) == \A i \in 1..Len(h) : h[i].time <= t

\* Each commit was made after those before it.
Ordered(h) == \A i, j \in 1..Len(h) : i <= j => h[i].time <= h[j].time

\* What a history is made of.
LEMMA HistoryOf ==
  ASSUME NEW h \in Histories
  PROVE  /\ h \in Seq(Commits)
         /\ Len(h) \in Nat /\ DOMAIN h = 1..Len(h)
         /\ \A i \in 1..Len(h) :
              /\ h[i] \in Commits
              /\ h[i].time \in 0..MaxTime
              /\ h[i].tree \in Tree /\ h[i].note \in Notes
<1>1. h \in Seq(Commits)
  BY DEF Histories, Commits, Notes
<1>2. \A c \in Commits : c.time \in 0..MaxTime /\ c.tree \in Tree /\ c.note \in Notes
  BY DEF Commits
<1> HIDE DEF Commits
<1>3. Len(h) \in Nat /\ DOMAIN h = 1..Len(h)
  BY <1>1
<1>4. \A i \in 1..Len(h) : h[i] \in Commits
  BY <1>1
<1> QED BY <1>1, <1>2, <1>3, <1>4

\* The tree of the tip.
LEMMA TreeOfTip ==
  ASSUME NEW h \in Histories
  PROVE  /\ TreeOf(h) \in Tree
         /\ h = <<>> => TreeOf(h) = Empty
         /\ h # <<>> => Len(h) \in 1..Len(h) /\ TreeOf(h) = h[Len(h)].tree
<1>1. h = <<>> => TreeOf(h) = Empty
  BY DEF TreeOf
<1>2. Empty \in Tree
  BY DEF Empty, Tree
<1>3. h # <<>> => Len(h) \in 1..Len(h)
  <2>1. h \in Seq(Commits)
    BY HistoryOf
  <2> HIDE DEF Commits
  <2> QED BY <2>1
<1>4. h # <<>> => TreeOf(h) = h[Len(h)].tree
  BY DEF TreeOf, Last
<1> QED BY <1>1, <1>2, <1>3, <1>4, HistoryOf

\* A commit is made.
LEMMA CommitMade ==
  ASSUME NEW h \in Histories, NEW c \in Commits
  PROVE  LET g == Append(h, c)
         IN  /\ g \in Histories /\ Len(g) = Len(h) + 1
             /\ g[Len(h) + 1] = c /\ \A i \in 1..Len(h) : g[i] = h[i]
             /\ TreeOf(g) = c.tree
<1> DEFINE g == Append(h, c)
<1>1. h \in Seq(Commits) /\ Len(h) \in Nat
  BY HistoryOf
<1>2. g \in Seq(Commits) /\ Len(g) = Len(h) + 1
      /\ g[Len(h) + 1] = c /\ \A i \in 1..Len(h) : g[i] = h[i]
  <2> HIDE DEF Commits
  <2> QED BY <1>1
<1>3. g \in Histories
  BY <1>2 DEF Histories, Commits, Notes
<1> HIDE DEF g
<1>4. g # <<>>
  BY <1>1, <1>2
<1>5. TreeOf(g) = c.tree
  BY <1>2, <1>3, <1>4, TreeOfTip
<1> QED BY <1>2, <1>3, <1>5 DEF g

\* After its last commit a history says what its tip says.
LEMMA AsOfTip ==
  ASSUME NEW h \in Histories, NEW t, Until(h, t)
  PROVE  AsOfIn(h, t) = TreeOf(h)
<1> DEFINE is == {i \in DOMAIN h : h[i].time <= t}
<1>1. Len(h) \in Nat /\ DOMAIN h = 1..Len(h)
  BY HistoryOf
<1>2. is = 1..Len(h)
  BY <1>1 DEF Until
<1>3. AsOfIn(h, t) = Newest(h, is)
  BY DEF AsOfIn
<1> HIDE DEF is
<1>4. CASE h = <<>>
  BY <1>2, <1>3, <1>4, TreeOfTip DEF Newest
<1>5. CASE h # <<>>
  <2>1. Len(h) \in 1..Len(h) /\ TreeOf(h) = h[Len(h)].tree
    BY <1>5, TreeOfTip
  <2>2. is \in SUBSET (0..Len(h)) /\ is # {}
    BY <1>1, <1>2, <2>1
  <2>3. Max(is) \in is /\ \A x \in is : x <= Max(is)
    BY <1>1, <2>2, MaxOf
  <2>4. PICK m : m = Max(is)
    OBVIOUS
  <2>5. m = Len(h)
    BY <1>1, <1>2, <2>1, <2>3, <2>4
  <2> QED BY <1>3, <2>1, <2>2, <2>4, <2>5 DEF Newest
<1> QED BY <1>4, <1>5

\* A commit shows at its time and after it, and changes nothing before.
LEMMA AsOfCommit ==
  ASSUME NEW h \in Histories, NEW c \in Commits, Until(h, c.time), NEW t \in Nat
  PROVE  /\ c.time <= t => AsOfIn(Append(h, c), t) = c.tree
         /\ t < c.time => AsOfIn(Append(h, c), t) = AsOfIn(h, t)
<1> DEFINE g == Append(h, c)
           n == Len(h)
<1>1. /\ n \in Nat /\ DOMAIN h = 1..n
      /\ \A i \in 1..n : h[i].time \in Nat
      /\ c.time \in Nat
  BY HistoryOf, LakeAssumption DEF Commits
<1>2. /\ g \in Histories /\ Len(g) = n + 1 /\ g[n + 1] = c
      /\ \A i \in 1..n : g[i] = h[i]
      /\ TreeOf(g) = c.tree
  BY CommitMade
<1>3. DOMAIN g = 1..(n + 1)
  BY <1>2, HistoryOf
<1> HIDE DEF g, n, Commits
<1>4. CASE c.time <= t
  <2>1. Until(g, t)
    <3>1. ASSUME NEW i \in 1..(n + 1) PROVE g[i].time <= t
      <4>1. CASE i = n + 1
        BY <1>2, <1>4, <4>1
      <4>2. CASE i # n + 1
        <5>1. i \in 1..n
          BY <1>1, <4>2
        <5>2. h[i].time <= c.time
          BY <5>1 DEF Until, n
        <5> QED BY <1>1, <1>2, <1>4, <5>1, <5>2
      <4> QED BY <4>1, <4>2
    <3> QED BY <1>2, <3>1 DEF Until
  <2>2. AsOfIn(g, t) = TreeOf(g)
    BY <1>2, <2>1, AsOfTip
  <2> QED BY <1>1, <1>2, <1>4, <2>2 DEF g
<1>5. CASE t < c.time
  <2> DEFINE is == {i \in DOMAIN h : h[i].time <= t}
             js == {i \in DOMAIN g : g[i].time <= t}
  <2>1. ~(g[n + 1].time <= t)
    BY <1>1, <1>2, <1>5
  <2>2. js = is
    BY <1>1, <1>2, <1>3, <2>1
  <2>3. AsOfIn(h, t) = Newest(h, is) /\ AsOfIn(g, t) = Newest(g, js)
    BY DEF AsOfIn
  <2>4. is \in SUBSET (0..n) /\ is \subseteq 1..n
    BY <1>1
  <2> HIDE DEF is, js
  <2>5. AsOfIn(g, t) = AsOfIn(h, t)
    <3>1. CASE is = {}
      BY <2>2, <2>3, <3>1 DEF Newest
    <3>2. CASE is # {}
      <4>1. Max(is) \in is
        BY <1>1, <2>4, <3>2, MaxOf
      <4>2. g[Max(is)] = h[Max(is)]
        BY <1>2, <2>4, <4>1
      <4> QED BY <2>2, <2>3, <3>2, <4>2 DEF Newest
    <3> QED BY <3>1, <3>2
  <2> QED BY <1>1, <1>5, <2>5 DEF g
<1> QED BY <1>4, <1>5 DEF g

\* A history until a time is one until any later time.
LEMMA UntilLater ==
  ASSUME NEW h \in Histories, NEW u \in Nat, NEW t \in Nat, u <= t, Until(h, u)
  PROVE  Until(h, t)
<1>1. \A i \in 1..Len(h) : h[i].time \in Nat
  BY HistoryOf, LakeAssumption
<1> QED BY <1>1 DEF Until

\* A commit that is made last keeps a history in order.
LEMMA OrderKept ==
  ASSUME NEW h \in Histories, NEW c \in Commits
  PROVE  /\ \A u : Until(Append(h, c), u) <=> Until(h, u) /\ c.time <= u
         /\ Ordered(h) /\ Until(h, c.time) => Ordered(Append(h, c))
<1> DEFINE g == Append(h, c)
           n == Len(h)
<1>1. n \in Nat
  BY HistoryOf
<1>2. Len(g) = n + 1 /\ g[n + 1] = c /\ \A i \in 1..n : g[i] = h[i]
  BY CommitMade
<1>3. c.time \in Nat
  BY LakeAssumption DEF Commits
<1> HIDE DEF g
<1>4. \A u : Until(g, u) <=> Until(h, u) /\ c.time <= u
  <2> TAKE u
  <2>1. ASSUME Until(g, u) PROVE Until(h, u) /\ c.time <= u
    <3>1. n + 1 \in 1..(n + 1) /\ \A i \in 1..n : i \in 1..(n + 1)
      BY <1>1
    <3> HIDE DEF n
    <3> QED BY <1>2, <2>1, <3>1 DEF Until, n
  <2>2. ASSUME Until(h, u), c.time <= u PROVE Until(g, u)
    <3>1. \A i \in 1..(n + 1) : i \in 1..n \/ i = n + 1
      BY <1>1
    <3> HIDE DEF n
    <3> QED BY <1>2, <2>2, <3>1 DEF Until, n
  <2> QED BY <2>1, <2>2
<1>5. ASSUME Ordered(h), Until(h, c.time) PROVE Ordered(g)
  <2>1. ASSUME NEW i \in 1..(n + 1), NEW j \in 1..(n + 1), i <= j
        PROVE  g[i].time <= g[j].time
    <3>1. CASE j = n + 1 /\ i = n + 1
      BY <1>2, <1>3, <3>1
    <3>2. CASE j = n + 1 /\ i # n + 1
      <4>1. i \in 1..n
        BY <1>1, <3>2
      <4>2. h[i].time <= c.time
        BY <1>5, <4>1 DEF Until
      <4> QED BY <1>2, <3>2, <4>1, <4>2
    <3>3. CASE j # n + 1
      <4>1. i \in 1..n /\ j \in 1..n
        BY <1>1, <2>1, <3>3
      <4>2. h[i].time <= h[j].time
        BY <1>5, <2>1, <4>1 DEF Ordered
      <4> QED BY <1>2, <4>1, <4>2
    <3> QED BY <3>1, <3>2, <3>3
  <2> QED BY <1>2, <2>1 DEF Ordered
<1> QED BY <1>4, <1>5 DEF g

\* g is what a permanent removal of S leaves of the history h.
Filtered(g, h, S) ==
  /\ g \in Histories /\ Ordered(g)
  /\ TreeOf(g) = Without(TreeOf(h), S)
  /\ \A i \in 1..Len(g) : g[i].tree = Without(g[i].tree, S)
  /\ \A u \in Nat : Until(h, u) => Until(g, u)
  /\ \A t \in Nat : AsOfIn(g, t) = Without(AsOfIn(h, t), S)

\* Nothing is left of nothing.
LEMMA FilteredEmpty == ASSUME NEW S PROVE Filtered(<<>>, <<>>, S)
<1>1. <<>> \in Histories /\ Len(<<>>) = 0
  BY DEF Histories
<1>2. TreeOf(<<>>) = Empty
  BY <1>1, TreeOfTip
<1>3. Without(Empty, S) = Empty
  BY DEF Without, Empty
<1>4. \A t : Until(<<>>, t)
  BY <1>1 DEF Until
<1>5. \A t \in Nat : AsOfIn(<<>>, t) = Empty
  BY <1>1, <1>2, <1>4, AsOfTip
<1> QED BY <1>1, <1>2, <1>3, <1>4, <1>5 DEF Filtered, Ordered

\* One commit more.
LEMMA FilteredCommit ==
  ASSUME NEW S, NEW g, NEW h \in Histories, NEW c \in Commits,
         Filtered(g, h, S), Until(h, c.time)
  PROVE  Filtered(FilterCommit(g, c, S), Append(h, c), S)
<1> DEFINE tree == Without(c.tree, S)
           d == [c EXCEPT !.tree = tree]
           k == Append(h, c)
<1>1. c.time \in Nat /\ c.tree \in Tree
  BY LakeAssumption DEF Commits
<1>2. tree \in Tree /\ tree = Without(tree, S)
  BY <1>1 DEF Without, Tree
<1>3. d \in Commits /\ d.time = c.time /\ d.tree = tree
  BY <1>1, <1>2 DEF Commits
<1>4. k \in Histories /\ TreeOf(k) = c.tree
  BY CommitMade
<1>5. g \in Histories /\ Ordered(g) /\ Until(g, c.time)
  BY <1>1 DEF Filtered
<1>6. \A u : Until(k, u) => Until(h, u) /\ c.time <= u
  BY OrderKept
<1>7. \A t \in Nat : /\ c.time <= t => AsOfIn(k, t) = c.tree
                     /\ t < c.time => AsOfIn(k, t) = AsOfIn(h, t)
  BY AsOfCommit
<1> HIDE DEF tree, d, k, Commits
<1>8. CASE tree = TreeOf(g)
  <2>1. FilterCommit(g, c, S) = g
    BY <1>8 DEF FilterCommit, tree
  <2>2. TreeOf(g) = Without(TreeOf(k), S)
    BY <1>4, <1>8 DEF tree
  <2>3. ASSUME NEW t \in Nat PROVE AsOfIn(g, t) = Without(AsOfIn(k, t), S)
    <3>1. CASE c.time <= t
      <4>1. Until(g, t)
        BY <1>1, <1>5, <3>1, UntilLater
      <4>2. AsOfIn(g, t) = TreeOf(g)
        BY <1>5, <4>1, AsOfTip
      <4> QED BY <1>7, <1>8, <3>1, <4>2 DEF tree
    <3>2. CASE t < c.time
      BY <1>7, <3>2 DEF Filtered
    <3> QED BY <1>1, <3>1, <3>2
  <2>4. \A u \in Nat : Until(k, u) => Until(g, u)
    BY <1>6 DEF Filtered
  <2>5. Filtered(g, k, S)
    BY <1>5, <2>2, <2>3, <2>4 DEF Filtered
  <2> QED BY <2>1, <2>5 DEF k
<1>9. CASE tree # TreeOf(g)
  <2> DEFINE e == Append(g, d)
  <2>1. FilterCommit(g, c, S) = e
    BY <1>9 DEF FilterCommit, tree, d
  <2>2. /\ e \in Histories /\ Len(e) = Len(g) + 1
        /\ e[Len(g) + 1] = d /\ \A i \in 1..Len(g) : e[i] = g[i]
        /\ TreeOf(e) = tree
    BY <1>3, <1>5, CommitMade
  <2>3. /\ \A u : Until(e, u) <=> Until(g, u) /\ c.time <= u
        /\ Ordered(e)
    BY <1>3, <1>5, OrderKept
  <2>4. \A t \in Nat : /\ c.time <= t => AsOfIn(e, t) = tree
                       /\ t < c.time => AsOfIn(e, t) = AsOfIn(g, t)
    BY <1>3, <1>5, AsOfCommit
  <2> HIDE DEF e
  <2>5. \A i \in 1..Len(e) : e[i].tree = Without(e[i].tree, S)
    <3> SUFFICES ASSUME NEW i \in 1..Len(e)
                 PROVE  e[i].tree = Without(e[i].tree, S)
      OBVIOUS
    <3>1. Len(g) \in Nat
      BY <1>5, HistoryOf
    <3>2. i \in 1..Len(g) \/ i = Len(g) + 1
      BY <2>2, <3>1
    <3>3. CASE i \in 1..Len(g)
      BY <2>2, <3>3 DEF Filtered
    <3>4. CASE i = Len(g) + 1
      BY <1>2, <1>3, <2>2, <3>4
    <3> QED BY <3>2, <3>3, <3>4
  <2>6. ASSUME NEW t \in Nat PROVE AsOfIn(e, t) = Without(AsOfIn(k, t), S)
    <3>1. CASE c.time <= t
      BY <1>7, <2>4, <3>1 DEF tree
    <3>2. CASE t < c.time
      BY <1>7, <2>4, <3>2 DEF Filtered
    <3> QED BY <1>1, <3>1, <3>2
  <2>7. \A u \in Nat : Until(k, u) => Until(e, u)
    BY <1>6, <2>3 DEF Filtered
  <2>8. TreeOf(e) = Without(TreeOf(k), S)
    BY <1>4, <2>2 DEF tree
  <2>9. Filtered(e, k, S)
    BY <2>2, <2>3, <2>5, <2>6, <2>7, <2>8 DEF Filtered
  <2> QED BY <2>1, <2>9 DEF k
<1> QED BY <1>8, <1>9

\* The first commits of a history.
LEMMA HistoryBegins ==
  ASSUME NEW h \in Histories, NEW k \in 0..Len(h)
  PROVE  /\ SubSeq(h, 1, k) \in Histories /\ Len(SubSeq(h, 1, k)) = k
         /\ \A i \in 1..k : SubSeq(h, 1, k)[i] = h[i]
         /\ k = Len(h) => SubSeq(h, 1, k) = h
         /\ k # Len(h) => SubSeq(h, 1, k + 1) = Append(SubSeq(h, 1, k), h[k + 1])
<1>1. h \in Seq(Commits) /\ Len(h) \in Nat
  BY HistoryOf
<1> HIDE DEF Commits
<1> DEFINE g == SubSeq(h, 1, k)
<1>2. g \in Seq(Commits) /\ Len(g) = k /\ \A i \in 1..k : g[i] = h[i]
  BY <1>1
<1>3. g \in Histories
  BY <1>2 DEF Histories, Commits, Notes
<1>4. k = Len(h) => g = h
  BY <1>1
<1>5. k # Len(h) => SubSeq(h, 1, k + 1) = Append(g, h[k + 1])
  BY <1>1
<1> QED BY <1>2, <1>3, <1>4, <1>5

\* A permanent removal takes what it names out of every time, and nothing
\* else, whatever the history is.
LEMMA FilterRemoves ==
  ASSUME NEW h \in Histories, Ordered(h), NEW S
  PROVE  Filtered(Filter(h, S), h, S)
<1>1. h \in Seq(Commits) /\ Len(h) \in Nat /\ \A i \in 1..Len(h) : h[i] \in Commits
  BY HistoryOf
<1>2. PICK f : Filters(f, h, S) /\ Filter(h, S) = f[Len(h)]
  BY <1>1, FilterSteps
<1> DEFINE T == {k \in Nat : k <= Len(h) => Filtered(f[k], SubSeq(h, 1, k), S)}
<1>3. 0 \in T
  <2>1. SubSeq(h, 1, 0) = <<>>
    BY <1>1
  <2>2. f[0] = <<>>
    BY <1>2 DEF Filters
  <2>3. Filtered(f[0], SubSeq(h, 1, 0), S)
    BY <2>1, <2>2, FilteredEmpty
  <2> QED BY <2>3
<1>4. ASSUME NEW k \in T PROVE k + 1 \in T
  <2>1. SUFFICES ASSUME k + 1 <= Len(h)
                 PROVE  Filtered(f[k + 1], SubSeq(h, 1, k + 1), S)
    OBVIOUS
  <2> DEFINE p == SubSeq(h, 1, k)
             c == h[k + 1]
  <2>2. k \in 0..Len(h) /\ k # Len(h) /\ k + 1 \in 1..Len(h) /\ (k + 1) - 1 = k
    BY <1>1, <2>1
  <2>3. Filtered(f[k], p, S)
    BY <1>1, <2>2
  <2>4. f[k + 1] = FilterCommit(f[k], c, S)
    BY <1>2, <2>2 DEF Filters
  <2>5. /\ p \in Histories /\ Len(p) = k /\ \A i \in 1..k : p[i] = h[i]
        /\ SubSeq(h, 1, k + 1) = Append(p, c)
    BY <2>2, HistoryBegins
  <2>6. c \in Commits
    BY <1>1, <2>2
  <2> HIDE DEF p, c, T, Commits
  <2>7. Until(p, c.time)
    <3>1. ASSUME NEW i \in 1..k PROVE p[i].time <= c.time
      <4>1. i \in 1..Len(h) /\ i <= k + 1
        BY <1>1, <2>2
      <4>2. h[i].time <= h[k + 1].time
        BY <2>2, <4>1 DEF Ordered
      <4> QED BY <2>5, <4>2 DEF c
    <3> QED BY <2>5, <3>1 DEF Until
  <2>8. Filtered(FilterCommit(f[k], c, S), Append(p, c), S)
    BY <2>3, <2>5, <2>6, <2>7, FilteredCommit
  <2> QED BY <2>4, <2>5, <2>8
<1>5. Len(h) \in T
  <2> HIDE DEF T
  <2>1. T \in SUBSET Nat
    BY DEF T
  <2> QED BY <1>1, <1>3, <1>4, <2>1, NumbersBySteps
<1>6. Filtered(f[Len(h)], SubSeq(h, 1, Len(h)), S)
  BY <1>1, <1>5
<1>7. SubSeq(h, 1, Len(h)) = h
  BY <1>1, HistoryBegins
<1> QED BY <1>2, <1>6, <1>7

-------------------------------------------------------------------------------
(* Types                                                                   *)

\* What the tools were asked to do.
LEMMA JobOf ==
  ASSUME TypeOK, NEW s \in Slots
  PROVE  /\ job[s].op = "insert" =>
              job[s].path \in Paths /\ job[s].content \in Contents /\ job[s].tool \in Tools
         /\ job[s].op \in {"remove", "purge"} => job[s].paths \subseteq Paths
         /\ job[s].op = "list" => ReadByGit(job[s]) \in Int
<1>1. job[s] \in Jobs \/ job[s] = NoJob
  BY DEF TypeOK
<1>2. \A S \in Targets : S \subseteq Paths
  BY DEF Targets
<1>3. CASE job[s] = NoJob \/ job[s] = [op |-> "initialize"]
  BY <1>3 DEF NoJob
<1>4. CASE job[s] \in [op : {"insert"}, path : Paths, content : Contents, tool : Tools]
  BY <1>4
<1>5. CASE job[s] \in [op : {"remove", "purge"}, paths : Targets \ {{}}]
  BY <1>2, <1>5
<1>6. CASE job[s] \in [op : {"list"}, before : 0..Infinity, given : BOOLEAN]
  <2>1. job[s].op = "list" /\ job[s].before \in 0..Infinity
    BY <1>6
  <2> QED BY <2>1, LakeAssumption DEF ReadByGit
<1> QED BY <1>1, <1>3, <1>4, <1>5, <1>6 DEF Jobs, ListJobs

\* HEAD holds a history, and a tree.
LEMMA HeadTyped ==
  ASSUME TypeOK
  PROVE  HeadHist \in Histories /\ HeadTree \in Tree /\ TreesOf(HeadHist) \subseteq Tree
         /\ TreesOf(dhist) \subseteq Tree
<1>1. HeadHist \in Histories /\ dhist \in Histories
  BY DEF TypeOK, HeadHist
<1>2. \A h \in Histories : TreesOf(h) \subseteq Tree
  <2> TAKE h \in Histories
  <2>1. \A i \in DOMAIN h : h[i].tree \in Tree
    BY HistoryOf
  <2> QED BY <2>1 DEF TreesOf
<1> HIDE DEF HeadHist
<1> QED BY <1>1, <1>2, TreeOfTip DEF HeadTree

\* A checkout leaves the branch and the types.
LEMMA CheckoutTyped ==
  ASSUME TypeOK, NEW h \in Histories, NEW d \in BOOLEAN, Checkout(h, d)
  PROVE  /\ branch' = branch /\ dhist' \in Histories /\ detached' \in BOOLEAN
         /\ index' \in Tree /\ work' \in Tree /\ undo' \subseteq Tree
         /\ backup' \in BOOLEAN
<1>0. <<>> \in Histories
  BY DEF Histories
<1>1. TreeOf(h) \in Tree /\ TreesOf(dhist) \subseteq Tree /\ <<>> \in Histories
  BY <1>0, TreeOfTip, HeadTyped
<1>2. CASE UNCHANGED repo
  BY <1>2 DEF repo, TypeOK
<1>3. CASE ~UNCHANGED repo
  <2> DEFINE Same(p) == HeadTree[p] = TreeOf(h)[p]
             i2 == [p \in Paths |-> IF Same(p) THEN index[p] ELSE TreeOf(h)[p]]
             w2 == [p \in Paths |-> IF Same(p) \/ index[p] = TreeOf(h)[p]
                                    THEN work[p] ELSE TreeOf(h)[p]]
  <2>1. /\ index' = i2 /\ work' = w2
        /\ detached' = d /\ dhist' = IF d THEN h ELSE <<>>
        /\ undo' = undo \cup (TreesOf(dhist) \ TreesOf(branch))
        /\ branch' = branch /\ backup' = backup
    BY <1>3 DEF Checkout
  <2>2. i2 \in Tree /\ w2 \in Tree
    <3>1. \A p \in Paths : /\ TreeOf(h)[p] \in Contents \cup {Absent}
                           /\ index[p] \in Contents \cup {Absent}
                           /\ work[p] \in Contents \cup {Absent}
      BY <1>1 DEF TypeOK, Tree
    <3> HIDE DEF Same
    <3> QED BY <3>1 DEF Tree
  <2> QED BY <1>1, <2>1, <2>2 DEF TypeOK
<1> QED BY <1>2, <1>3

\* Something of a set of paths is taken out of a tree.
LEMMA WithoutTyped ==
  ASSUME NEW tree \in Tree, NEW S
  PROVE  Without(tree, S) \in Tree
BY DEF Without, Tree

\* The types without the positions of the tools, which each action sets.
RepoTyped ==
  /\ lake \in {"missing", "dir", "repo"}
  /\ branch \in Histories /\ dhist \in Histories /\ detached \in BOOLEAN
  /\ index \in Tree /\ work \in Tree /\ undo \subseteq Tree
  /\ backup \in BOOLEAN /\ clock \in 0..MaxTime

ToolsTyped ==
  /\ job \in [Slots -> Jobs \cup {NoJob}]
  /\ listing \in [Slots -> SUBSET (Paths \X Tools)]

Labels == {"idle", "start", "create", "init", "add", "commit",
           "unref", "gc", "align", "walk", "log", "restore",
           "done", "inserted", "purged", "listed"}

\* They are the type invariant.
LEMMA TypeParts ==
  TypeOK <=> RepoTyped /\ ToolsTyped /\ pc \in [Slots -> Labels]
BY DEF TypeOK, RepoTyped, ToolsTyped, Labels

\* A tool goes to a label.
LEMMA GoTyped ==
  ASSUME pc \in [Slots -> Labels], NEW s \in Slots, NEW l \in Labels, Go(s, l)
  PROVE  pc' \in [Slots -> Labels]
BY DEF Go

\* The commands that change the repository keep its types.
LEMMA CommandTyped ==
  ASSUME TypeOK, NEW s \in Slots,
         \/ RemoveLake(s) \/ CreateLake(s) \/ GitInit(s) \/ Copy(s) \/ GitAdd(s)
         \/ GitRm(s) \/ DeleteBackup(s) \/ Gc(s) \/ AlignRepo(s) \/ Restore(s)
  PROVE  RepoTyped'
<1> USE DEF TypeOK, RepoTyped, repo
<1>1. CASE RemoveLake(s)
  <2>1. Empty \in Tree /\ <<>> \in Histories
    BY DEF Empty, Tree, Histories
  <2> QED BY <1>1, <2>1 DEF RemoveLake
<1>2. CASE CreateLake(s) \/ GitInit(s) \/ DeleteBackup(s) \/ Gc(s) \/ GitAdd(s)
  BY <1>2 DEF CreateLake, GitInit, DeleteBackup, Gc, GitAdd
<1>3. CASE Copy(s)
  <2>1. job[s].path \in Paths /\ job[s].content \in Contents
    BY <1>3, JobOf DEF Copy, At
  <2>2. [work EXCEPT ![job[s].path] = job[s].content] \in Tree
    BY <2>1 DEF Tree
  <2> QED BY <1>3, <2>2 DEF Copy
<1>4. CASE GitRm(s)
  <2>1. \A S : Without(index, S) \in Tree /\ Without(work, S) \in Tree
    BY WithoutTyped
  <2> QED BY <1>4, <2>1 DEF GitRm
<1>5. CASE AlignRepo(s)
  <2>1. CASE UNCHANGED repo
    BY <1>5, <2>1 DEF AlignRepo
  <2>2. CASE ~UNCHANGED repo
    <3> DEFINE t == ReadByGit(job[s])
               n == RevList(branch, t)
    <3>1. Checkout(branch, FALSE) \/ (n # 0 /\ Checkout(SubSeq(branch, 1, n), TRUE))
      BY <1>5, <2>2 DEF AlignRepo
    <3>2. n \in 0..Len(branch)
      <4> DEFINE is == {0} \cup {i \in DOMAIN branch : branch[i].time <= t}
      <4>1. Len(branch) \in Nat /\ DOMAIN branch = 1..Len(branch)
        BY HistoryOf
      <4>2. is \in SUBSET (0..Len(branch)) /\ is # {}
        BY <4>1
      <4>3. n = Max(is)
        BY DEF RevList
      <4> HIDE DEF is, n
      <4> QED BY <4>1, <4>2, <4>3, MaxOf
    <3>3. SubSeq(branch, 1, n) \in Histories
      BY <3>2, HistoryBegins
    <3>4. lake' = lake /\ clock' = clock
      BY <1>5 DEF AlignRepo
    <3> QED BY <3>1, <3>3, <3>4, CheckoutTyped
  <2> QED BY <2>1, <2>2
<1>6. CASE Restore(s)
  <2>1. CASE UNCHANGED repo
    BY <1>6, <2>1 DEF Restore
  <2>2. CASE ~UNCHANGED repo
    <3>1. Checkout(branch, FALSE) /\ lake' = lake /\ clock' = clock
      BY <1>6, <2>2 DEF Restore
    <3> QED BY <3>1, CheckoutTyped
  <2> QED BY <2>1, <2>2
<1> QED BY <1>1, <1>2, <1>3, <1>4, <1>5, <1>6

-------------------------------------------------------------------------------
(* Order                                                                   *)

\* A history that was written in order and until now.
InOrder(h) == Ordered(h) /\ Until(h, clock)

\* The clock never goes back behind a commit.
Timed == InOrder(branch) /\ InOrder(dhist)

Sound == TypeOK /\ Timed

\* Nothing, and the beginning of a history, are in order too.
LEMMA OrderOf ==
  /\ <<>> \in Histories /\ Ordered(<<>>) /\ \A t : Until(<<>>, t)
  /\ \A h \in Histories : \A n \in 0..Len(h) : \A t :
       /\ Ordered(h) => Ordered(SubSeq(h, 1, n))
       /\ Until(h, t) => Until(SubSeq(h, 1, n), t)
<1>1. <<>> \in Histories /\ Len(<<>>) = 0
  BY DEF Histories
<1>2. Ordered(<<>>) /\ \A t : Until(<<>>, t)
  BY <1>1 DEF Ordered, Until
<1>3. ASSUME NEW h \in Histories, NEW n \in 0..Len(h), NEW t
      PROVE  /\ Ordered(h) => Ordered(SubSeq(h, 1, n))
             /\ Until(h, t) => Until(SubSeq(h, 1, n), t)
  <2> DEFINE g == SubSeq(h, 1, n)
  <2>1. Len(g) = n /\ \A i \in 1..n : g[i] = h[i]
    BY HistoryBegins
  <2>2. Len(h) \in Nat
    BY HistoryOf
  <2> HIDE DEF g
  <2>3. \A i \in 1..n : i \in 1..Len(h)
    BY <2>2
  <2>4. Ordered(h) => Ordered(g)
    BY <2>1, <2>3 DEF Ordered
  <2>5. Until(h, t) => Until(g, t)
    BY <2>1, <2>3 DEF Until
  <2> QED BY <2>4, <2>5 DEF g
<1> QED BY <1>1, <1>2, <1>3

\* Histories that stay, or become empty or shorter, stay in order.
LEMMA TimedKept ==
  ASSUME Sound, clock' \in Nat, clock <= clock',
         branch' = branch \/ branch' = <<>>,
         \/ dhist' = dhist \/ dhist' = <<>> \/ dhist' = branch
         \/ \E n \in 0..Len(branch) : dhist' = SubSeq(branch, 1, n)
  PROVE  Timed'
<1>1. clock \in Nat
  BY LakeAssumption DEF Sound, TypeOK
<1>2. branch \in Histories /\ dhist \in Histories
  BY DEF Sound, TypeOK
<1>3. /\ Ordered(branch) /\ Until(branch, clock')
      /\ Ordered(dhist) /\ Until(dhist, clock')
  BY <1>1, <1>2, UntilLater DEF Sound, Timed, InOrder
<1>4. Ordered(branch') /\ Until(branch', clock')
  BY <1>3, OrderOf
<1>5. Ordered(dhist') /\ Until(dhist', clock')
  <2>1. CASE \E n \in 0..Len(branch) : dhist' = SubSeq(branch, 1, n)
    <3>1. PICK n \in 0..Len(branch) : dhist' = SubSeq(branch, 1, n)
      BY <2>1
    <3>2. Ordered(SubSeq(branch, 1, n)) /\ Until(SubSeq(branch, 1, n), clock')
      BY <1>2, <1>3, OrderOf
    <3> QED BY <3>1, <3>2
  <2>2. CASE dhist' = dhist \/ dhist' = <<>> \/ dhist' = branch
    BY <1>3, <2>2, OrderOf
  <2> QED BY <2>1, <2>2
<1> QED BY <1>4, <1>5 DEF Timed, InOrder

\* What a checkout does to the histories.
LEMMA CheckoutHistories ==
  ASSUME NEW h, NEW d, Checkout(h, d)
  PROVE  branch' = branch /\ (dhist' = dhist \/ dhist' = <<>> \/ dhist' = h)
BY DEF Checkout, repo

\* The commit that is asked for is one in time.
LEMMA AlignsInRange ==
  ASSUME NEW h \in Histories, Ordered(h), NEW t \in Int
  PROVE  /\ RevList(h, t) \in 0..Len(h)
         /\ \A i \in 1..Len(h) : h[i].time <= t <=> i <= RevList(h, t)
<1> DEFINE is == {i \in DOMAIN h : h[i].time <= t}
           n == Len(h)
<1>1. /\ n \in Nat /\ DOMAIN h = 1..n
      /\ \A i \in 1..n : h[i].time \in Nat
  BY HistoryOf, LakeAssumption
<1>2. {0} \cup is \in SUBSET (0..n) /\ {0} \cup is # {}
  BY <1>1
<1>3. PICK m : m = RevList(h, t)
  OBVIOUS
<1>4. m = Max({0} \cup is)
  BY <1>3 DEF RevList
<1>5. \A i : i \in is <=> i \in 1..n /\ h[i].time <= t
  BY <1>1
<1> HIDE DEF is, n
<1>6. m \in {0} \cup is /\ \A i \in {0} \cup is : i <= m
  BY <1>1, <1>2, <1>4, MaxOf
<1>7. m \in 0..n
  BY <1>2, <1>6
<1>8. ASSUME NEW i \in 1..n PROVE h[i].time <= t <=> i <= m
  <2>1. h[i].time <= t => i <= m
    BY <1>5, <1>6
  <2>2. ASSUME i <= m PROVE h[i].time <= t
    <3>1. m \in 1..n /\ h[m].time <= t
      BY <1>5, <1>6, <1>7, <2>2
    <3>2. h[i].time <= h[m].time
      BY <2>2, <3>1 DEF Ordered, n
    <3> QED BY <1>1, <3>1, <3>2
  <2> QED BY <2>1, <2>2
<1> QED BY <1>3, <1>7, <1>8 DEF n

\* Every step keeps types and order: first those that are no git commands.
LEMMA ToolSound ==
  ASSUME Sound, NEW s \in Slots,
         \/ Start(s) \/ Finish(s) \/ UserDeclines(s) \/ CopyFails(s)
         \/ ShowCurrent(s) \/ Walk(s) \/ ReadLog(s) \/ LockHeld(s) \/ Crash(s)
  PROVE  Sound'
<1> USE DEF repo
<1>1. UNCHANGED <<lake, repo, clock>>
  BY DEF Start, Finish, UserDeclines, CopyFails, ShowCurrent, Walk, ReadLog,
         LockHeld, Crash
<1>2. RepoTyped' /\ Timed'
  <2>1. RepoTyped /\ clock \in Nat
    BY TypeParts, LakeAssumption DEF Sound, RepoTyped
  <2>2. RepoTyped'
    BY <1>1, <2>1 DEF RepoTyped
  <2>3. Timed'
    BY <1>1, <2>1, TimedKept
  <2> QED BY <2>2, <2>3
<1>3. pc' \in [Slots -> Labels]
  <2>1. pc \in [Slots -> Labels]
    BY TypeParts DEF Sound
  <2>2. \E l \in Labels : Go(s, l)
    BY DEF Labels, Start, Finish, UserDeclines, CopyFails, ShowCurrent, Walk, ReadLog,
           LockHeld, Crash
  <2> QED BY <2>1, <2>2, GoTyped
<1>4. ToolsTyped'
  <2>1. ToolsTyped
    BY TypeParts DEF Sound
  <2>2. CASE UserDeclines(s) \/ ShowCurrent(s) \/ LockHeld(s)
    BY <2>1, <2>2 DEF ToolsTyped, UserDeclines, ShowCurrent, LockHeld
  <2>3. CASE Start(s) \/ Finish(s) \/ CopyFails(s) \/ Crash(s)
    BY <2>1, <2>3 DEF ToolsTyped, Start, Finish, CopyFails, Crash
  <2>4. CASE Walk(s)
    BY <2>1, <2>4, LakeAssumption DEF ToolsTyped, Walk
  <2>5. CASE ReadLog(s)
    <3>1. \A p \in Paths : ToolIn(HeadHist, p) \in Tools
      <4> SUFFICES ASSUME NEW p \in Paths PROVE ToolIn(HeadHist, p) \in Tools
        OBVIOUS
      <4>1. PICK h \in Histories : h = HeadHist
        BY HeadTyped DEF Sound
      <4> DEFINE found == {i \in DOMAIN h : h[i].note # NoNote /\ h[i].note[1] = p}
      <4>2. ToolIn(h, p) = IF found = {} THEN NoTool ELSE h[Max(found)].note[2]
        BY DEF ToolIn
      <4>3. /\ Len(h) \in Nat /\ DOMAIN h = 1..Len(h)
            /\ \A i \in 1..Len(h) : h[i].note \in Notes
        BY HistoryOf
      <4>4. CASE found = {}
        BY <4>1, <4>2, <4>4, LakeAssumption
      <4>5. CASE found # {}
        <5>1. found \in SUBSET (0..Len(h))
          BY <4>3
        <5>2. Max(found) \in found
          BY <4>3, <4>5, <5>1, MaxOf
        <5>3. PICK m \in found : m = Max(found)
          BY <5>2
        <5>4. h[m].note \in Notes /\ h[m].note # NoNote
          BY <4>3
        <5>5. h[m].note[2] \in Tools
          BY <5>4 DEF Notes
        <5> QED BY <4>1, <4>2, <4>5, <5>3, <5>5
      <4> QED BY <4>4, <4>5
    <3>2. \A e \in listing[s] : e[1] \in Paths
      BY <2>1 DEF ToolsTyped
    <3>3. {<<e[1], ToolIn(HeadHist, e[1])>> : e \in listing[s]} \subseteq Paths \X Tools
      BY <3>1, <3>2
    <3> QED BY <2>1, <2>5, <3>3 DEF ToolsTyped, ReadLog
  <2> QED BY <2>2, <2>3, <2>4, <2>5
<1>5. TypeOK'
  BY <1>2, <1>3, <1>4 DEF TypeOK, RepoTyped, ToolsTyped, Labels
<1> QED BY <1>2, <1>5 DEF Sound

\* Then the commands.
LEMMA CommandSound ==
  ASSUME Sound, NEW s \in Slots,
         \/ RemoveLake(s) \/ CreateLake(s) \/ GitInit(s) \/ Copy(s) \/ GitAdd(s)
         \/ GitRm(s) \/ DeleteBackup(s) \/ Gc(s) \/ AlignRepo(s) \/ Restore(s)
  PROVE  Sound'
<1>1. RepoTyped' /\ clock' = clock /\ job' = job /\ listing' = listing
  BY CommandTyped DEF Sound, RemoveLake, CreateLake, GitInit, Copy, GitAdd, GitRm,
     DeleteBackup, Gc, AlignRepo, Restore
<1>2. pc' \in [Slots -> Labels]
  <2>1. pc \in [Slots -> Labels]
    BY TypeParts DEF Sound
  <2>2. \E l \in Labels : Go(s, l)
    BY DEF Labels, RemoveLake, CreateLake, GitInit, Copy, GitAdd, GitRm,
       DeleteBackup, Gc, AlignRepo, Restore
  <2> QED BY <2>1, <2>2, GoTyped
<1>3. TypeOK'
  BY <1>1, <1>2 DEF TypeOK, RepoTyped, ToolsTyped, Labels, Sound
<1>4. branch \in Histories /\ clock \in Nat /\ Ordered(branch)
  BY LakeAssumption DEF Sound, TypeOK, Timed, InOrder
<1>5. Timed'
  <2>1. CASE RemoveLake(s)
    BY <1>1, <1>4, <2>1, TimedKept DEF RemoveLake
  <2>2. CASE CreateLake(s) \/ GitInit(s) \/ Copy(s) \/ GitAdd(s) \/ GitRm(s)
             \/ DeleteBackup(s) \/ Gc(s)
    BY <1>1, <1>4, <2>2, TimedKept
       DEF CreateLake, GitInit, Copy, GitAdd, GitRm, DeleteBackup, Gc, repo
  <2>3. CASE AlignRepo(s)
    <3> DEFINE t == ReadByGit(job[s])
               n == RevList(branch, t)
    <3>1. t \in Int
      BY <2>3, JobOf DEF AlignRepo, At, Sound
    <3>2. n \in 0..Len(branch)
      BY <1>4, <3>1, AlignsInRange
    <3>3. UNCHANGED repo \/ Checkout(branch, FALSE) \/ Checkout(SubSeq(branch, 1, n), TRUE)
      BY <2>3 DEF AlignRepo
    <3> HIDE DEF n
    <3>4. /\ branch' = branch
          /\ dhist' = dhist \/ dhist' = <<>> \/ dhist' = branch \/ dhist' = SubSeq(branch, 1, n)
      BY <3>3, CheckoutHistories DEF repo
    <3> QED BY <1>1, <1>4, <3>2, <3>4, TimedKept
  <2>4. CASE Restore(s)
    <3>1. UNCHANGED repo \/ Checkout(branch, FALSE)
      BY <2>4 DEF Restore
    <3>2. branch' = branch /\ (dhist' = dhist \/ dhist' = <<>> \/ dhist' = branch)
      BY <3>1, CheckoutHistories DEF repo
    <3> QED BY <1>1, <1>4, <3>2, TimedKept
  <2> QED BY <2>1, <2>2, <2>3, <2>4
<1> QED BY <1>3, <1>5 DEF Sound

\* A commit bears the time, the index and the check-in line.
LEMMA CommitOf ==
  ASSUME Sound, NEW s \in Slots
  PROVE  [time |-> clock, tree |-> index, note |-> Note(job[s])] \in Commits
<1>1. Note(job[s]) \in Notes
  <2>1. CASE job[s].op = "insert"
    <3>1. job[s].path \in Paths /\ job[s].tool \in Tools
      BY <2>1, JobOf DEF Sound
    <3> QED BY <2>1, <3>1 DEF Note, Notes
  <2>2. CASE job[s].op # "insert"
    BY <2>2 DEF Note, Notes
  <2> QED BY <2>1, <2>2
<1> QED BY <1>1 DEF Commits, Sound, TypeOK

\* A commit goes to HEAD's history, in order.
LEMMA CommitSound ==
  ASSUME Sound, NEW s \in Slots, GitCommit(s)
  PROVE  Sound'
<1> DEFINE c == [time |-> clock, tree |-> index, note |-> Note(job[s])]
<1>1. /\ lake' = lake /\ clock' = clock /\ job' = job /\ listing' = listing
      /\ index' = index /\ work' = work /\ undo' = undo
      /\ backup' = backup /\ detached' = detached
      /\ \/ branch' = branch /\ dhist' = dhist
         \/ branch' = Append(branch, c) /\ dhist' = dhist
         \/ branch' = branch /\ dhist' = Append(dhist, c)
  BY DEF GitCommit, Commit, repo
<1>2. c \in Commits /\ c.time = clock
  BY CommitOf
<1>3. branch \in Histories /\ dhist \in Histories
  BY DEF Sound, TypeOK
<1>4. clock \in Nat
  BY LakeAssumption DEF Sound, TypeOK
<1> HIDE DEF c
<1>5. ASSUME NEW h \in Histories, InOrder(h)
      PROVE  /\ Append(h, c) \in Histories
             /\ Ordered(Append(h, c)) /\ Until(Append(h, c), clock)
  <2>1. Append(h, c) \in Histories
    BY <1>2, CommitMade
  <2>2. Ordered(h) /\ Until(h, clock)
    BY <1>5 DEF InOrder
  <2> QED BY <1>2, <1>4, <2>1, <2>2, OrderKept
<1>6. Timed' /\ branch' \in Histories /\ dhist' \in Histories
  BY <1>1, <1>3, <1>5 DEF Sound, Timed, InOrder
<1>7. pc' \in [Slots -> Labels]
  <2>1. pc \in [Slots -> Labels]
    BY TypeParts DEF Sound
  <2>2. Go(s, "done") \/ Go(s, "inserted")
    BY DEF GitCommit
  <2> QED BY <2>1, <2>2, GoTyped DEF Labels
<1>8. TypeOK'
  BY <1>1, <1>6, <1>7 DEF TypeOK, Labels, Sound
<1> QED BY <1>6, <1>8 DEF Sound

\* A permanent removal rewrites HEAD's history, in order.
LEMMA FilterSound ==
  ASSUME Sound, NEW s \in Slots, FilterBranch(s)
  PROVE  Sound'
<1> DEFINE old == HeadHist
           new == Filter(old, job[s].paths)
<1>1. /\ clock' = clock /\ job' = job /\ listing' = listing
      /\ detached' = detached
      /\ lake' = lake \/ lake' = "dir"
      /\ backup' = backup \/ backup' = TRUE
      /\ undo' = undo \/ undo' = undo \cup TreesOf(old)
      /\ \/ branch' = branch /\ dhist' = dhist
         \/ branch' = new /\ dhist' = dhist
         \/ branch' = branch /\ dhist' = new
      /\ \/ index' = index /\ work' = work
         \/ /\ index' = TreeOf(new)
            /\ work' = [p \in Paths |-> IF index[p] = Absent THEN work[p] ELSE index'[p]]
  BY DEF FilterBranch, repo
<1>2. old \in Histories /\ TreesOf(old) \subseteq Tree
  BY HeadTyped DEF Sound
<1>3. Ordered(old) /\ Until(old, clock) /\ clock \in Nat
  BY LakeAssumption DEF Sound, Timed, InOrder, HeadHist, TypeOK
<1> HIDE DEF old
<1>4. Filtered(new, old, job[s].paths)
  BY <1>2, <1>3, FilterRemoves
<1>5. new \in Histories /\ Ordered(new) /\ Until(new, clock) /\ TreeOf(new) \in Tree
  BY <1>3, <1>4, TreeOfTip DEF Filtered
<1> HIDE DEF new
<1>6. Timed' /\ branch' \in Histories /\ dhist' \in Histories
  BY <1>1, <1>5 DEF Sound, TypeOK, Timed, InOrder
<1>7. pc' \in [Slots -> Labels]
  <2>1. pc \in [Slots -> Labels]
    BY TypeParts DEF Sound
  <2>2. Go(s, "done") \/ Go(s, "unref")
    BY DEF FilterBranch
  <2> QED BY <2>1, <2>2, GoTyped DEF Labels
<1>8. index' \in Tree /\ work' \in Tree
  <2>1. index \in Tree /\ work \in Tree
    BY DEF Sound, TypeOK
  <2>2. ASSUME index' = TreeOf(new),
               work' = [p \in Paths |-> IF index[p] = Absent THEN work[p] ELSE index'[p]]
        PROVE  work' \in Tree
    BY <1>5, <2>1, <2>2 DEF Tree
  <2> QED BY <1>1, <1>5, <2>1, <2>2
<1>9. TypeOK'
  BY <1>1, <1>2, <1>6, <1>7, <1>8 DEF TypeOK, Labels, Sound
<1> QED BY <1>6, <1>9 DEF Sound

\* An empty lake has its types and no commit out of order.
LEMMA InitSound == Init => Sound
<1> SUFFICES ASSUME Init PROVE Sound
  OBVIOUS
<1>1. Empty \in Tree
  BY DEF Empty, Tree
<1>2. TypeOK
  <2>1. job \in [Slots -> Jobs \cup {NoJob}]
    BY DEF Init
  <2>2. /\ pc \in [Slots -> Labels] /\ "idle" \in Labels
        /\ listing \in [Slots -> SUBSET (Paths \X Tools)]
    BY DEF Init, Labels
  <2>3. RepoTyped
    <3>1. <<>> \in Histories
      BY OrderOf
    <3>2. 0 \in 0..MaxTime
      BY LakeAssumption
    <3> HIDE DEF Histories
    <3> QED BY <1>1, <3>1, <3>2 DEF Init, RepoTyped
  <2> QED BY <2>1, <2>2, <2>3, TypeParts DEF ToolsTyped
<1>3. Timed
  BY OrderOf DEF Init, Timed, InOrder
<1> QED BY <1>2, <1>3 DEF Sound

\* Every step of a tool, and of the clock, keeps types and order.
LEMMA NextSound == Sound /\ [Next]_vars => Sound'
<1> SUFFICES ASSUME Sound, [Next]_vars PROVE Sound'
  OBVIOUS
<1>1. ASSUME NEW s \in Slots, Step(s) PROVE Sound'
  BY <1>1, ToolSound, CommandSound, CommitSound, FilterSound DEF Step
<1>2. CASE Tick \/ UNCHANGED vars
  <2>1. /\ UNCHANGED <<lake, repo, job, pc, listing>>
        /\ clock' = clock \/ (clock < MaxTime /\ clock' = clock + 1)
    <3>1. CASE Tick
      BY <3>1 DEF Tick
    <3>2. CASE UNCHANGED vars
      BY <3>2 DEF vars
    <3> QED BY <1>2, <3>1, <3>2
  <2>2. clock' \in 0..MaxTime /\ clock <= clock'
    BY <2>1, LakeAssumption DEF Sound, TypeOK
  <2>3. Timed'
    BY <2>1, <2>2, TimedKept DEF repo
  <2>4. TypeOK'
    BY <2>1, <2>2 DEF TypeOK, Sound, repo
  <2> QED BY <2>3, <2>4 DEF Sound
<1> QED BY <1>1, <1>2 DEF Next

\* The type invariant, for any number of tools that run together.
THEOREM TypeCorrect == Spec => []TypeOK
<1>1. Sound => TypeOK
  BY DEF Sound
<1> QED BY <1>1, InitSound, NextSound, PTL DEF Spec

-------------------------------------------------------------------------------
(* What is committed stays.                                                *)

\* A lake that is not there has no history.
NoLake == lake = "missing" => branch = <<>>

\* A history goes on from itself, and from itself without its last commit.
LEMMA GoesOn ==
  ASSUME NEW h \in Histories
  PROVE  /\ IsPrefix(h, h)
         /\ \A c \in Commits : IsPrefix(h, Append(h, c))
<1>1. h \in Seq(Commits) /\ Len(h) \in Nat
  BY HistoryOf
<1> HIDE DEF Commits
<1>2. IsPrefix(h, h)
  BY <1>1 DEF IsPrefix
<1>3. ASSUME NEW c \in Commits PROVE IsPrefix(h, Append(h, c))
  <2> DEFINE g == Append(h, c)
  <2>1. /\ g \in Seq(Commits) /\ Len(g) = Len(h) + 1
        /\ \A i \in 1..Len(h) : g[i] = h[i]
    BY <1>1
  <2> HIDE DEF g
  <2>2. Len(h) <= Len(g)
    BY <1>1, <2>1
  <2>3. SubSeq(h, 1, Len(h)) = SubSeq(g, 1, Len(h))
    BY <1>1, <2>1, <2>2
  <2> QED BY <2>2, <2>3 DEF IsPrefix, g
<1> QED BY <1>2, <1>3

\* The history after a step that removes no lake: it goes on from the one
\* before, or a permanent removal took what it names out of every time.
Keeps ==
  \/ lake' # lake
  \/ IsPrefix(branch, branch')
  \/ \E s \in Slots :
       /\ At(s, "purge", "start")
       /\ \A t \in 0..MaxTime : AsOf(t)' = Without(AsOf(t), job[s].paths)

\* A commit adds itself to the end of the branch, or is not on it.
LEMMA CommitKeeps ==
  ASSUME Sound, NoLake, NEW s \in Slots, GitCommit(s)
  PROVE  Keeps /\ NoLake'
<1> DEFINE c == [time |-> clock, tree |-> index, note |-> Note(job[s])]
<1>1. branch' = branch \/ (lake = "repo" /\ branch' = Append(branch, c))
  BY DEF GitCommit, Commit, repo
<1>2. lake' = lake
  BY DEF GitCommit
<1>3. c \in Commits /\ branch \in Histories
  BY CommitOf DEF Sound, TypeOK
<1> HIDE DEF c
<1>4. IsPrefix(branch, branch')
  BY <1>1, <1>3, GoesOn
<1> QED BY <1>1, <1>2, <1>4 DEF Keeps, NoLake

\* A permanent removal takes what it names out of every time.
LEMMA FilterKeeps ==
  ASSUME Sound, NoLake, NEW s \in Slots, FilterBranch(s)
  PROVE  Keeps /\ NoLake'
<1>1. branch \in Histories /\ Ordered(branch)
  BY DEF Sound, TypeOK, Timed, InOrder
<1>2. IsPrefix(branch, branch)
  BY <1>1, GoesOn
<1>3. CASE branch' = branch
  <2>1. lake' = lake \/ lake' = "dir"
    BY DEF FilterBranch
  <2> QED BY <1>2, <1>3, <2>1 DEF Keeps, NoLake
<1>4. CASE branch' # branch
  <2>1. /\ At(s, "purge", "start") /\ ~detached /\ lake = "repo" /\ lake' = lake
        /\ branch' = Filter(HeadHist, job[s].paths)
    BY <1>4 DEF FilterBranch, repo
  <2>2. HeadHist = branch
    BY <2>1 DEF HeadHist
  <2>3. Filtered(branch', branch, job[s].paths)
    BY <1>1, <2>1, <2>2, FilterRemoves
  <2>4. ASSUME NEW t \in 0..MaxTime
        PROVE  AsOf(t)' = Without(AsOf(t), job[s].paths)
    <3>1. t \in Nat
      BY LakeAssumption
    <3>2. AsOfIn(branch', t) = Without(AsOfIn(branch, t), job[s].paths)
      BY <2>3, <3>1 DEF Filtered
    <3>3. AsOf(t)' = AsOfIn(branch', t)
      BY DEF AsOf, AsOfIn
    <3> QED BY <3>2, <3>3 DEF AsOf
  <2> QED BY <2>1, <2>4 DEF Keeps, NoLake
<1> QED BY <1>3, <1>4

\* Every other step leaves the branch alone, or removes the lake.
LEMMA StepKeeps ==
  ASSUME Sound, NoLake, NEW s \in Slots, Step(s)
  PROVE  Keeps /\ NoLake'
<1>1. branch \in Histories
  BY DEF Sound, TypeOK
<1>2. IsPrefix(branch, branch)
  BY <1>1, GoesOn
<1>3. CASE GitCommit(s) \/ FilterBranch(s)
  BY <1>3, CommitKeeps, FilterKeeps
<1>4. CASE RemoveLake(s)
  <2>1. lake' = "missing" /\ branch' = <<>>
    BY <1>4 DEF RemoveLake
  <2> QED BY <1>2, <2>1 DEF Keeps, NoLake
<1>5. CASE CreateLake(s) \/ GitInit(s)
  <2>1. branch' = branch /\ lake' # "missing"
    BY <1>5 DEF CreateLake, GitInit, repo
  <2> QED BY <1>2, <2>1 DEF Keeps, NoLake
<1>6. CASE AlignRepo(s) \/ Restore(s)
  <2>1. lake' = lake
    BY <1>6 DEF AlignRepo, Restore
  <2>2. UNCHANGED repo \/ \E h, d : Checkout(h, d)
    BY <1>6 DEF AlignRepo, Restore
  <2>3. branch' = branch
    BY <2>2, CheckoutHistories DEF repo
  <2> QED BY <1>2, <2>1, <2>3 DEF Keeps, NoLake
<1>7. CASE \/ Start(s) \/ Finish(s) \/ UserDeclines(s) \/ Copy(s) \/ CopyFails(s)
           \/ GitAdd(s) \/ GitRm(s) \/ DeleteBackup(s) \/ Gc(s) \/ ShowCurrent(s)
           \/ Walk(s) \/ ReadLog(s) \/ LockHeld(s) \/ Crash(s)
  <2>1. lake' = lake /\ branch' = branch
    BY <1>7 DEF Start, Finish, UserDeclines, Copy, CopyFails, GitAdd, GitRm,
       DeleteBackup, Gc, ShowCurrent, Walk, ReadLog, LockHeld, Crash, repo
  <2> QED BY <1>2, <2>1 DEF Keeps, NoLake
<1> QED BY <1>3, <1>4, <1>5, <1>6, <1>7 DEF Step

\* What was committed stays committed, whatever tools run together and
\* whenever they are killed or find a lock: until nmdl-initialize removes the
\* lake the branch only grows, except that a permanent removal takes what it
\* names, and nothing else, out of every time.
THEOREM CommittedStays == Spec => CommittedIsKept
<1>1. Init => Sound /\ NoLake
  BY InitSound DEF Init, NoLake
<1>2. Sound /\ NoLake /\ [Next]_vars => NoLake' /\ [Keeps]_vars
  <2> SUFFICES ASSUME Sound, NoLake, [Next]_vars PROVE NoLake' /\ [Keeps]_vars
    OBVIOUS
  <2>1. CASE Tick
    <3>1. lake' = lake /\ branch' = branch /\ branch \in Histories
      BY <2>1 DEF Tick, repo, Sound, TypeOK
    <3> QED BY <3>1, GoesOn DEF NoLake, Keeps
  <2>2. CASE \E s \in Slots : Step(s)
    BY <2>2, StepKeeps
  <2>3. CASE UNCHANGED vars
    BY <2>3 DEF vars, repo, NoLake
  <2> QED BY <2>1, <2>2, <2>3 DEF Next
<1>3. [Keeps]_vars =>
        [\/ lake' # lake
         \/ IsPrefix(branch, branch')
         \/ \E s \in Slots :
              /\ At(s, "purge", "start")
              /\ \A t \in 0..MaxTime :
                   AsOf(t)' = Without(AsOf(t), job[s].paths)]_vars
  BY DEF Keeps
<1> QED BY <1>1, <1>2, <1>3, NextSound, PTL DEF Spec, CommittedIsKept

-------------------------------------------------------------------------------
(* One tool at a time.                                                     *)

OneTool == \A r, s \in Slots : r = s

\* What a listing of time t is to be.
Listed(t) ==
  {<<p, LastTool(t, p)>> : p \in {q \in Paths : AsOf(t)[q] # Absent}}

\* HEAD is the branch and nothing is there that is not committed, unless a
\* permanent removal took everything that was.
Rest ==
  /\ ~detached /\ dhist = <<>> /\ index = work
  /\ branch # <<>> => index = TreeOf(branch)

\* HEAD, the index and the files are those of the time asked for.
Aligned(s) ==
  LET n == RevList(branch, ReadByGit(job[s]))
  IN  /\ n # 0 /\ HeadHist = SubSeq(branch, 1, n)
      /\ index = work /\ index = HeadTree

Listing == {"align", "walk", "log", "restore", "listed"}
Moved   == {"walk", "log", "restore"}

AloneAt(s) ==
  /\ lake = "dir" => pc[s] = "init"
  /\ pc[s] = "create" => lake = "missing"
  /\ pc[s] \in {"add", "commit", "align"} \cup Moved => lake = "repo"
  /\ pc[s] \in Listing => job[s].op = "list"
  /\ pc[s] \notin {"add", "commit"} \cup Moved => Rest
  /\ pc[s] = "add" =>
       /\ ~detached /\ dhist = <<>>
       /\ branch # <<>> => index = TreeOf(branch)
       /\ job[s].op = "insert"
       /\ work = [index EXCEPT ![job[s].path] = job[s].content]
  /\ pc[s] = "commit" =>
       /\ ~detached /\ dhist = <<>> /\ index = work
       /\ job[s].op \in {"insert", "remove"}
  /\ pc[s] \in Moved => Aligned(s)
  /\ pc[s] = "log" =>
       listing[s] = {<<p, NoTool>> : p \in {q \in Paths : work[q] # Absent}}
  /\ pc[s] \in {"restore", "listed"} => listing[s] = Listed(ReadByGit(job[s]))

Alone == \A s \in Slots : AloneAt(s)

\* What the history up to the newest commit of a time says is what the whole
\* history says of that time.
LEMMA ListedUpTo ==
  ASSUME Sound, NEW t \in Int, RevList(branch, t) # 0
  PROVE  LET g == SubSeq(branch, 1, RevList(branch, t))
         IN  /\ g \in Histories /\ AsOf(t) = TreeOf(g)
             /\ \A p : LastTool(t, p) = ToolIn(g, p)
<1> DEFINE n == RevList(branch, t)
           g == SubSeq(branch, 1, n)
<1>1. branch \in Histories /\ Ordered(branch)
  BY DEF Sound, TypeOK, Timed, InOrder
<1>2. /\ n \in 0..Len(branch)
      /\ \A i \in 1..Len(branch) : branch[i].time <= t <=> i <= n
  BY <1>1, AlignsInRange
<1>3. Len(branch) \in Nat /\ DOMAIN branch = 1..Len(branch)
  BY <1>1, HistoryOf
<1>4. g \in Histories /\ Len(g) = n /\ \A i \in 1..n : g[i] = branch[i]
  BY <1>1, <1>2, HistoryBegins
<1>5. DOMAIN g = 1..n
  BY <1>4, HistoryOf
<1>6. n # 0
  OBVIOUS
<1> HIDE DEF n, g
<1>7. n \in 1..n /\ n \in 1..Len(branch)
  BY <1>2, <1>3, <1>6
<1>8. \A i : i \in 1..n <=> i \in DOMAIN branch /\ branch[i].time <= t
  BY <1>2, <1>3
<1>9. AsOf(t) = TreeOf(g)
  <2> DEFINE is == {i \in DOMAIN branch : branch[i].time <= t}
  <2>1. is = 1..n
    BY <1>8
  <2>2. AsOf(t) = Newest(branch, is)
    BY DEF AsOf, AsOfIn
  <2> HIDE DEF is
  <2>3. 1..n \in SUBSET (0..n) /\ 1..n # {} /\ n \in Nat
    <3>1. n \in Nat
      BY <1>2, <1>3
    <3>2. n \in 1..n
      BY <1>7
    <3>3. 1..n \in SUBSET (0..n)
      BY <3>1
    <3> QED BY <3>1, <3>2, <3>3
  <2>4. Max(1..n) \in 1..n /\ \A x \in 1..n : x <= Max(1..n)
    BY <2>3, MaxOf
  <2>5. PICK m : m = Max(1..n)
    OBVIOUS
  <2>6. m = n
    BY <1>7, <2>3, <2>4, <2>5
  <2>7. AsOf(t) = branch[n].tree
    BY <1>7, <2>1, <2>2, <2>5, <2>6 DEF Newest
  <2>8. g # <<>>
    BY <1>4, <1>6
  <2>9. TreeOf(g) = g[n].tree
    BY <1>4, <2>8, TreeOfTip
  <2> QED BY <1>4, <1>7, <2>7, <2>9
<1>10. ASSUME NEW p PROVE LastTool(t, p) = ToolIn(g, p)
  <2> DEFINE ins == {i \in DOMAIN branch : /\ branch[i].time <= t
                                           /\ branch[i].note # NoNote
                                           /\ branch[i].note[1] = p}
             found == {i \in DOMAIN g : g[i].note # NoNote /\ g[i].note[1] = p}
  <2>1. LastTool(t, p) = IF ins = {} THEN NoTool ELSE branch[Max(ins)].note[2]
    BY DEF LastTool
  <2>2. ToolIn(g, p) = IF found = {} THEN NoTool ELSE g[Max(found)].note[2]
    BY DEF ToolIn
  <2>3. ins = found
    <3>1. \A i : i \in ins <=> i \in 1..n /\ branch[i].note # NoNote /\ branch[i].note[1] = p
      BY <1>8
    <3>2. \A i : i \in found <=> i \in 1..n /\ branch[i].note # NoNote /\ branch[i].note[1] = p
      BY <1>4, <1>5
    <3> HIDE DEF ins, found
    <3> QED BY <3>1, <3>2
  <2>4. found \subseteq 1..n
    BY <1>5
  <2> HIDE DEF ins, found
  <2>5. CASE found = {}
    BY <2>1, <2>2, <2>3, <2>5
  <2>6. CASE found # {}
    <3>1. found \in SUBSET (0..n) /\ n \in Nat
      BY <1>2, <1>3, <2>4
    <3>2. Max(found) \in found
      BY <2>6, <3>1, MaxOf
    <3>3. g[Max(found)] = branch[Max(found)]
      BY <1>4, <2>4, <3>2
    <3> QED BY <2>1, <2>2, <2>3, <2>6, <3>3
  <2> QED BY <2>5, <2>6
<1> QED BY <1>4, <1>9, <1>10 DEF g, n

\* A checkout from a clean tree moves HEAD, the index and the files.
LEMMA CheckoutMoves ==
  ASSUME Sound, index = work, index = HeadTree,
         NEW h \in Histories, NEW d \in BOOLEAN, Checkout(h, d)
  PROVE  /\ branch' = branch /\ backup' = backup /\ detached' = d
         /\ undo' = undo \cup (TreesOf(dhist) \ TreesOf(branch))
         /\ d => dhist' = h
         /\ ~d => dhist' = <<>>
         /\ index' = TreeOf(h) /\ work' = TreeOf(h)
<1> DEFINE to == TreeOf(h)
           Same(p) == HeadTree[p] = to[p]
           i2 == [p \in Paths |-> IF Same(p) THEN index[p] ELSE to[p]]
           w2 == [p \in Paths |-> IF Same(p) \/ index[p] = to[p] THEN work[p] ELSE to[p]]
<1>1. \A p \in Paths :
        \/ Same(p) \/ index[p] = to[p]
        \/ index[p] = HeadTree[p] /\ work[p] \in {index[p], Absent}
  OBVIOUS
<1>2. /\ index' = i2 /\ work' = w2
      /\ detached' = d /\ dhist' = IF d THEN h ELSE <<>>
      /\ undo' = undo \cup (TreesOf(dhist) \ TreesOf(branch))
      /\ UNCHANGED <<branch, backup>>
  BY <1>1 DEF Checkout
<1>3. to \in Tree
  BY TreeOfTip
<1>4. i2 = to /\ w2 = to
  <2>1. to = [p \in Paths |-> to[p]]
    BY <1>3 DEF Tree
  <2>2. \A p \in Paths : i2[p] = to[p] /\ w2[p] = to[p]
    OBVIOUS
  <2> HIDE DEF to, Same
  <2> QED BY <2>1, <2>2
<1> QED BY <1>2, <1>4

\* Where a tool is after it has gone to a label.
LEMMA GoneTo ==
  ASSUME Sound, NEW s \in Slots, NEW l, Go(s, l)
  PROVE  pc'[s] = l
BY DEF Sound, TypeOK, Go

\* The steps that change neither repository nor listing.
LEMMA AloneQuiet ==
  ASSUME OneTool, ~MayCrash, Sound, Alone, NEW s \in Slots,
         \/ Start(s) \/ Finish(s) \/ UserDeclines(s) \/ CopyFails(s)
         \/ ShowCurrent(s) \/ LockHeld(s) \/ Crash(s)
  PROVE  AloneAt(s)'
<1> USE DEF repo
<1>1. UNCHANGED <<lake, repo, clock>> /\ AloneAt(s)
  BY DEF Alone, Start, Finish, UserDeclines, CopyFails, ShowCurrent, LockHeld, Crash
<1>2. Rest' <=> Rest
  BY <1>1, Zenon DEF Rest, TreeOf
<1>3. CASE Start(s) \/ Finish(s) \/ UserDeclines(s) \/ CopyFails(s)
  <2>1. pc'[s] \in {"start", "done", "idle"}
    <3>1. \E l \in {"start", "done", "idle"} : Go(s, l)
      BY <1>3 DEF Start, Finish, UserDeclines, CopyFails
    <3> QED BY <3>1, GoneTo
  <2>2. /\ pc[s] \in {"idle", "done", "inserted", "purged", "listed", "start"}
    BY <1>3 DEF Start, Finish, UserDeclines, CopyFails, At
  <2>3. Rest'
    BY <1>1, <1>2, <2>2 DEF AloneAt, Moved
  <2>4. lake' # "dir"
    BY <1>1, <2>2 DEF AloneAt
  <2> QED BY <2>1, <2>3, <2>4 DEF AloneAt, Moved, Listing
<1>4. CASE ShowCurrent(s)
  <2>1. pc[s] = "start" /\ job[s].op = "list" /\ job' = job
    BY <1>4 DEF ShowCurrent, At
  <2>2. pc'[s] = IF lake = "repo" /\ ~detached THEN "align" ELSE "done"
    BY <1>4, GoneTo DEF ShowCurrent
  <2>3. Rest' /\ lake' = lake /\ lake # "dir"
    BY <1>1, <1>2, <2>1 DEF AloneAt, Moved
  <2> QED BY <2>1, <2>2, <2>3 DEF AloneAt, Moved, Listing
<1>5. CASE LockHeld(s)
  <2>1. Active = {s}
    <3>1. pc[s] # "idle"
      BY <1>5 DEF LockHeld
    <3>2. \A r \in Slots : r = s
      BY DEF OneTool
    <3> QED BY <3>1, <3>2 DEF Active
  <2> QED BY <1>5, <2>1 DEF LockHeld
<1>6. CASE Crash(s)
  BY <1>6 DEF Crash
<1> QED BY <1>3, <1>4, <1>5, <1>6

\* nmdl-initialize.
LEMMA AloneInitialize ==
  ASSUME Sound, Alone, NEW s \in Slots, RemoveLake(s) \/ CreateLake(s) \/ GitInit(s)
  PROVE  AloneAt(s)'
<1>1. AloneAt(s)
  BY DEF Alone
<1>2. CASE RemoveLake(s)
  <2>1. pc'[s] = "create"
    BY <1>2, GoneTo DEF RemoveLake
  <2>2. Rest' /\ lake' = "missing"
    BY <1>2, Zenon DEF RemoveLake, Rest
  <2> QED BY <2>1, <2>2 DEF AloneAt, Moved, Listing
<1>3. CASE CreateLake(s) \/ GitInit(s)
  <2>1. UNCHANGED repo
    BY <1>3 DEF CreateLake, GitInit
  <2>2. Rest
    BY <1>1, <1>3 DEF AloneAt, CreateLake, GitInit, At, Moved
  <2>3. Rest'
    BY <2>1, <2>2, Zenon DEF repo, Rest, TreeOf
  <2>4. \/ pc'[s] = "init" /\ lake' = "dir"
        \/ pc'[s] = "done" /\ lake' = "repo"
    BY <1>3, GoneTo DEF CreateLake, GitInit
  <2> QED BY <2>3, <2>4 DEF AloneAt, Moved, Listing
<1> QED BY <1>2, <1>3

\* nmdl-insert up to its commit.
LEMMA AloneInsert ==
  ASSUME Sound, Alone, NEW s \in Slots, Copy(s) \/ GitAdd(s)
  PROVE  AloneAt(s)'
<1>1. AloneAt(s)
  BY DEF Alone
<1>2. CASE Copy(s)
  <2>1. pc[s] = "start" /\ job[s].op = "insert" /\ Rest /\ lake # "dir"
    BY <1>1, <1>2 DEF Copy, At, AloneAt, Moved
  <2>2. UNCHANGED <<lake, branch, detached, dhist, index, job>>
    BY <1>2 DEF Copy
  <2>3. CASE lake = "missing"
    <3>1. pc'[s] = "done" /\ work' = work
      BY <1>2, <2>3, GoneTo DEF Copy
    <3>2. Rest'
      BY <2>1, <2>2, <3>1, Zenon DEF Rest, TreeOf
    <3> QED BY <2>2, <2>3, <3>1, <3>2 DEF AloneAt, Moved, Listing
  <2>4. CASE lake # "missing"
    <3>1. pc'[s] = "add" /\ work' = [work EXCEPT ![job[s].path] = job[s].content]
      BY <1>2, <2>4, GoneTo DEF Copy
    <3>2. lake' = "repo"
      BY <2>1, <2>2, <2>4 DEF Sound, TypeOK
    <3>3. /\ ~detached' /\ dhist' = <<>>
          /\ branch' # <<>> => index' = TreeOf(branch')
          /\ work' = [index' EXCEPT ![job'[s].path] = job'[s].content]
      BY <2>1, <2>2, <3>1 DEF Rest
    <3>4. TreeOf(branch)' = TreeOf(branch')
      BY DEF TreeOf
    <3> QED BY <2>1, <2>2, <3>1, <3>2, <3>3, <3>4 DEF AloneAt, Moved, Listing
  <2> QED BY <2>3, <2>4
<1>3. CASE GitAdd(s)
  <2>1. /\ pc[s] = "add" /\ lake = "repo" /\ ~detached /\ dhist = <<>>
        /\ job[s].op = "insert"
    BY <1>1, <1>3 DEF GitAdd, At, AloneAt
  <2>2. /\ index' = work /\ work' = work /\ lake' = lake /\ job' = job
        /\ detached' = detached /\ dhist' = dhist /\ pc'[s] = "commit"
    BY <1>3, <2>1, GoneTo DEF GitAdd
  <2> QED BY <2>1, <2>2 DEF AloneAt, Moved, Listing
<1> QED BY <1>2, <1>3

\* nmdl-remove up to its commit.
LEMMA AloneRemove ==
  ASSUME Sound, Alone, NEW s \in Slots, GitRm(s)
  PROVE  AloneAt(s)'
<1>1. pc[s] = "start" /\ job[s].op = "remove" /\ Rest /\ lake # "dir"
  BY DEF Alone, GitRm, At, AloneAt, Moved
<1> DEFINE found == {p \in job[s].paths : index[p] # Absent}
<1>2. \/ /\ lake = "repo" /\ index' = Without(index, found)
         /\ work' = Without(work, found) /\ Go(s, "commit")
      \/ Go(s, "done") /\ index' = index /\ work' = work
  BY DEF GitRm
<1>3. UNCHANGED <<lake, branch, detached, dhist, job>>
  BY DEF GitRm
<1> HIDE DEF found
<1>4. CASE Go(s, "done") /\ index' = index /\ work' = work
  <2>1. Rest'
    BY <1>1, <1>3, <1>4, Zenon DEF Rest, TreeOf
  <2>2. pc'[s] = "done"
    BY <1>4, GoneTo
  <2> QED BY <1>1, <1>3, <2>1, <2>2 DEF AloneAt, Moved, Listing
<1>5. CASE /\ lake = "repo" /\ index' = Without(index, found)
           /\ work' = Without(work, found) /\ Go(s, "commit")
  <2>1. pc'[s] = "commit"
    BY <1>5, GoneTo
  <2>2. index' = work' /\ ~detached' /\ dhist' = <<>> /\ lake' = "repo"
    BY <1>1, <1>3, <1>5 DEF Rest
  <2> QED BY <1>1, <1>3, <2>1, <2>2 DEF AloneAt, Moved, Listing
<1> QED BY <1>2, <1>4, <1>5

\* The commit.
LEMMA AloneCommit ==
  ASSUME Sound, Alone, NEW s \in Slots, GitCommit(s)
  PROVE  /\ AloneAt(s)'
         /\ \/ index = TreeOf(branch) /\ branch' = branch
            \/ branch' = Append(branch, [time |-> clock, tree |-> index,
                                         note |-> Note(job[s])])
<1> DEFINE c == [time |-> clock, tree |-> index, note |-> Note(job[s])]
<1>1. /\ pc[s] = "commit" /\ ~detached /\ dhist = <<>>
      /\ index = work /\ lake = "repo"
  BY DEF Alone, AloneAt, GitCommit
<1>2. HeadTree = TreeOf(branch)
  BY <1>1 DEF HeadTree, HeadHist
<1>3. lake' = lake
  BY DEF GitCommit
<1>4. pc'[s] \in {"done", "inserted"}
  <2>1. Go(s, "done") \/ Go(s, "inserted")
    BY DEF GitCommit
  <2> QED BY <2>1, GoneTo
<1>5. CASE index = HeadTree
  <2>1. UNCHANGED repo
    BY <1>5 DEF GitCommit
  <2>2. Rest'
    BY <1>1, <1>2, <1>5, <2>1, Zenon DEF Rest, TreeOf, repo
  <2>3. AloneAt(s)'
    BY <1>1, <1>3, <1>4, <2>2 DEF AloneAt, Moved, Listing
  <2> QED BY <1>2, <1>5, <2>1, <2>3 DEF repo
<1>6. CASE index # HeadTree
  <2>1. Commit(Note(job[s]))
    BY <1>1, <1>6 DEF GitCommit
  <2>2. /\ branch' = Append(branch, c) /\ UNCHANGED <<dhist, detached, index, work>>
    BY <1>1, <2>1 DEF Commit
  <2>3. TreeOf(branch') = index
    <3>1. c \in Commits /\ c.tree = index /\ branch \in Histories
      BY CommitOf DEF Sound, TypeOK
    <3> HIDE DEF c
    <3> QED BY <2>2, <3>1, CommitMade
  <2>4. Rest'
    <3>1. TreeOf(branch)' = TreeOf(branch')
      BY DEF TreeOf
    <3> QED BY <1>1, <2>2, <2>3, <3>1 DEF Rest
  <2>5. AloneAt(s)'
    BY <1>1, <1>3, <1>4, <2>4 DEF AloneAt, Moved, Listing
  <2> QED BY <2>2, <2>5
<1> QED BY <1>5, <1>6

\* nmdl-remove --permanent: what filter-branch does on its own.
LEMMA FilterAlone ==
  ASSUME Sound, Alone, NEW s \in Slots, FilterBranch(s)
  PROVE  /\ AloneAt(s)' /\ lake' = lake /\ detached' = detached /\ dhist' = dhist
         /\ LET new == Filter(branch, job[s].paths)
            IN  \/ UNCHANGED repo /\ pc'[s] = "done"
                   /\ (lake # "repo" \/ branch = <<>> \/ backup \/ ~Clean \/ new = branch)
                \/ /\ lake = "repo" /\ branch' = new /\ new = <<>> /\ pc'[s] = "done"
                   /\ branch # <<>>
                   /\ UNCHANGED <<index, work>>
                \/ /\ lake = "repo" /\ branch' = new /\ new # <<>> /\ pc'[s] = "unref"
                   /\ branch # <<>>
                   /\ index' = TreeOf(new) /\ work' = TreeOf(new)
<1> DEFINE S == job[s].paths
           new == Filter(branch, S)
<1>1. /\ pc[s] = "start" /\ Rest /\ lake # "dir" /\ ~detached /\ dhist = <<>> /\ index = work
  BY DEF Alone, FilterBranch, At, AloneAt, Moved, Rest
<1>2. HeadHist = branch
  BY <1>1 DEF HeadHist
<1>3. CASE lake # "repo" \/ branch = <<>> \/ backup \/ ~Clean \/ new = branch
  <2>1. Go(s, "done") /\ UNCHANGED <<lake, repo>>
    BY <1>2, <1>3 DEF FilterBranch
  <2>2. pc'[s] = "done"
    BY <2>1, GoneTo
  <2>3. Rest'
    BY <1>1, <2>1, Zenon DEF Rest, TreeOf, repo
  <2>4. AloneAt(s)'
    BY <1>1, <2>1, <2>2, <2>3 DEF AloneAt, Moved, Listing
  <2> QED BY <1>3, <2>1, <2>2, <2>4 DEF repo
<1>4. CASE ~(lake # "repo" \/ branch = <<>> \/ backup \/ ~Clean \/ new = branch)
  <2>1. /\ branch' = new /\ UNCHANGED <<dhist, detached, lake>>
        /\ \/ new = <<>> /\ UNCHANGED <<index, work>> /\ Go(s, "done")
           \/ /\ new # <<>> /\ index' = TreeOf(new) /\ Go(s, "unref")
              /\ work' = [p \in Paths |-> IF index[p] = Absent THEN work[p] ELSE index'[p]]
    BY <1>1, <1>2, <1>4 DEF FilterBranch
  <2>2. Filtered(new, branch, S)
    BY FilterRemoves DEF Sound, TypeOK, Timed, InOrder
  <2> HIDE DEF new
  <2>3. CASE new = <<>> /\ UNCHANGED <<index, work>> /\ Go(s, "done")
    <3>1. pc'[s] = "done"
      BY <2>3, GoneTo
    <3>2. Rest'
      BY <1>1, <2>1, <2>3, Zenon DEF Rest
    <3>3. AloneAt(s)'
      BY <1>1, <2>1, <3>1, <3>2 DEF AloneAt, Moved, Listing
    <3> QED BY <1>4, <2>1, <2>3, <3>1, <3>3 DEF new
  <2>4. CASE /\ new # <<>> /\ index' = TreeOf(new) /\ Go(s, "unref")
             /\ work' = [p \in Paths |-> IF index[p] = Absent THEN work[p] ELSE index'[p]]
    <3>1. pc'[s] = "unref"
      BY <2>4, GoneTo
    <3>2. index = TreeOf(branch) /\ index \in Tree
      BY <1>1, <1>4 DEF Rest, Sound, TypeOK
    <3>3. TreeOf(new) = Without(index, S)
      BY <2>2, <3>2 DEF Filtered
    <3>4. work' = TreeOf(new)
      <4>1. \A p \in Paths : index[p] = Absent => TreeOf(new)[p] = Absent
        BY <3>3 DEF Without
      <4>2. TreeOf(new) = [p \in Paths |-> TreeOf(new)[p]]
        BY <3>3 DEF Without
      <4>3. work' = [p \in Paths |-> TreeOf(new)[p]]
        BY <1>1, <2>4, <4>1
      <4> QED BY <4>2, <4>3
    <3>5. Rest'
      <4>1. TreeOf(branch)' = TreeOf(branch')
        BY DEF TreeOf
      <4> QED BY <1>1, <2>1, <2>4, <3>4, <4>1 DEF Rest
    <3>6. AloneAt(s)'
      BY <1>1, <2>1, <3>1, <3>5 DEF AloneAt, Moved, Listing
    <3> QED BY <1>4, <2>1, <2>4, <3>1, <3>4, <3>6 DEF new
  <2> QED BY <2>1, <2>3, <2>4
<1> QED BY <1>3, <1>4

\* The commands that follow it.
LEMMA AlonePurge ==
  ASSUME Sound, Alone, NEW s \in Slots, DeleteBackup(s) \/ Gc(s)
  PROVE  AloneAt(s)'
<1>1. Rest /\ lake # "dir"
  BY DEF Alone, DeleteBackup, Gc, At, AloneAt, Moved
<1>2. UNCHANGED <<lake, branch, detached, dhist, index, work>>
  BY DEF DeleteBackup, Gc
<1>3. pc'[s] \in {"gc", "purged"}
  <2>1. Go(s, "gc") \/ Go(s, "purged")
    BY DEF DeleteBackup, Gc
  <2> QED BY <2>1, GoneTo
<1>4. Rest'
  BY <1>1, <1>2, Zenon DEF Rest, TreeOf
<1> QED BY <1>1, <1>2, <1>3, <1>4 DEF AloneAt, Moved, Listing

\* nmdl-list moves the files to the time asked for.
LEMMA AloneAlign ==
  ASSUME Sound, Alone, NEW s \in Slots, AlignRepo(s)
  PROVE  /\ AloneAt(s)' /\ branch' = branch /\ backup' = backup
         /\ undo' \subseteq undo \cup (TreesOf(dhist) \ TreesOf(branch))
<1> DEFINE t == ReadByGit(job[s])
           n == RevList(branch, t)
           g == SubSeq(branch, 1, n)
<1>1. /\ pc[s] = "align" /\ job[s].op = "list" /\ Rest /\ lake = "repo"
      /\ lake' = lake /\ job' = job
  BY DEF Alone, AlignRepo, At, AloneAt, Moved
<1>2. t \in Int
  BY <1>1, JobOf DEF Sound
<1>3. branch \in Histories /\ Ordered(branch) /\ Until(branch, clock) /\ clock \in 0..MaxTime
  BY DEF Sound, TypeOK, Timed, InOrder
<1>4. /\ n \in 0..Len(branch)
      /\ \A i \in 1..Len(branch) : branch[i].time <= t <=> i <= n
  BY <1>2, <1>3, AlignsInRange
<1>5. g \in Histories /\ Len(branch) \in Nat /\ <<>> \in Histories
  BY <1>3, <1>4, HistoryBegins, HistoryOf, OrderOf
<1>6. CASE n = 0
  <2>1. Go(s, "done") /\ UNCHANGED repo
    BY <1>6 DEF AlignRepo
  <2>2. pc'[s] = "done"
    BY <2>1, GoneTo
  <2>3. Rest'
    BY <1>1, <2>1, Zenon DEF Rest, TreeOf, repo
  <2>4. AloneAt(s)'
    BY <1>1, <2>2, <2>3 DEF AloneAt, Moved, Listing
  <2> QED BY <2>1, <2>4 DEF repo
<1>7. CASE n # 0
  <2>1. branch # <<>>
    BY <1>4, <1>7
  <2>2. index = work /\ index = HeadTree
    BY <1>1, <2>1 DEF Rest, HeadTree, HeadHist
  <2>3. /\ Go(s, "walk")
        /\ \/ t = Infinity /\ Checkout(branch, FALSE)
           \/ Checkout(g, TRUE)
    BY <1>1, <1>7 DEF AlignRepo
  <2>4. pc'[s] = "walk"
    BY <2>3, GoneTo
  <2>5. ASSUME t = Infinity PROVE g = branch
    <3>1. \A i \in 1..Len(branch) : branch[i].time <= t
      <4> SUFFICES ASSUME NEW i \in 1..Len(branch) PROVE branch[i].time <= t
        OBVIOUS
      <4>1. branch[i].time \in 0..MaxTime
        BY <1>3, HistoryOf
      <4> QED BY <2>5, <4>1, LakeAssumption DEF Infinity
    <3>2. n = Len(branch)
      <4>1. Len(branch) \in 1..Len(branch)
        BY <1>3, <2>1, TreeOfTip
      <4>2. Len(branch) <= n
        BY <1>4, <3>1, <4>1
      <4> HIDE DEF n
      <4> QED BY <1>4, <1>5, <4>2
    <3> QED BY <1>3, <3>2, HistoryBegins
  <2>6. /\ branch' = branch /\ backup' = backup
        /\ undo' = undo \cup (TreesOf(dhist) \ TreesOf(branch))
        /\ IF detached' THEN dhist' = g ELSE branch' = g
        /\ index' = TreeOf(g) /\ work' = TreeOf(g)
    <3>1. CASE t = Infinity /\ Checkout(branch, FALSE)
      <4>1. g = branch
        BY <2>5, <3>1
      <4> HIDE DEF g
      <4> QED BY <1>3, <2>2, <3>1, <4>1, CheckoutMoves
    <3>2. CASE Checkout(g, TRUE)
      <4> HIDE DEF g
      <4> QED BY <1>5, <2>2, <3>2, CheckoutMoves
    <3> QED BY <2>3, <3>1, <3>2
  <2>7. HeadHist' = g
    BY <2>6 DEF HeadHist
  <2>8. HeadTree' = TreeOf(g)
    BY <2>7 DEF HeadTree, TreeOf
  <2>9. Aligned(s)'
    <3>1. RevList(branch, ReadByGit(job[s]))' = n
      BY <1>1, <2>6 DEF RevList
    <3> HIDE DEF n
    <3> QED BY <1>7, <2>6, <2>7, <2>8, <3>1 DEF Aligned
  <2>10. AloneAt(s)'
    BY <1>1, <2>4, <2>9 DEF AloneAt, Moved, Listing
  <2> QED BY <2>6, <2>10
<1> QED BY <1>6, <1>7

\* It reads the files and the log, and moves back.
LEMMA AloneReads ==
  ASSUME Sound, Alone, NEW s \in Slots, Walk(s) \/ ReadLog(s)
  PROVE  AloneAt(s)'
<1> USE DEF repo
<1>1. /\ Aligned(s) /\ job[s].op = "list" /\ lake = "repo"
      /\ pc[s] = "log" =>
           listing[s] = {<<p, NoTool>> : p \in {q \in Paths : work[q] # Absent}}
      /\ UNCHANGED <<lake, repo, clock, job>>
  BY DEF Alone, AloneAt, Walk, ReadLog, At, Moved, Listing
<1>2. Aligned(s)'
  <2>1. /\ HeadHist' = HeadHist /\ HeadTree' = HeadTree
        /\ RevList(branch, ReadByGit(job[s]))' = RevList(branch, ReadByGit(job[s]))
    BY <1>1 DEF HeadHist, HeadTree, TreeOf, RevList
  <2> QED BY <1>1, <2>1 DEF Aligned
<1>3. CASE Walk(s)
  <2>1. pc'[s] = "log"
    BY <1>3, GoneTo DEF Walk
  <2>2. listing'[s] = {<<p, NoTool>> : p \in {q \in Paths : work[q] # Absent}}
    BY <1>3 DEF Walk, Sound, TypeOK
  <2> QED BY <1>1, <1>2, <2>1, <2>2 DEF AloneAt, Moved, Listing
<1>4. CASE ReadLog(s)
  <2> DEFINE t == ReadByGit(job[s])
             n == RevList(branch, t)
             g == SubSeq(branch, 1, n)
             there == {q \in Paths : work[q] # Absent}
  <2>1. pc'[s] = "restore" /\ pc[s] = "log"
    BY <1>4, GoneTo DEF ReadLog, At
  <2>2. listing'[s] = {<<e[1], ToolIn(HeadHist, e[1])>> : e \in listing[s]}
    BY <1>4 DEF ReadLog, Sound, TypeOK
  <2>3. listing'[s] = {<<p, ToolIn(HeadHist, p)>> : p \in there}
    <3>1. listing[s] = {<<p, NoTool>> : p \in there}
      BY <1>1, <2>1
    <3> HIDE DEF there, t, n, g
    <3>2. \A e \in listing[s] : e[1] \in there
      BY <3>1
    <3>3. \A p \in there : <<p, NoTool>> \in listing[s] /\ <<p, NoTool>>[1] = p
      BY <3>1
    <3>4. ASSUME NEW x PROVE x \in listing'[s] <=> x \in {<<p, ToolIn(HeadHist, p)>> : p \in there}
      <4>1. x \in listing'[s] <=> \E e \in listing[s] : x = <<e[1], ToolIn(HeadHist, e[1])>>
        BY <2>2
      <4>2. x \in {<<p, ToolIn(HeadHist, p)>> : p \in there}
              <=> \E p \in there : x = <<p, ToolIn(HeadHist, p)>>
        OBVIOUS
      <4> QED BY <3>2, <3>3, <4>1, <4>2
    <3> QED BY <3>4
  <2>4. t \in Int /\ n # 0 /\ HeadHist = g /\ work = TreeOf(HeadHist)
    BY <1>1, JobOf DEF Aligned, HeadTree, Sound
  <2>5. AsOf(t) = work /\ \A p : LastTool(t, p) = ToolIn(HeadHist, p)
    BY <2>4, ListedUpTo
  <2>6. listing'[s] = Listed(t)
    <3>1. Listed(t) = {<<p, LastTool(t, p)>> : p \in there}
      BY <2>5 DEF Listed
    <3> HIDE DEF there, t, n, g
    <3> QED BY <2>3, <2>5, <3>1
  <2>7. Listed(ReadByGit(job[s]))' = Listed(t)
    BY <1>1 DEF Listed, AsOf, AsOfIn, LastTool, Newest
  <2> QED BY <1>1, <1>2, <2>1, <2>6, <2>7 DEF AloneAt, Moved, Listing
<1> QED BY <1>3, <1>4

\* It moves back to the branch, and the index and the files with it.
LEMMA AloneRestore ==
  ASSUME Sound, Alone, NEW s \in Slots, Restore(s)
  PROVE  /\ AloneAt(s)' /\ branch' = branch /\ backup' = backup
         /\ undo' \subseteq undo \cup (TreesOf(dhist) \ TreesOf(branch))
<1> DEFINE t == ReadByGit(job[s])
           n == RevList(branch, t)
<1>1. /\ Aligned(s) /\ job[s].op = "list" /\ lake = "repo" /\ lake' = lake
      /\ listing[s] = Listed(t) /\ listing' = listing /\ job' = job
  BY DEF Alone, AloneAt, Restore, At, Moved, Listing
<1>2. branch \in Histories /\ Ordered(branch) /\ t \in Int
  BY <1>1, JobOf DEF Sound, TypeOK, Timed, InOrder
<1>3. branch # <<>>
  <2>1. n \in 0..Len(branch) /\ n # 0
    BY <1>1, <1>2, AlignsInRange DEF Aligned
  <2> HIDE DEF n
  <2> QED BY <2>1
<1>4. Checkout(branch, FALSE) /\ Go(s, "listed")
  BY <1>1, <1>3 DEF Restore
<1>5. /\ branch' = branch /\ backup' = backup /\ ~detached' /\ dhist' = <<>>
      /\ undo' = undo \cup (TreesOf(dhist) \ TreesOf(branch))
      /\ index' = TreeOf(branch) /\ work' = TreeOf(branch)
  BY <1>1, <1>2, <1>4, CheckoutMoves DEF Aligned
<1>6. pc'[s] = "listed"
  BY <1>4, GoneTo
<1>7. Rest'
  <2>1. TreeOf(branch)' = TreeOf(branch')
    BY DEF TreeOf
  <2> QED BY <1>5, <2>1 DEF Rest
<1>8. Listed(ReadByGit(job[s]))' = Listed(t)
  BY <1>1, <1>5 DEF Listed, AsOf, AsOfIn, LastTool, Newest
<1>9. AloneAt(s)'
  BY <1>1, <1>6, <1>7, <1>8 DEF AloneAt, Moved, Listing
<1> QED BY <1>5, <1>9

\* With one tool at a time, none killed, every step leaves what the next
\* command relies on.
LEMMA StepAlone ==
  ASSUME OneTool, ~MayCrash, Sound, Alone, NEW s \in Slots, Step(s)
  PROVE  AloneAt(s)'
BY AloneQuiet, AloneInitialize, AloneInsert, AloneRemove, AloneCommit, FilterAlone,
   AlonePurge, AloneAlign, AloneReads, AloneRestore DEF Step

\* So do all steps, as there is no other tool.
LEMMA NextAlone ==
  ASSUME OneTool, ~MayCrash, Sound, Alone, [Next]_vars
  PROVE  Alone'
<1>1. CASE \E s \in Slots : Step(s)
  <2>1. PICK s \in Slots : Step(s)
    BY <1>1
  <2>2. AloneAt(s)'
    BY <2>1, StepAlone
  <2>3. \A r \in Slots : r = s
    BY DEF OneTool
  <2> QED BY <2>2, <2>3 DEF Alone
<1>2. CASE Tick \/ UNCHANGED vars
  <2>1. UNCHANGED <<lake, branch, detached, dhist, index, work, job, pc, listing>>
    BY <1>2 DEF Tick, vars, repo
  <2>2. ASSUME NEW s \in Slots PROVE AloneAt(s)'
    <3>1. AloneAt(s)
      BY DEF Alone
    <3>2. /\ Rest' <=> Rest
          /\ Aligned(s)' <=> Aligned(s)
          /\ TreeOf(branch)' = TreeOf(branch)
          /\ Listed(ReadByGit(job[s]))' = Listed(ReadByGit(job[s]))
      <4>1. Rest' <=> Rest
        BY <2>1, Zenon DEF Rest, TreeOf
      <4>2. /\ HeadHist' = HeadHist /\ HeadTree' = HeadTree
            /\ RevList(branch, ReadByGit(job[s]))' = RevList(branch, ReadByGit(job[s]))
        BY <2>1 DEF HeadHist, HeadTree, TreeOf, RevList
      <4>3. Aligned(s)' <=> Aligned(s)
        BY <2>1, <4>2 DEF Aligned
      <4>4. Listed(ReadByGit(job[s]))' = Listed(ReadByGit(job[s]))
        BY <2>1 DEF Listed, AsOf, AsOfIn, LastTool, Newest
      <4>5. TreeOf(branch)' = TreeOf(branch)
        BY <2>1 DEF TreeOf
      <4> QED BY <4>1, <4>3, <4>4, <4>5
    <3> QED BY <2>1, <3>1, <3>2 DEF AloneAt
  <2> QED BY <2>2 DEF Alone
<1> QED BY <1>1, <1>2 DEF Next

\* Nothing is out of place in an empty lake.
LEMMA InitAlone == Init => Alone
<1> SUFFICES ASSUME Init, NEW s \in Slots PROVE AloneAt(s)
  BY DEF Alone
<1>1. pc[s] = "idle" /\ lake = "missing"
  BY DEF Init
<1>2. Rest
  BY DEF Init, Rest
<1> QED BY <1>1, <1>2 DEF AloneAt, Moved, Listing

\* A tool has found nothing before it reads the files.
Unlisted ==
  \A s \in Slots : pc[s] \notin {"log", "restore", "listed"} => listing[s] = {}

LEMMA StepUnlisted ==
  ASSUME Sound, Unlisted, NEW s \in Slots, Step(s)
  PROVE  Unlisted'
<1>1. pc \in [Slots -> Labels] /\ DOMAIN listing = Slots
  BY TypeParts DEF Sound, ToolsTyped
<1>2. CASE Finish(s) \/ Crash(s)
  <2>1. listing' = [listing EXCEPT ![s] = {}] /\ pc' = [pc EXCEPT ![s] = "idle"]
    BY <1>2 DEF Finish, Crash, Go
  <2> QED BY <1>1, <2>1 DEF Unlisted
<1>3. CASE Walk(s) \/ ReadLog(s)
  <2>1. \E l \in {"log", "restore"} : pc' = [pc EXCEPT ![s] = l]
    BY <1>3 DEF Walk, ReadLog, Go
  <2>2. \E x : listing' = [listing EXCEPT ![s] = x]
    BY <1>3 DEF Walk, ReadLog
  <2> QED BY <1>1, <2>1, <2>2 DEF Unlisted
<1>4. CASE Restore(s) \/ LockHeld(s)
  <2>1. listing' = listing
    BY <1>4 DEF Restore, LockHeld
  <2>2. \/ pc' = [pc EXCEPT ![s] = "listed"]
        \/ pc[s] # "restore" /\ pc[s] \in {"start", "add", "commit", "align"}
             /\ \E l \in {"done", "walk"} : pc' = [pc EXCEPT ![s] = l]
    BY <1>4 DEF Restore, LockHeld, Go
  <2> QED BY <1>1, <2>1, <2>2 DEF Unlisted
<1>5. CASE ~(Finish(s) \/ Crash(s) \/ Walk(s) \/ ReadLog(s) \/ Restore(s) \/ LockHeld(s))
  <2>1. /\ listing' = listing
        /\ pc[s] \notin {"log", "restore", "listed"}
        /\ \E l : pc' = [pc EXCEPT ![s] = l]
    BY <1>5 DEF Step, Start, RemoveLake, UserDeclines, CreateLake, GitInit, Copy, CopyFails,
       GitAdd, GitCommit, GitRm, FilterBranch, DeleteBackup, Gc, ShowCurrent, AlignRepo, Go, At
  <2> QED BY <1>1, <2>1 DEF Unlisted
<1> QED BY <1>2, <1>3, <1>4, <1>5

\* A listing that is refused would have been empty.
RefusedAt(s) ==
  pc[s] = "done" /\ job[s].op = "list" => Listed(ReadByGit(job[s])) = {}

\* The history that a listing of the present is taken from was there when the
\* tool started.
StartedAt(s) ==
  pc[s] # "idle" /\ job[s].op = "list" /\ ~job[s].given =>
    job[s].before \in Int /\ Until(branch, job[s].before)

Timely == \A s \in Slots : RefusedAt(s) /\ StartedAt(s)

\* Before its first commit a lake lists nothing.
LEMMA ListedBefore ==
  ASSUME Sound, NEW t \in Int, RevList(branch, t) = 0
  PROVE  Listed(t) = {}
<1>1. branch \in Histories /\ Ordered(branch)
  BY DEF Sound, TypeOK, Timed, InOrder
<1>2. \A i \in 1..Len(branch) : ~(branch[i].time <= t)
  <2>1. \A i \in 1..Len(branch) : branch[i].time <= t <=> i <= RevList(branch, t)
    BY <1>1, AlignsInRange
  <2> QED BY <2>1
<1>3. {i \in DOMAIN branch : branch[i].time <= t} = {}
  BY <1>1, <1>2, HistoryOf
<1>4. AsOf(t) = Empty
  BY <1>3, Zenon DEF AsOf, AsOfIn, Newest
<1> QED BY <1>4 DEF Listed, Empty

\* Nothing that shows a time has changed when the branch has not.
LEMMA ListedSame ==
  ASSUME branch' = branch, NEW s \in Slots, job'[s] = job[s]
  PROVE  Listed(ReadByGit(job[s]))' = Listed(ReadByGit(job[s]))
BY DEF Listed, AsOf, AsOfIn, LastTool, Newest, ReadByGit

\* Every step of the one tool keeps this.
LEMMA StepTimely ==
  ASSUME OneTool, ~MayCrash, Sound, Alone, NoLake, Timely, NEW s \in Slots, Step(s)
  PROVE  RefusedAt(s)' /\ StartedAt(s)'
<1>1. AloneAt(s) /\ RefusedAt(s) /\ StartedAt(s)
  BY DEF Alone, Timely
<1>2. CASE Start(s)
  <2>1. pc'[s] = "start"
    BY <1>2, GoneTo DEF Start
  <2>2. PICK j \in Jobs : /\ job' = [job EXCEPT ![s] = j]
                          /\ j.op = "list" /\ ~j.given => j.before = clock
    BY <1>2 DEF Start
  <2>3. job'[s] = j
    BY <2>2 DEF Sound, TypeOK
  <2>4. branch' = branch /\ Until(branch, clock) /\ clock \in Int
    BY <1>2 DEF Start, repo, Sound, TypeOK, Timed, InOrder
  <2>5. Until(branch, clock)' <=> Until(branch, clock')
    BY <2>4 DEF Until
  <2>6. j.op = "list" /\ ~j.given => Until(branch, j.before)'
    BY <2>2, <2>4 DEF Until
  <2> QED BY <2>1, <2>2, <2>3, <2>4, <2>6 DEF RefusedAt, StartedAt
<1>3. CASE Finish(s) \/ CopyFails(s) \/ Crash(s)
  <2>1. pc'[s] = "idle"
    BY <1>3, GoneTo DEF Finish, CopyFails, Crash
  <2> QED BY <2>1 DEF RefusedAt, StartedAt
<1>4. CASE ShowCurrent(s) \/ AlignRepo(s) \/ Walk(s) \/ ReadLog(s) \/ Restore(s)
  <2>1. /\ branch' = branch
        /\ job' = job /\ pc[s] # "idle" /\ job[s].op = "list"
    <3>1. CASE AlignRepo(s) \/ Restore(s)
      BY <3>1, AloneAlign, AloneRestore DEF AlignRepo, Restore, At
    <3>2. CASE ShowCurrent(s) \/ Walk(s) \/ ReadLog(s)
      BY <3>2 DEF ShowCurrent, Walk, ReadLog, At, repo
    <3> QED BY <1>4, <3>1, <3>2
  <2>2. Listed(ReadByGit(job[s]))' = Listed(ReadByGit(job[s]))
    BY <2>1, ListedSame
  <2>3. StartedAt(s)'
    <3>1. Until(branch, job[s].before)' <=> Until(branch, job[s].before)
      BY <2>1 DEF Until
    <3> QED BY <1>1, <2>1, <3>1 DEF StartedAt
  <2>4. ASSUME pc'[s] = "done" PROVE Listed(ReadByGit(job[s])) = {}
    <3>1. ReadByGit(job[s]) \in Int
      BY <2>1, JobOf DEF Sound
    <3>2. CASE ShowCurrent(s)
      <4>1. pc[s] = "start" /\ (lake # "repo" \/ detached)
        BY <2>4, <3>2, GoneTo DEF ShowCurrent, At
      <4>2. lake = "missing"
        BY <1>1, <4>1 DEF AloneAt, Rest, Moved, Sound, TypeOK
      <4>3. branch = <<>> /\ Len(branch) = 0
        BY <4>2 DEF NoLake
      <4>4. RevList(branch, ReadByGit(job[s])) \in 0..Len(branch)
        BY <3>1, AlignsInRange DEF Sound, TypeOK, Timed, InOrder
      <4>5. RevList(branch, ReadByGit(job[s])) = 0
        BY <4>3, <4>4
      <4> QED BY <3>1, <4>5, ListedBefore
    <3>3. CASE AlignRepo(s)
      <4>1. pc[s] = "align"
        BY <3>3 DEF AlignRepo, At
      <4>2. lake = "repo"
        BY <1>1, <4>1 DEF AloneAt
      <4>3. RevList(branch, ReadByGit(job[s])) = 0
        <5>1. SUFFICES ASSUME RevList(branch, ReadByGit(job[s])) # 0 PROVE FALSE
          OBVIOUS
        <5>2. Go(s, "walk")
          BY <3>3, <4>2, <5>1 DEF AlignRepo
        <5> QED BY <2>4, <5>2, GoneTo
      <4> QED BY <3>1, <4>3, ListedBefore
    <3>4. CASE Walk(s) \/ ReadLog(s) \/ Restore(s)
      <4>1. \E l \in {"log", "restore", "listed"} : Go(s, l)
        BY <3>4 DEF Walk, ReadLog, Restore
      <4> QED BY <2>4, <4>1, GoneTo
    <3> QED BY <1>4, <3>2, <3>3, <3>4
  <2> QED BY <2>1, <2>2, <2>3, <2>4 DEF RefusedAt
<1>5. CASE LockHeld(s)
  <2>1. Active = {s}
    BY <1>5 DEF LockHeld, Active, OneTool
  <2> QED BY <1>5, <2>1 DEF LockHeld
<1>6. CASE \/ RemoveLake(s) \/ UserDeclines(s) \/ CreateLake(s) \/ GitInit(s) \/ Copy(s)
           \/ GitAdd(s) \/ GitCommit(s) \/ GitRm(s) \/ FilterBranch(s) \/ DeleteBackup(s)
           \/ Gc(s)
  <2>1. job' = job
    BY <1>6 DEF RemoveLake, UserDeclines, CreateLake, GitInit, Copy, GitAdd, GitCommit, GitRm,
       FilterBranch, DeleteBackup, Gc
  <2>2. job[s].op # "list"
    <3>1. CASE GitCommit(s)
      BY <1>1, <3>1 DEF GitCommit, AloneAt
    <3>2. CASE ~GitCommit(s)
      BY <1>6, <3>2 DEF RemoveLake, UserDeclines, CreateLake, GitInit, Copy, GitAdd, GitRm,
         FilterBranch, DeleteBackup, Gc, At
    <3> QED BY <3>1, <3>2
  <2> QED BY <2>1, <2>2 DEF RefusedAt, StartedAt
<1> QED BY <1>2, <1>3, <1>4, <1>5, <1>6 DEF Step

\* So with the clock, and with no other tool, it holds for good.
InPlace == Sound /\ NoLake /\ Alone /\ Unlisted /\ Timely

LEMMA NextInPlace ==
  ASSUME OneTool, ~MayCrash, InPlace, [Next]_vars
  PROVE  InPlace'
<1> USE DEF InPlace
<1>1. Sound' /\ Alone'
  BY NextSound, NextAlone
<1>2. CASE \E s \in Slots : Step(s)
  <2>1. PICK s \in Slots : Step(s)
    BY <1>2
  <2>2. NoLake' /\ Unlisted' /\ RefusedAt(s)' /\ StartedAt(s)'
    BY <2>1, StepKeeps, StepUnlisted, StepTimely
  <2>3. \A r \in Slots : r = s
    BY DEF OneTool
  <2> QED BY <1>1, <2>2, <2>3 DEF Timely
<1>3. CASE Tick \/ UNCHANGED vars
  <2>1. UNCHANGED <<lake, branch, job, pc, listing>>
    BY <1>3 DEF Tick, vars, repo
  <2>2. NoLake' /\ Unlisted'
    BY <2>1 DEF NoLake, Unlisted
  <2>3. ASSUME NEW s \in Slots PROVE RefusedAt(s)' /\ StartedAt(s)'
    <3>1. RefusedAt(s) /\ StartedAt(s)
      BY DEF Timely
    <3>2. Listed(ReadByGit(job[s]))' = Listed(ReadByGit(job[s]))
      BY <2>1, ListedSame
    <3>3. Until(branch, job[s].before)' <=> Until(branch, job[s].before)
      BY <2>1 DEF Until
    <3> QED BY <2>1, <3>1, <3>2, <3>3 DEF RefusedAt, StartedAt
  <2> QED BY <1>1, <2>2, <2>3 DEF Timely
<1> QED BY <1>2, <1>3 DEF Next

\* Before the first tool nothing is asked for.
LEMMA InitInPlace == Init => InPlace
<1> SUFFICES ASSUME Init PROVE NoLake /\ Unlisted /\ Timely
  BY InitSound, InitAlone DEF InPlace
<1>1. branch = <<>> /\ \A s \in Slots : pc[s] = "idle" /\ listing[s] = {}
  BY DEF Init
<1> QED BY <1>1 DEF NoLake, Unlisted, Timely, RefusedAt, StartedAt

\* What nmdl-list has found when it ends is what git takes the time for.
LEMMA FoundAt ==
  ASSUME InPlace, NEW s \in Slots, EndOfList(s)
  PROVE  listing[s] = Listed(ReadByGit(job[s]))
<1>1. CASE pc[s] = "listed"
  BY <1>1 DEF InPlace, Alone, AloneAt
<1>2. CASE pc[s] = "done"
  BY <1>2 DEF InPlace, Timely, RefusedAt, Unlisted, EndOfList
<1> QED BY <1>1, <1>2 DEF EndOfList

\* nmdl-list finds what was stored at the time it was given, with the tool of
\* its last check-in then, for any histories, times and contents, although it
\* moves the working tree there and back; without a time, what was stored as
\* long before its start as local time is ahead of UTC: as long as one tool
\* runs at a time and none is killed.
THEOREM ListingsAreExact ==
  ASSUME OneTool, ~MayCrash
  PROVE  Spec => []ListingIsExact
<1>1. InPlace => ListingIsExact
  <2> SUFFICES ASSUME InPlace, NEW s \in Slots, EndOfList(s)
               PROVE  Found(s, ReadByGit(job[s]))
    BY DEF ListingIsExact, ReadByGit
  <2> QED BY FoundAt DEF Found, Listed
<1>2. InPlace /\ [Next]_vars => InPlace'
  BY NextInPlace
<1> QED BY <1>1, <1>2, InitInPlace, PTL DEF Spec

\* All times from the last commit on show the same.
LEMMA ListedAll ==
  ASSUME Sound, NEW t, NEW u, Until(branch, t), Until(branch, u)
  PROVE  Listed(t) = Listed(u)
<1>1. DOMAIN branch = 1..Len(branch)
  BY HistoryOf DEF Sound, TypeOK
<1>2. \A i \in DOMAIN branch : branch[i].time <= t /\ branch[i].time <= u
  BY <1>1 DEF Until
<1>3. AsOf(t) = AsOf(u)
  <2>1. {i \in DOMAIN branch : branch[i].time <= t} = {i \in DOMAIN branch : branch[i].time <= u}
    BY <1>2
  <2> QED BY <2>1, Zenon DEF AsOf, AsOfIn
<1>4. \A p : LastTool(t, p) = LastTool(u, p)
  <2> TAKE p
  <2> DEFINE ins(x) == {i \in DOMAIN branch : /\ branch[i].time <= x
                                              /\ branch[i].note # NoNote
                                              /\ branch[i].note[1] = p}
  <2>1. ins(t) = ins(u)
    BY <1>2
  <2>2. \A x : LastTool(x, p) = IF ins(x) = {} THEN NoTool ELSE branch[Max(ins(x))].note[2]
    BY DEF LastTool
  <2> HIDE DEF ins
  <2> QED BY <2>1, <2>2
<1> DEFINE there == {q \in Paths : AsOf(t)[q] # Absent}
<1>5. /\ Listed(t) = {<<p, LastTool(t, p)>> : p \in there}
      /\ Listed(u) = {<<p, LastTool(u, p)>> : p \in there}
  BY <1>3 DEF Listed
<1> HIDE DEF there
<1> QED BY <1>4, <1>5

\* Without a time nmdl-list finds all that is stored, as its README says, if
\* the users' local time is not ahead of UTC.
THEOREM LatestListed ==
  ASSUME OneTool, ~MayCrash, Ahead <= 0
  PROVE  Spec => []LatestIsListed
<1>1. InPlace => LatestIsListed
  <2> SUFFICES ASSUME InPlace, NEW s \in Slots, EndOfList(s), ~job[s].given
               PROVE  Found(s, Infinity)
    BY DEF LatestIsListed
  <2>1. Sound /\ branch \in Histories
    BY DEF InPlace, Sound, TypeOK
  <2>2. job[s].before \in Int /\ Until(branch, job[s].before)
    BY DEF InPlace, Timely, StartedAt, EndOfList
  <2>3. ReadByGit(job[s]) = job[s].before - Ahead
    BY DEF ReadByGit
  <2>4. \A i \in 1..Len(branch) : branch[i].time \in 0..MaxTime
    BY <2>1, HistoryOf
  <2>5. Until(branch, ReadByGit(job[s]))
    BY <2>2, <2>3, <2>4, LakeAssumption DEF Until
  <2>6. Until(branch, Infinity)
    BY <2>4, LakeAssumption DEF Until, Infinity
  <2>7. Listed(ReadByGit(job[s])) = Listed(Infinity)
    BY <2>1, <2>5, <2>6, ListedAll
  <2> QED BY <2>7, FoundAt DEF Found, Listed
<1>2. InPlace /\ [Next]_vars => InPlace'
  BY NextInPlace
<1> QED BY <1>1, <1>2, InitInPlace, PTL DEF Spec

-------------------------------------------------------------------------------
(* What is left behind.                                                    *)

\* Nothing that git shows holds any of S.
Free(S) ==
  \A tree \in TreesOf(branch) \cup {index, work} : \A p \in S : tree[p] = Absent

\* What the index adds to the tip, and what only git could bring back, when
\* one tool runs at a time and some data always stays.
SettledAt(s) ==
  LET j == job[s]
  IN  /\ pc[s] \notin {"commit"} \cup Moved => index = TreeOf(branch)
      /\ pc[s] = "commit" =>
           \/ j.op = "insert" /\ index = [TreeOf(branch) EXCEPT ![j.path] = j.content]
           \/ j.op = "remove" /\ index = Without(TreeOf(branch), j.paths)
      /\ pc[s] \in Moved => TreesOf(dhist) \subseteq TreesOf(branch)
      /\ pc[s] \notin {"unref", "gc"} => undo = {}
      /\ pc[s] # "unref" => ~backup
      /\ pc[s] = "start" /\ j.op = "purge" =>
           branch = <<>> \/ Filter(branch, j.paths) # <<>>
      /\ pc[s] \in {"unref", "gc", "purged", "done"} /\ j.op = "purge" /\ lake = "repo" =>
           Free(j.paths)

Settled == \A s \in Slots : SettledAt(s)

\* The steps that change neither repository nor listing.
LEMMA SettledQuiet ==
  ASSUME OneTool, ~MayCrash, ~Wipes, Sound, Alone, Settled, NEW s \in Slots,
         \/ Start(s) \/ Finish(s) \/ UserDeclines(s) \/ CopyFails(s)
         \/ ShowCurrent(s) \/ LockHeld(s) \/ Crash(s)
  PROVE  SettledAt(s)'
<1>1. UNCHANGED <<lake, branch, detached, dhist, index, work, undo, backup>>
      /\ AloneAt(s) /\ SettledAt(s)
  BY DEF Alone, Settled, repo, Start, Finish, UserDeclines, CopyFails, ShowCurrent,
         LockHeld, Crash
<1>2. TreeOf(branch)' = TreeOf(branch) /\ TreesOf(branch)' = TreesOf(branch)
  BY <1>1 DEF TreeOf, TreesOf
<1>3. CASE Start(s)
  <2>1. pc'[s] = "start" /\ pc[s] = "idle"
    BY <1>3, GoneTo DEF Start
  <2>2. HeadHist = branch
    BY <1>1, <2>1 DEF AloneAt, Rest, HeadHist, Moved
  <2>3. job'[s].op = "purge" =>
          branch = <<>> \/ Filter(branch, job'[s].paths) # <<>>
    <3>1. PICK j \in Jobs : /\ job' = [job EXCEPT ![s] = j]
                            /\ j.op = "purge" =>
                                 Wipes \/ HeadHist = <<>> \/ Filter(HeadHist, j.paths) # <<>>
      BY <1>3 DEF Start
    <3>2. job'[s] = j
      BY <3>1 DEF Sound, TypeOK
    <3> QED BY <2>2, <3>1, <3>2
  <2>4. Filter(branch, job[s].paths)' = Filter(branch, job'[s].paths)
    BY <1>1, Zenon DEF Filter, FilterCommit, TreeOf, FoldLeft, MapThenFoldSet
  <2> QED BY <1>1, <1>2, <2>1, <2>3, <2>4 DEF SettledAt, Moved
<1>4. CASE Finish(s) \/ CopyFails(s)
  <2>1. pc'[s] = "idle"
    BY <1>4, GoneTo DEF Finish, CopyFails
  <2>2. pc[s] \in {"done", "inserted", "purged", "listed", "start"}
    BY <1>4 DEF Finish, CopyFails, At
  <2> QED BY <1>1, <1>2, <2>1, <2>2 DEF SettledAt, Moved
<1>5. CASE UserDeclines(s) \/ ShowCurrent(s)
  <2>1. pc[s] = "start" /\ job[s].op # "purge" /\ job' = job
    BY <1>5 DEF UserDeclines, ShowCurrent, At
  <2>2. pc'[s] \in {"align", "done"}
    <3>1. Go(s, "align") \/ Go(s, "done")
      BY <1>5 DEF UserDeclines, ShowCurrent
    <3> QED BY <3>1, GoneTo
  <2> QED BY <1>1, <1>2, <2>1, <2>2 DEF SettledAt, Moved
<1>6. CASE LockHeld(s)
  <2>1. Active = {s}
    <3>1. pc[s] # "idle"
      BY <1>6 DEF LockHeld
    <3>2. \A r \in Slots : r = s
      BY DEF OneTool
    <3> QED BY <3>1, <3>2 DEF Active
  <2> QED BY <1>6, <2>1 DEF LockHeld
<1>7. CASE Crash(s)
  BY <1>7 DEF Crash
<1> QED BY <1>3, <1>4, <1>5, <1>6, <1>7

\* nmdl-initialize.
LEMMA SettledInitialize ==
  ASSUME Sound, Alone, Settled, NEW s \in Slots,
         RemoveLake(s) \/ CreateLake(s) \/ GitInit(s)
  PROVE  SettledAt(s)'
<1>1. CASE RemoveLake(s)
  <2>1. pc'[s] = "create"
    BY <1>1, GoneTo DEF RemoveLake
  <2>2. branch' = <<>> /\ index' = Empty /\ undo' = {} /\ ~backup'
    BY <1>1 DEF RemoveLake
  <2>3. TreeOf(branch)' = Empty'
    BY <2>2 DEF TreeOf
  <2>4. Empty' = Empty
    BY DEF Empty
  <2> QED BY <2>1, <2>2, <2>3, <2>4 DEF SettledAt, Moved
<1>2. CASE CreateLake(s) \/ GitInit(s)
  <2>1. /\ UNCHANGED <<branch, index, work, undo, backup, job>> /\ job[s].op = "initialize"
        /\ pc[s] \in {"create", "init"}
    BY <1>2 DEF CreateLake, GitInit, At, repo
  <2>2. pc'[s] \in {"init", "done"}
    <3>1. Go(s, "init") \/ Go(s, "done")
      BY <1>2 DEF CreateLake, GitInit
    <3> QED BY <3>1, GoneTo
  <2>3. TreeOf(branch)' = TreeOf(branch)
    BY <2>1 DEF TreeOf
  <2> QED BY <2>1, <2>2, <2>3 DEF Settled, SettledAt, Moved
<1> QED BY <1>1, <1>2

\* What nmdl-insert and nmdl-remove make of the index.
LEMMA SettledChange ==
  ASSUME Sound, Alone, Settled, NEW s \in Slots, Copy(s) \/ GitAdd(s) \/ GitRm(s)
  PROVE  SettledAt(s)'
<1>1. AloneAt(s) /\ SettledAt(s)
  BY DEF Alone, Settled
<1>2. UNCHANGED <<branch, undo, backup, job>>
  BY DEF Copy, GitAdd, GitRm
<1>3. TreeOf(branch)' = TreeOf(branch)
  BY <1>2 DEF TreeOf
<1>4. /\ pc[s] \in {"start", "add"} /\ index = TreeOf(branch) /\ undo = {} /\ ~backup
      /\ job[s].op \in {"insert", "remove"}
  BY <1>1 DEF SettledAt, Copy, GitAdd, GitRm, At, Moved
<1>5. CASE Copy(s)
  <2>1. pc'[s] \in {"done", "add"}
    <3>1. Go(s, "done") \/ Go(s, "add")
      BY <1>5 DEF Copy
    <3> QED BY <3>1, GoneTo
  <2>2. index' = index
    BY <1>5 DEF Copy
  <2> QED BY <1>2, <1>3, <1>4, <2>1, <2>2 DEF SettledAt, Moved
<1>6. CASE GitAdd(s)
  <2>1. /\ pc[s] = "add" /\ job[s].op = "insert" /\ lake = "repo"
        /\ work = [index EXCEPT ![job[s].path] = job[s].content]
    BY <1>1, <1>6 DEF GitAdd, At, AloneAt
  <2>2. index' = work /\ pc'[s] = "commit"
    BY <1>6, <2>1, GoneTo DEF GitAdd
  <2> QED BY <1>2, <1>3, <1>4, <2>1, <2>2 DEF SettledAt, Moved
<1>7. CASE GitRm(s)
  <2> DEFINE found == {p \in job[s].paths : index[p] # Absent}
  <2>1. job[s].op = "remove" /\ found \in SUBSET Paths
    BY <1>7, JobOf DEF GitRm, At, Sound
  <2>2. \/ index' = Without(index, found) /\ Go(s, "commit")
        \/ index' = index /\ Go(s, "done")
    BY <1>7 DEF GitRm
  <2> HIDE DEF found
  <2>3. CASE index' = Without(index, found) /\ Go(s, "commit")
    <3>1. pc'[s] = "commit"
      BY <2>3, GoneTo
    <3>2. Without(index, found) = Without(index, job[s].paths)
      BY DEF Without, found
    <3>3. index' = Without(TreeOf(branch)', job'[s].paths)
      BY <1>2, <1>3, <1>4, <2>3, <3>2
    <3> QED BY <1>2, <1>3, <1>4, <2>1, <3>1, <3>3 DEF SettledAt, Moved
  <2>4. CASE index' = index /\ Go(s, "done")
    <3>1. pc'[s] = "done"
      BY <2>4, GoneTo
    <3> QED BY <1>2, <1>3, <1>4, <2>1, <2>4, <3>1 DEF SettledAt, Moved
  <2> QED BY <2>2, <2>3, <2>4
<1> QED BY <1>5, <1>6, <1>7

\* The commit.
LEMMA SettledCommit ==
  ASSUME Sound, Alone, Settled, NEW s \in Slots, GitCommit(s)
  PROVE  SettledAt(s)'
<1> DEFINE c == [time |-> clock, tree |-> index, note |-> Note(job[s])]
<1>1. pc[s] = "commit" /\ undo = {} /\ ~backup /\ job[s].op # "purge"
  BY DEF Settled, SettledAt, GitCommit
<1>2. UNCHANGED <<index, undo, backup, job>>
  BY DEF GitCommit, Commit, repo
<1>3. pc'[s] \in {"done", "inserted"}
  <2>1. Go(s, "done") \/ Go(s, "inserted")
    BY DEF GitCommit
  <2> QED BY <2>1, GoneTo
<1>4. TreeOf(branch') = index
  <2>1. \/ index = TreeOf(branch) /\ branch' = branch
        \/ branch' = Append(branch, c)
    BY AloneCommit
  <2>2. c \in Commits /\ c.tree = index /\ branch \in Histories
    BY CommitOf DEF Sound, TypeOK
  <2> HIDE DEF c
  <2>3. TreeOf(Append(branch, c)) = c.tree
    BY <2>2, CommitMade
  <2> QED BY <2>1, <2>2, <2>3
<1>5. TreeOf(branch)' = TreeOf(branch')
  BY DEF TreeOf
<1> QED BY <1>1, <1>2, <1>3, <1>4, <1>5 DEF SettledAt, Moved

\* A tree without S has nothing of S.
LEMMA WithoutFree ==
  ASSUME NEW S, NEW tree, NEW p \in S, p \in Paths
  PROVE  Without(tree, S)[p] = Absent
BY DEF Without

\* nmdl-remove --permanent: filter-branch.
LEMMA SettledFilter ==
  ASSUME Sound, Alone, Settled, NEW s \in Slots, FilterBranch(s)
  PROVE  SettledAt(s)'
<1> DEFINE S == job[s].paths
           new == Filter(branch, S)
<1>1. /\ pc[s] = "start" /\ job[s].op = "purge" /\ Rest
      /\ index = TreeOf(branch) /\ undo = {} /\ ~backup
      /\ branch = <<>> \/ new # <<>>
  BY DEF Alone, AloneAt, Settled, SettledAt, FilterBranch, At, Moved
<1>2. /\ branch \in Histories /\ S \subseteq Paths /\ job' = job /\ index \in Tree
      /\ Filtered(new, branch, S)
  BY <1>1, JobOf, FilterRemoves DEF Sound, TypeOK, Timed, InOrder, FilterBranch
<1>3. /\ \A p \in S : Without(TreeOf(branch), S)[p] = Absent
      /\ new \in Histories
      /\ \A i \in DOMAIN new : \A p \in S : new[i].tree[p] = Absent
  <2>1. \A tree : \A p \in S : Without(tree, S)[p] = Absent
    BY <1>2, WithoutFree
  <2>2. new \in Histories /\ DOMAIN new = 1..Len(new)
    BY <1>2, HistoryOf DEF Filtered
  <2> HIDE DEF new
  <2>3. \A i \in 1..Len(new) : new[i].tree = Without(new[i].tree, S)
    BY <1>2 DEF Filtered
  <2> QED BY <2>1, <2>2, <2>3
<1>4. /\ lake' = lake
      /\ \/ UNCHANGED repo /\ pc'[s] = "done"
            /\ (lake # "repo" \/ branch = <<>> \/ backup \/ ~Clean \/ new = branch)
         \/ /\ branch' = new /\ branch # <<>> /\ new = <<>>
         \/ /\ branch' = new /\ pc'[s] = "unref"
            /\ index' = TreeOf(new) /\ work' = TreeOf(new)
  BY FilterAlone
<1> HIDE DEF new
<1>5. CASE UNCHANGED repo /\ pc'[s] = "done"
            /\ (lake # "repo" \/ branch = <<>> \/ backup \/ ~Clean \/ new = branch)
  <2>1. UNCHANGED <<branch, index, work, undo, backup>>
    BY <1>5 DEF repo
  <2>2. TreeOf(branch)' = TreeOf(branch)
    BY <2>1 DEF TreeOf
  <2>3. ASSUME lake = "repo" PROVE Free(S)'
    <3>1. index = work /\ \A p \in Paths : index[p] = HeadTree[p]
      BY <1>1 DEF Rest, HeadTree, HeadHist
    <3>2. Clean
      BY <3>1 DEF Clean
    <3>3. CASE branch = <<>>
      <4>1. TreesOf(branch) = {} /\ \A p \in Paths : TreeOf(branch)[p] = Absent
        BY <3>3 DEF TreesOf, TreeOf, Empty
      <4>2. \A tree \in TreesOf(branch) \cup {index, work} : \A p \in S : tree[p] = Absent
        BY <1>1, <1>2, <3>1, <4>1
      <4>3. TreesOf(branch)' = TreesOf(branch)
        BY <2>1 DEF TreesOf
      <4> QED BY <1>2, <2>1, <4>2, <4>3 DEF Free
    <3>4. CASE new = branch
      <4>1. /\ \A tree \in TreesOf(branch) : \A p \in S : tree[p] = Absent
            /\ \A p \in S : index[p] = Absent
        BY <1>1, <1>2, <1>3, <3>4 DEF Filtered, TreesOf
      <4>2. TreesOf(branch)' = TreesOf(branch)
        BY <2>1 DEF TreesOf
      <4> QED BY <1>2, <2>1, <3>1, <4>1, <4>2 DEF Free
    <3> QED BY <1>1, <1>5, <2>3, <3>2, <3>3, <3>4
  <2> QED BY <1>1, <1>2, <1>4, <1>5, <2>1, <2>2, <2>3 DEF SettledAt, Moved
<1>6. CASE /\ branch' = new /\ pc'[s] = "unref"
           /\ index' = TreeOf(new) /\ work' = TreeOf(new)
  <2>1. TreeOf(branch)' = TreeOf(branch')
    BY DEF TreeOf
  <2>2. Free(S)'
    <3>1. TreesOf(branch)' = {new[i].tree : i \in DOMAIN new}
      BY <1>6 DEF TreesOf
    <3>2. \A p \in S : index'[p] = Absent /\ work'[p] = Absent
      BY <1>2, <1>3, <1>6 DEF Filtered
    <3> QED BY <1>2, <1>3, <3>1, <3>2 DEF Free
  <2> QED BY <1>2, <1>6, <2>1, <2>2 DEF SettledAt, Moved
<1> QED BY <1>1, <1>4, <1>5, <1>6

\* What follows filter-branch.
LEMMA SettledPurge ==
  ASSUME Sound, Alone, Settled, NEW s \in Slots, DeleteBackup(s) \/ Gc(s)
  PROVE  SettledAt(s)'
<1>1. /\ pc[s] \in {"unref", "gc"} /\ job[s].op = "purge" /\ index = TreeOf(branch)
      /\ lake = "repo" => Free(job[s].paths)
      /\ pc[s] = "gc" => ~backup
  BY DEF Settled, SettledAt, DeleteBackup, Gc, At, Moved
<1>2. UNCHANGED <<lake, branch, index, work, job>>
  BY DEF DeleteBackup, Gc
<1>3. \/ pc'[s] = "gc" /\ ~backup'
      \/ pc'[s] = "purged" /\ undo' = {} /\ backup' = backup /\ pc[s] = "gc"
  BY GoneTo DEF DeleteBackup, Gc, At
<1>4. TreeOf(branch)' = TreeOf(branch) /\ TreesOf(branch)' = TreesOf(branch)
  BY <1>2 DEF TreeOf, TreesOf
<1>5. Free(job[s].paths)' <=> Free(job[s].paths)
  BY <1>2, <1>4 DEF Free
<1> QED BY <1>1, <1>2, <1>3, <1>4, <1>5 DEF SettledAt, Moved

\* The beginning of a history has none but its trees.
LEMMA TreesBegin ==
  ASSUME NEW h \in Histories, NEW n \in 0..Len(h)
  PROVE  TreesOf(SubSeq(h, 1, n)) \subseteq TreesOf(h)
<1> DEFINE g == SubSeq(h, 1, n)
<1>1. /\ g \in Histories /\ Len(g) = n /\ \A i \in 1..n : g[i] = h[i]
      /\ Len(h) \in Nat
  BY HistoryBegins, HistoryOf
<1>2. DOMAIN g = 1..n /\ DOMAIN h = 1..Len(h)
  BY <1>1, HistoryOf
<1> HIDE DEF g
<1>3. \A i \in DOMAIN g : i \in DOMAIN h /\ g[i] = h[i]
  BY <1>1, <1>2
<1> QED BY <1>3 DEF TreesOf, g

\* nmdl-list leaves nothing behind that the branch does not hold.
LEMMA SettledList ==
  ASSUME Sound, Alone, Settled, NEW s \in Slots,
         AlignRepo(s) \/ Walk(s) \/ ReadLog(s) \/ Restore(s)
  PROVE  SettledAt(s)'
<1>1. /\ pc[s] \in {"align", "walk", "log", "restore"} /\ job[s].op = "list"
      /\ job' = job /\ lake' = lake
  BY DEF AlignRepo, Walk, ReadLog, Restore, At
<1>2. SettledAt(s) /\ AloneAt(s) /\ undo = {} /\ ~backup
  BY <1>1 DEF Alone, Settled, SettledAt
<1>3. branch \in Histories /\ Ordered(branch)
  BY DEF Sound, TypeOK, Timed, InOrder
<1>4. TreesOf(dhist) \subseteq TreesOf(branch)
  <2>1. CASE pc[s] = "align"
    <3>1. dhist = <<>>
      BY <1>2, <2>1 DEF AloneAt, Rest, Moved
    <3> QED BY <3>1 DEF TreesOf
  <2>2. CASE pc[s] # "align"
    BY <1>1, <1>2, <2>2 DEF SettledAt, Moved
  <2> QED BY <2>1, <2>2
<1>5. /\ branch' = branch /\ ~backup' /\ undo' = {}
  <2>1. CASE Walk(s) \/ ReadLog(s)
    BY <1>2, <2>1 DEF Walk, ReadLog, repo
  <2>2. CASE AlignRepo(s) \/ Restore(s)
    <3>1. /\ branch' = branch /\ backup' = backup
          /\ undo' \subseteq undo \cup (TreesOf(dhist) \ TreesOf(branch))
      BY <2>2, AloneAlign, AloneRestore
    <3> QED BY <1>2, <1>4, <3>1
  <2> QED BY <2>1, <2>2
<1>6. TreeOf(branch)' = TreeOf(branch) /\ TreesOf(branch)' = TreesOf(branch)
  BY <1>5 DEF TreeOf, TreesOf
<1>7. CASE AlignRepo(s)
  <2> DEFINE n == RevList(branch, ReadByGit(job[s]))
             g == SubSeq(branch, 1, n)
  <2>1. ReadByGit(job[s]) \in Int
    BY <1>1, JobOf DEF Sound
  <2>2. n \in 0..Len(branch)
    BY <1>3, <2>1, AlignsInRange
  <2>3. CASE n = 0
    <3>1. UNCHANGED <<index, work>> /\ Go(s, "done")
      BY <1>7, <2>3 DEF AlignRepo, repo
    <3>2. pc'[s] = "done"
      BY <3>1, GoneTo
    <3>3. index = TreeOf(branch) /\ pc[s] = "align"
      BY <1>2, <1>7 DEF SettledAt, AlignRepo, At, Moved
    <3> QED BY <1>1, <1>5, <1>6, <3>1, <3>2, <3>3 DEF SettledAt, Moved
  <2>4. CASE n # 0
    <3>1. Go(s, "walk") /\ (Checkout(branch, FALSE) \/ Checkout(g, TRUE))
      <4>1. lake = "repo"
        BY <1>2, <1>7 DEF AlignRepo, At, AloneAt
      <4> QED BY <1>7, <2>4, <4>1 DEF AlignRepo
    <3>2. pc'[s] = "walk"
      BY <3>1, GoneTo
    <3>3. dhist' = dhist \/ dhist' = <<>> \/ dhist' = branch \/ dhist' = g
      BY <3>1, CheckoutHistories
    <3>4. TreesOf(g) \subseteq TreesOf(branch) /\ TreesOf(<<>>) = {}
      BY <1>3, <2>2, TreesBegin DEF TreesOf
    <3>5. TreesOf(dhist') \subseteq TreesOf(branch)
      <4> HIDE DEF g
      <4> QED BY <1>4, <3>3, <3>4
    <3>6. TreesOf(dhist)' = TreesOf(dhist')
      BY DEF TreesOf
    <3> QED BY <1>5, <1>6, <3>2, <3>5, <3>6 DEF SettledAt, Moved
  <2> QED BY <2>3, <2>4
<1>8. CASE Walk(s) \/ ReadLog(s)
  <2>1. pc'[s] \in {"log", "restore"}
    <3>1. Go(s, "log") \/ Go(s, "restore")
      BY <1>8 DEF Walk, ReadLog
    <3> QED BY <3>1, GoneTo
  <2>2. TreesOf(dhist)' = TreesOf(dhist)
    BY <1>8 DEF Walk, ReadLog, repo, TreesOf
  <2> QED BY <1>4, <1>5, <1>6, <2>1, <2>2 DEF SettledAt, Moved
<1>9. CASE Restore(s)
  <2>1. Go(s, "listed")
    BY <1>9 DEF Restore
  <2>2. pc'[s] = "listed"
    BY <2>1, GoneTo
  <2>3. index' = TreeOf(branch)
    <3>1. Aligned(s) /\ lake = "repo"
      BY <1>2, <1>9 DEF AloneAt, Restore, At, Moved
    <3>2. branch # <<>>
      <4>1. RevList(branch, ReadByGit(job[s])) \in 0..Len(branch)
        BY <1>1, <1>3, JobOf, AlignsInRange DEF Sound
      <4>2. RevList(branch, ReadByGit(job[s])) # 0
        BY <3>1 DEF Aligned
      <4> QED BY <4>1, <4>2
    <3>3. Checkout(branch, FALSE)
      BY <1>9, <3>1, <3>2 DEF Restore
    <3> QED BY <1>3, <3>1, <3>3, CheckoutMoves DEF Aligned
  <2> QED BY <1>5, <1>6, <2>2, <2>3 DEF SettledAt, Moved
<1> QED BY <1>7, <1>8, <1>9

\* Every step leaves nothing behind that it should not.
LEMMA NextSettled ==
  ASSUME OneTool, ~MayCrash, ~Wipes, Sound, Alone, Settled, [Next]_vars
  PROVE  Settled'
<1>1. CASE \E s \in Slots : Step(s)
  <2>1. PICK s \in Slots : Step(s)
    BY <1>1
  <2>2. SettledAt(s)'
    BY <2>1, SettledQuiet, SettledInitialize, SettledChange, SettledCommit,
       SettledFilter, SettledPurge, SettledList DEF Step
  <2>3. \A r \in Slots : r = s
    BY DEF OneTool
  <2> QED BY <2>2, <2>3 DEF Settled
<1>2. CASE Tick \/ UNCHANGED vars
  <2>1. UNCHANGED <<lake, branch, dhist, index, work, undo, backup, job, pc>>
    BY <1>2 DEF Tick, vars, repo
  <2>2. ASSUME NEW s \in Slots PROVE SettledAt(s)'
    <3>1. SettledAt(s)
      BY DEF Settled
    <3>2. /\ TreeOf(branch)' = TreeOf(branch)
          /\ TreesOf(branch)' = TreesOf(branch) /\ TreesOf(dhist)' = TreesOf(dhist)
      BY <2>1 DEF TreeOf, TreesOf
    <3>3. Free(job[s].paths)' <=> Free(job[s].paths)
      BY <2>1, <3>2 DEF Free
    <3>4. Filter(branch, job[s].paths)' = Filter(branch, job[s].paths)
      BY <2>1, Zenon DEF Filter, FilterCommit, TreeOf, FoldLeft, MapThenFoldSet
    <3>5. \A S : Without(TreeOf(branch)', S) = Without(TreeOf(branch), S)
      BY <3>2
    <3> QED BY <2>1, <3>1, <3>2, <3>3, <3>4, <3>5 DEF SettledAt
  <2> QED BY <2>2 DEF Settled
<1> QED BY <1>1, <1>2 DEF Next

\* There is nothing to bring back from an empty lake.
LEMMA InitSettled == Init => Settled
<1> SUFFICES ASSUME Init, NEW s \in Slots PROVE SettledAt(s)
  BY DEF Settled
<1>1. pc[s] = "idle" /\ index = Empty /\ undo = {} /\ ~backup /\ branch = <<>>
  BY DEF Init
<1>2. TreeOf(branch) = Empty
  BY <1>1 DEF TreeOf
<1> QED BY <1>1, <1>2 DEF SettledAt, Moved

\* What was removed permanently is in no commit, file or index, and git has
\* nothing to bring it back from, whatever the history: as long as one tool
\* runs at a time, none is killed and something else is left in the lake.
THEOREM PermanentIsGone ==
  ASSUME OneTool, ~MayCrash, ~Wipes
  PROVE  Spec => []PermanentMeansGone
<1>1. Alone /\ Settled => PermanentMeansGone
  <2> SUFFICES ASSUME Settled, NEW s \in Slots, lake = "repo",
                      pc[s] \in {"done", "purged"}, job[s].op = "purge",
                      NEW tree \in TreesOf(branch) \cup undo \cup {index, work},
                      NEW p \in job[s].paths
               PROVE  tree[p] = Absent
    BY DEF PermanentMeansGone
  <2>1. undo = {} /\ Free(job[s].paths)
    BY DEF Settled, SettledAt
  <2> QED BY <2>1 DEF Free
<1>2. Sound /\ Alone /\ [Next]_vars => Alone'
  BY NextAlone
<1>3. Sound /\ Alone /\ Settled /\ [Next]_vars => Settled'
  BY NextSettled
<1> QED BY <1>1, <1>2, <1>3, InitSound, InitAlone, InitSettled, NextSound, PTL DEF Spec

-------------------------------------------------------------------------------
(* The promise.                                                            *)

\* What a tool asks for is a request, or none.
LEMMA WishOf ==
  ASSUME Sound, NEW j \in Jobs \cup {NoJob}
  PROVE  /\ Wish(j) \in Promise!Requests \cup {Promise!NoRequest}
         /\ j.op = "insert" =>
              Wish(j) = [do |-> "put", path |-> j.path, content |-> j.content]
         /\ j.op \in {"remove", "purge"} => Wish(j) = [do |-> j.op, paths |-> j.paths]
         /\ j.op = "initialize" => Wish(j) = [do |-> "purge", paths |-> Paths]
         /\ j.op \in {"none", "list"} => Wish(j) = Promise!NoRequest
<1> USE DEF Wish, Promise!Requests, Promise!NoRequest
<1>1. CASE j = NoJob
  <2>1. j.op = "none"
    BY <1>1 DEF NoJob
  <2> QED BY <2>1
<1>2. CASE j \in {[op |-> "initialize"]}
  <2>1. j.op = "initialize"
    BY <1>2
  <2> QED BY <2>1
<1>3. CASE j \in [op : {"insert"}, path : Paths, content : Contents, tool : Tools]
  <2>1. j.op = "insert" /\ j.path \in Paths /\ j.content \in Contents
    BY <1>3
  <2> QED BY <2>1
<1>4. CASE j \in [op : {"remove", "purge"}, paths : Targets \ {{}}]
  <2>1. j.op \in {"remove", "purge"} /\ j.paths \in SUBSET Paths
    BY <1>4 DEF Targets
  <2> QED BY <2>1
<1>5. CASE j \in [op : {"list"}, before : 0..Infinity, given : BOOLEAN]
  <2>1. j.op = "list"
    BY <1>5
  <2> QED BY <2>1
<1> QED BY <1>1, <1>2, <1>3, <1>4, <1>5 DEF Jobs, ListJobs

\* A tool asks once, when it starts, and never changes what it asks for.
LEMMA AsksOnce ==
  ASSUME Sound, NEW s \in Slots, Step(s)
  PROVE  \/ Asked(s)' = Asked(s)
         \/ Asked(s)' = Promise!NoRequest
         \/ Asked(s) = Promise!NoRequest /\ Asked(s)' \in Promise!Requests
<1> DEFINE Waits == {"start", "add", "commit"}
<1>1. /\ Asked(s)' = IF pc'[s] \in Waits THEN Wish(job'[s]) ELSE Wish(NoJob)
      /\ Asked(s) = IF pc[s] \in Waits THEN Wish(job[s]) ELSE Wish(NoJob)
  BY DEF Asked, Wish
<1>2. Wish(NoJob) = Promise!NoRequest
  <2>1. NoJob.op = "none"
    BY DEF NoJob
  <2> QED BY <2>1, WishOf
<1>3. CASE Start(s)
  <2>1. pc[s] = "idle" /\ job'[s] \in Jobs
    BY <1>3 DEF Start, Sound, TypeOK
  <2>2. Wish(job'[s]) \in Promise!Requests \cup {Promise!NoRequest}
    BY <2>1, WishOf
  <2> QED BY <1>1, <1>2, <2>1, <2>2
<1>4. CASE Copy(s) \/ GitAdd(s) \/ GitRm(s)
  <2>1. job' = job /\ pc[s] \in Waits
    BY <1>4 DEF Copy, GitAdd, GitRm, At
  <2> QED BY <1>1, <1>2, <2>1
<1>5. CASE ~(Start(s) \/ Copy(s) \/ GitAdd(s) \/ GitRm(s))
  <2>1. \E l \in Labels \ Waits : Go(s, l)
    BY <1>5 DEF Labels, Step, Finish, RemoveLake, UserDeclines, CreateLake, GitInit, CopyFails,
       GitCommit, FilterBranch, DeleteBackup, Gc, ShowCurrent, AlignRepo, Walk, ReadLog,
       Restore, LockHeld, Crash
  <2>2. pc'[s] \notin Waits
    BY <2>1, GoneTo
  <2> QED BY <1>1, <1>2, <2>2
<1> QED BY <1>3, <1>4, <1>5

\* Every command is one step of the abstract lake, or none.
LEMMA StepPromised ==
  ASSUME OneTool, ~MayCrash, ~Wipes, Sound, Alone, Settled, NEW s \in Slots, Step(s)
  PROVE  [Promise!LakeNext]_Promise!lakeVars
<1> DEFINE asOf == [t \in 0..MaxTime |-> AsOf(t)]
           request == [r \in Slots |-> Asked(r)]
<1>1. clock' = clock /\ branch \in Histories /\ Ordered(branch) /\ Until(branch, clock)
      /\ clock \in Nat /\ MaxTime \in Nat
  <2>1. clock' = clock
    BY DEF Step, Start, Finish, RemoveLake, UserDeclines, CreateLake, GitInit,
       Copy, CopyFails, GitAdd, GitCommit, GitRm, FilterBranch, DeleteBackup, Gc,
       ShowCurrent, AlignRepo, Walk, ReadLog, Restore, LockHeld, Crash
  <2> QED BY <2>1, LakeAssumption DEF Sound, TypeOK, Timed, InOrder
<1>2. \A t : AsOf(t)' = AsOfIn(branch', t) /\ AsOf(t) = AsOfIn(branch, t)
  BY DEF AsOf, AsOfIn, Newest
<1>3. /\ request[s] = Asked(s) /\ request' = [r \in Slots |-> Asked(r)']
      /\ request' = [request EXCEPT ![s] = Asked(s)']
      /\ \A r \in Slots : r = s
  BY DEF OneTool
<1>4. job[s] \in Jobs \cup {NoJob}
  BY DEF Sound, TypeOK
<1>5. CASE branch' = branch
  <2>1. asOf' = asOf
    BY <1>2, <1>5
  <2>2. CASE Asked(s)' = Asked(s)
    <3>1. request' = request
      BY <1>3, <2>2
    <3> QED BY <1>1, <2>1, <3>1 DEF Promise!lakeVars
  <2>3. CASE Asked(s)' = Promise!NoRequest /\ Asked(s) # Promise!NoRequest
    <3>1. Promise!Drop(s)
      BY <1>1, <1>3, <2>1, <2>3 DEF Promise!Drop, Promise!Answered
    <3> QED BY <3>1 DEF Promise!LakeNext
  <2>4. CASE Asked(s) = Promise!NoRequest /\ Asked(s)' \in Promise!Requests
    <3>1. Promise!Ask(s)
      BY <1>1, <1>3, <2>1, <2>4 DEF Promise!Ask
    <3> QED BY <3>1 DEF Promise!LakeNext
  <2> QED BY <2>2, <2>3, <2>4, AsksOnce
<1>6. ASSUME Asked(s)' = Promise!NoRequest
      PROVE  Promise!Answered(s)
  BY <1>1, <1>3, <1>6 DEF Promise!Answered
<1>7. ASSUME NEW S \in SUBSET Paths, Asked(s) = [do |-> "purge", paths |-> S],
             Asked(s)' = Promise!NoRequest,
             \A t \in 0..MaxTime : AsOf(t)' = Without(AsOf(t), S)
      PROVE  Promise!LakeNext
  <2>1. asOf' = [t \in Promise!Times |-> Promise!Set(asOf[t], S, Absent)]
    BY <1>7 DEF Promise!Times, Promise!Set, Without
  <2>2. request[s].do = "purge" /\ request[s].paths = S
    BY <1>3, <1>7
  <2>3. Promise!Purge(s)
    BY <1>6, <1>7, <2>1, <2>2 DEF Promise!Purge
  <2> QED BY <2>3 DEF Promise!LakeNext
<1>8. /\ pc[s] \in {"start", "add", "commit"} => Asked(s) = Wish(job[s])
      /\ pc'[s] \notin {"start", "add", "commit"} => Asked(s)' = Promise!NoRequest
  <2>1. NoJob.op = "none"
    BY DEF NoJob
  <2>2. Wish(NoJob) = Promise!NoRequest
    BY <2>1, WishOf
  <2>3. pc'[s] \notin {"start", "add", "commit"} => Asked(s)' = Wish(NoJob)
    BY DEF Asked, Wish
  <2> QED BY <2>2, <2>3 DEF Asked
<1>9. CASE RemoveLake(s)
  <2>1. branch' = <<>> /\ pc[s] = "start" /\ job[s].op = "initialize" /\ pc'[s] = "create"
    BY <1>9, GoneTo DEF RemoveLake, At
  <2>2. ASSUME NEW t \in 0..MaxTime PROVE AsOf(t)' = Without(AsOf(t), Paths)
    <3>1. AsOfIn(<<>>, t) = Empty
      BY OrderOf, AsOfTip, TreeOfTip
    <3>2. Without(AsOf(t), Paths) = Empty
      BY DEF Without, Empty
    <3> QED BY <1>2, <2>1, <3>1, <3>2
  <2>3. Asked(s) = [do |-> "purge", paths |-> Paths] /\ Asked(s)' = Promise!NoRequest
    BY <1>4, <1>8, <2>1, WishOf
  <2> QED BY <1>7, <2>2, <2>3
<1>10. CASE FilterBranch(s) /\ branch' # branch
  <2>1. /\ At(s, "purge", "start") /\ branch' = Filter(branch, job[s].paths)
        /\ pc'[s] \in {"done", "unref"}
    <3>1. At(s, "purge", "start")
      BY <1>10 DEF FilterBranch
    <3>2. ~UNCHANGED repo
      BY <1>10 DEF repo
    <3> QED BY <1>10, <3>1, <3>2, FilterAlone
  <2>2. job[s].paths \in SUBSET Paths
    BY <2>1, JobOf DEF Sound, At
  <2>3. Filtered(branch', branch, job[s].paths)
    BY <1>1, <2>1, FilterRemoves
  <2>4. \A t \in 0..MaxTime : AsOf(t)' = Without(AsOf(t), job[s].paths)
    BY <1>1, <1>2, <2>3 DEF Filtered
  <2>5. Asked(s) = [do |-> "purge", paths |-> job[s].paths] /\ Asked(s)' = Promise!NoRequest
    BY <1>4, <1>8, <2>1, WishOf DEF At
  <2> QED BY <1>7, <2>2, <2>4, <2>5
<1>11. CASE GitCommit(s) /\ branch' # branch
  <2> DEFINE c == [time |-> clock, tree |-> index, note |-> Note(job[s])]
  <2>1. branch' = Append(branch, c) /\ c \in Commits /\ c.time = clock /\ c.tree = index
    BY <1>11, AloneCommit, CommitOf
  <2>2. ASSUME NEW t \in 0..MaxTime
        PROVE  /\ clock <= t => AsOf(t)' = index /\ AsOf(t) = TreeOf(branch)
               /\ t < clock => AsOf(t)' = AsOf(t)
    <3>1. t \in Nat
      BY <1>1
    <3> HIDE DEF c
    <3>2. /\ clock <= t => AsOfIn(Append(branch, c), t) = index
          /\ t < clock => AsOfIn(Append(branch, c), t) = AsOfIn(branch, t)
      BY <1>1, <2>1, <3>1, AsOfCommit
    <3>3. clock <= t => AsOfIn(branch, t) = TreeOf(branch)
      BY <1>1, <3>1, UntilLater, AsOfTip
    <3> QED BY <1>2, <2>1, <3>2, <3>3
  <2>3. ASSUME NEW S, NEW x, index = Promise!Set(TreeOf(branch), S, x)
        PROVE  Promise!Change(S, x)
    <3>1. \A t \in 0..MaxTime :
            AsOf(t)' = IF t < clock THEN AsOf(t) ELSE Promise!Set(AsOf(t), S, x)
      <4> TAKE t \in 0..MaxTime
      <4>1. t < clock \/ clock <= t
        BY <1>1
      <4>2. ~(t < clock /\ clock <= t)
        BY <1>1
      <4> QED BY <2>2, <2>3, <4>1, <4>2
    <3>2. asOf' = [t \in Promise!Times |->
                     IF t < clock THEN asOf[t] ELSE Promise!Set(asOf[t], S, x)]
      BY <3>1 DEF Promise!Times
    <3> QED BY <1>1, <3>2 DEF Promise!Change
  <2>4. /\ pc[s] = "commit" /\ SettledAt(s) /\ TreeOf(branch) \in Tree
    BY <1>1, <1>11, TreeOfTip DEF GitCommit, Settled
  <2>5. Asked(s) = Wish(job[s]) /\ Promise!Answered(s)
    <3>1. Go(s, "done") \/ Go(s, "inserted")
      BY <1>11 DEF GitCommit
    <3>2. pc'[s] \in {"done", "inserted"}
      BY <3>1, GoneTo
    <3> QED BY <1>6, <1>8, <2>4, <3>2
  <2>6. CASE /\ job[s].op = "insert"
             /\ index = [TreeOf(branch) EXCEPT ![job[s].path] = job[s].content]
    <3>1. job[s].path \in Paths
      BY <2>6, JobOf DEF Sound
    <3>2. index = Promise!Set(TreeOf(branch), {job[s].path}, job[s].content)
      BY <2>4, <2>6, <3>1 DEF Promise!Set, Tree
    <3>3. request[s] = [do |-> "put", path |-> job[s].path, content |-> job[s].content]
      BY <1>3, <1>4, <2>5, <2>6, WishOf
    <3>4. Promise!Change({job[s].path}, job[s].content)
      BY <2>3, <3>2
    <3> HIDE DEF request
    <3>5. Promise!Change({request[s].path}, request[s].content) /\ request[s].do = "put"
      BY <3>3, <3>4
    <3>6. Promise!Put(s)
      BY <2>5, <3>5 DEF Promise!Put, request
    <3> QED BY <3>6 DEF Promise!LakeNext
  <2>7. CASE job[s].op = "remove" /\ index = Without(TreeOf(branch), job[s].paths)
    <3>1. index = Promise!Set(TreeOf(branch), job[s].paths, Absent)
      BY <2>7 DEF Promise!Set, Without
    <3>2. request[s] = [do |-> "remove", paths |-> job[s].paths]
      BY <1>3, <1>4, <2>5, <2>7, WishOf
    <3>3. Promise!Change(job[s].paths, Absent)
      BY <2>3, <3>1
    <3> HIDE DEF request
    <3>4. Promise!Change(request[s].paths, Absent) /\ request[s].do = "remove"
      BY <3>2, <3>3
    <3>5. Promise!Remove(s)
      BY <2>5, <3>4 DEF Promise!Remove, request
    <3> QED BY <3>5 DEF Promise!LakeNext
  <2> QED BY <2>4, <2>6, <2>7 DEF SettledAt
<1>12. CASE ~(RemoveLake(s) \/ FilterBranch(s) \/ GitCommit(s))
  <2>1. branch' = branch
    <3>1. CASE AlignRepo(s) \/ Restore(s)
      BY <3>1, AloneAlign, AloneRestore
    <3>2. CASE ~(AlignRepo(s) \/ Restore(s))
      BY <1>12, <3>2 DEF Step, Start, Finish, UserDeclines, CreateLake, GitInit, Copy,
         CopyFails, GitAdd, GitRm, DeleteBackup, Gc, ShowCurrent, Walk, ReadLog,
         LockHeld, Crash, repo
    <3> QED BY <3>1, <3>2
  <2> QED BY <1>5, <2>1
<1> QED BY <1>5, <1>9, <1>10, <1>11, <1>12

\* The tools implement the abstract lake: nmdl-insert stores the content it
\* was given under the name it was given, nmdl-remove removes what it was told
\* to, from the present or from all times, and none does so twice, or changes
\* anything else a listing of any time shows.
THEOREM LakePromised ==
  ASSUME OneTool, ~MayCrash, ~Wipes
  PROVE  Spec => KeepsPromise
<1>1. Init => Promise!LakeInit
  <2> SUFFICES ASSUME Init PROVE Promise!LakeInit
    OBVIOUS
  <2>1. branch = <<>> /\ clock = 0
    BY DEF Init
  <2>2. ASSUME NEW t PROVE AsOf(t) = Empty
    BY <2>1, OrderOf, AsOfTip, TreeOfTip DEF AsOf
  <2>3. ASSUME NEW s \in Slots PROVE Asked(s) = Promise!NoRequest
    BY DEF Init, Asked, Wish, NoJob, Promise!NoRequest
  <2> QED BY <2>1, <2>2, <2>3 DEF Promise!LakeInit, Promise!Times, Promise!Nothing, Empty
<1>2. Sound /\ Alone /\ Settled /\ [Next]_vars => [Promise!LakeNext]_Promise!lakeVars
  <2> SUFFICES ASSUME Sound, Alone, Settled, [Next]_vars
               PROVE  [Promise!LakeNext]_Promise!lakeVars
    OBVIOUS
  <2>1. CASE \E s \in Slots : Step(s)
    BY <2>1, StepPromised
  <2>2. CASE Tick \/ UNCHANGED vars
    <3>1. UNCHANGED <<branch, pc, job>>
      BY <2>2 DEF Tick, vars, repo
    <3>2. \A t : AsOf(t)' = AsOf(t)
      BY <3>1 DEF AsOf, AsOfIn, Newest
    <3>3. \A s : Asked(s)' = Asked(s)
      BY <3>1 DEF Asked, Wish
    <3>4. \/ clock < MaxTime /\ clock' = clock + 1
          \/ clock' = clock
      BY <2>2 DEF Tick, vars
    <3> QED BY <3>2, <3>3, <3>4 DEF Promise!LakeNext, Promise!Tick, Promise!lakeVars
  <2> QED BY <2>1, <2>2 DEF Next
<1>3. Sound /\ Alone /\ [Next]_vars => Alone'
  BY NextAlone
<1>4. Sound /\ Alone /\ Settled /\ [Next]_vars => Settled'
  BY NextSettled
<1> QED BY <1>1, <1>2, <1>3, <1>4, InitSound, InitAlone, InitSettled, NextSound, PTL
        DEF Spec, KeepsPromise, Promise!LakeSpec
===============================================================================
