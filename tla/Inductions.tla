------------------------------ MODULE Inductions ------------------------------
(***************************************************************************)
(* Induction, stated about sets and functions and so without a predicate   *)
(* as a parameter: what the recursive definitions of SequencesExt compute  *)
(* for every argument, and what it means to go through a finite set of     *)
(* numbers in order.                                                       *)
(***************************************************************************)
EXTENDS Integers, SequencesExt, FiniteSetTheorems, SequenceTheorems,
        WellFoundedInduction, TLAPS

-------------------------------------------------------------------------------
(* Numbers                                                                     *)

\* A set of numbers with 0 and with every successor is the set of them all.
LEMMA NumbersBySteps ==
  ASSUME NEW T \in SUBSET Nat, 0 \in T, \A n \in T : n + 1 \in T
  PROVE  T = Nat
<1> DEFINE R == OpToRel(<, Nat)
<1>1. IsWellFoundedOn(R, Nat)
  BY NatLessThanWellFounded
<1>2. \A i, j \in Nat : i < j => <<i, j>> \in R
  BY DEF OpToRel
<1> SUFFICES ASSUME Nat \ T # {} PROVE FALSE
  OBVIOUS
<1> HIDE DEF R
<1>3. PICK x \in Nat \ T : \A y \in Nat \ T : <<y, x>> \notin R
  BY <1>1, WFMin
<1>4. x # 0 /\ x - 1 \in Nat /\ x - 1 < x
  BY <1>3
<1>5. x - 1 \in T
  BY <1>2, <1>3, <1>4
<1> QED BY <1>3, <1>4, <1>5

\* The same for the numbers from 1 to n.
LEMMA IntervalBySteps ==
  ASSUME NEW n \in Nat, NEW T, n >= 1 => 1 \in T,
         \A k \in 1..(n - 1) : k \in T => k + 1 \in T
  PROVE  1..n \subseteq T
<1> DEFINE U == {k \in Nat : (1 <= k /\ k <= n) => k \in T}
<1>1. 0 \in U /\ U \in SUBSET Nat
  OBVIOUS
<1>2. ASSUME NEW k \in U PROVE k + 1 \in U
  <2>1. CASE k = 0 \/ k + 1 > n
    BY <2>1
  <2>2. CASE k >= 1 /\ k + 1 <= n
    BY <2>2
  <2> QED BY <2>1, <2>2
<1> HIDE DEF U
<1>3. U = Nat
  BY <1>1, <1>2, NumbersBySteps
<1> QED BY <1>3 DEF U

-------------------------------------------------------------------------------
(* FlattenSeq                                                                  *)

\* What FlattenSeq computes on its way: the first k sequences in a row.
Flattens(f, ss) ==
  \A k \in 1..Len(ss) : f[k] = IF k = 1 THEN ss[k] ELSE f[k - 1] \o ss[k]

\* The equation of that function has a solution.
LEMMA FlattenExists ==
  ASSUME NEW S, NEW ss \in Seq(Seq(S))
  PROVE  \E f \in [1..Len(ss) -> Seq(S)] : Flattens(f, ss)
<1> DEFINE n == Len(ss)
           Upto(g, m) == \A k \in 1..m : g[k] = IF k = 1 THEN ss[k] ELSE g[k - 1] \o ss[k]
           Done(m) == \E g \in [1..m -> Seq(S)] : Upto(g, m)
           U == {m \in Nat : m <= n => Done(m)}
<1>1. n \in Nat /\ \A k \in 1..n : ss[k] \in Seq(S)
  BY LenProperties, ElementOfSeq
<1>2. 0 \in U
  <2> DEFINE e == [k \in 1..0 |-> <<>>]
  <2>1. e \in [1..0 -> Seq(S)] /\ Upto(e, 0)
    OBVIOUS
  <2>2. Done(0)
    <3> HIDE DEF e, Upto
    <3> QED BY <2>1
  <2> HIDE DEF Done
  <2> QED BY <2>2
<1>3. ASSUME NEW m \in U PROVE m + 1 \in U
  <2> HIDE DEF Done, n
  <2>0. m \in Nat /\ (m <= n => Done(m))
    OBVIOUS
  <2> SUFFICES ASSUME m + 1 <= n PROVE Done(m + 1)
    BY <2>0
  <2>1. m + 1 \in 1..n /\ Done(m)
    BY <1>1, <2>0
  <2>2. PICK g \in [1..m -> Seq(S)] : Upto(g, m)
    BY <2>1 DEF Done
  <2> DEFINE h == [k \in 1..(m + 1) |-> IF k <= m THEN g[k]
                                        ELSE IF k = 1 THEN ss[k] ELSE g[k - 1] \o ss[k]]
  <2>3. \A s, t \in Seq(S) : s \o t \in Seq(S)
    BY ConcatProperties
  <2>4. /\ \A k \in 1..m : k \in 1..(m + 1) /\ h[k] = g[k] /\ k <= m
        /\ h[m + 1] = IF m + 1 = 1 THEN ss[m + 1] ELSE g[m] \o ss[m + 1]
        /\ \A k \in 1..(m + 1) : k \in 1..m \/ k = m + 1
        /\ m # 0 => m \in 1..m
    <3>1. (m + 1) - 1 = m /\ m + 1 \in 1..(m + 1) /\ ~(m + 1 <= m)
      BY <2>0
    <3>2. h[m + 1] = IF m + 1 = 1 THEN ss[m + 1] ELSE g[m] \o ss[m + 1]
      BY <3>1
    <3>3. \A k \in 1..m : k \in 1..(m + 1) /\ k <= m
      BY <2>0
    <3>4. \A k \in 1..m : h[k] = g[k]
      BY <3>3
    <3> HIDE DEF h
    <3> QED BY <2>0, <3>2, <3>3, <3>4
  <2>5. h \in [1..(m + 1) -> Seq(S)]
    <3>1. h[m + 1] \in Seq(S)
      <4>1. ss[m + 1] \in Seq(S)
        BY <1>1, <2>1
      <4>2. m # 0 => g[m] \in Seq(S)
        BY <2>2, <2>4
      <4>3. m + 1 = 1 <=> m = 0
        BY <2>0
      <4> QED BY <2>3, <2>4, <4>1, <4>2, <4>3
    <3>2. \A k \in 1..(m + 1) : h[k] \in Seq(S)
      BY <2>2, <2>4, <3>1
    <3> QED BY <3>2
  <2>6. Upto(h, m + 1)
    <3> SUFFICES ASSUME NEW k \in 1..(m + 1)
                 PROVE  h[k] = IF k = 1 THEN ss[k] ELSE h[k - 1] \o ss[k]
      OBVIOUS
    <3> HIDE DEF h
    <3>1. CASE k \in 1..m
      <4>1. k # 1 => k - 1 \in 1..m
        BY <2>0, <3>1
      <4> QED BY <2>2, <2>4, <3>1, <4>1
    <3>2. CASE k = m + 1
      <4>1. m # 0 => h[m] = g[m]
        BY <2>0, <2>4
      <4>2. m + 1 = 1 <=> m = 0
        BY <2>0
      <4> QED BY <2>4, <3>2, <4>1, <4>2
    <3> QED BY <2>4, <3>1, <3>2
  <2> HIDE DEF h, Upto
  <2> QED BY <2>5, <2>6 DEF Done
<1>4. U = Nat
  <2> HIDE DEF U
  <2>1. U \in SUBSET Nat
    BY DEF U
  <2> QED BY <1>2, <1>3, <2>1, NumbersBySteps
<1>5. Done(n)
  <2> HIDE DEF Done
  <2> QED BY <1>1, <1>4
<1> QED BY <1>5 DEF Flattens

\* So the function FlattenSeq defines is one.
LEMMA FlattenSolves ==
  ASSUME NEW S, NEW ss \in Seq(Seq(S)), ss # <<>>
  PROVE  \E f \in [1..Len(ss) -> Seq(S)] : Flattens(f, ss) /\ FlattenSeq(ss) = f[Len(ss)]
<1> DEFINE n == Len(ss)
           flatten[i \in 1..n] == IF i = 1 THEN ss[i] ELSE flatten[i - 1] \o ss[i]
<1>1. n \in Nat /\ n # 0
  BY LenProperties, EmptySeq
<1>2. FlattenSeq(ss) = flatten[n]
  BY <1>1, Zenon DEF FlattenSeq
<1>3. PICK f \in [1..n -> Seq(S)] : Flattens(f, ss)
  BY FlattenExists
<1>4. f = [i \in 1..n |-> IF i = 1 THEN ss[i] ELSE f[i - 1] \o ss[i]]
  BY <1>3 DEF Flattens
<1>5. flatten = [i \in 1..n |-> IF i = 1 THEN ss[i] ELSE flatten[i - 1] \o ss[i]]
  <2> HIDE DEF n
  <2> QED BY <1>4, Zenon
<1> HIDE DEF flatten
<1>6. flatten \in [1..n -> Seq(S)] /\ Flattens(flatten, ss)
  <2>1. Flattens(flatten, ss)
    BY <1>5 DEF Flattens
  <2> DEFINE T == {k \in 1..n : flatten[k] \in Seq(S)}
  <2>2. \A k \in 1..n : ss[k] \in Seq(S)
    BY ElementOfSeq
  <2>3. n >= 1 => 1 \in T
    BY <2>1, <2>2 DEF Flattens
  <2>4. ASSUME NEW k \in 1..(n - 1), k \in T PROVE k + 1 \in T
    <3>1. k + 1 \in 1..n /\ k + 1 # 1 /\ (k + 1) - 1 = k
      BY <1>1
    <3>2. flatten[k + 1] = flatten[k] \o ss[k + 1]
      BY <2>1, <3>1 DEF Flattens
    <3>3. flatten[k] \in Seq(S) /\ ss[k + 1] \in Seq(S)
      BY <2>2, <2>4, <3>1
    <3>4. flatten[k + 1] \in Seq(S)
      BY <3>2, <3>3, ConcatProperties
    <3> QED BY <3>1, <3>4
  <2> HIDE DEF T, n
  <2>5. 1..n \subseteq T
    BY <1>1, <2>3, <2>4, IntervalBySteps
  <2>6. \A k \in 1..n : flatten[k] \in Seq(S)
    BY <2>5 DEF T
  <2> QED BY <1>5, <2>1, <2>6
<1> QED BY <1>2, <1>6


-------------------------------------------------------------------------------
(* The greatest element                                                        *)

\* A set of numbers up to n has a greatest element, and Max is it.
LEMMA MaxOf ==
  ASSUME NEW n \in Nat, NEW S \in SUBSET (0..n), S # {}
  PROVE  /\ Max(S) \in S
         /\ \A x \in S : x <= Max(S)
<1> DEFINE T == {m \in Nat : \A R \in SUBSET (0..m) :
                   R # {} => \E x \in R : \A y \in R : x >= y}
<1>1. 0 \in T
  <2>1. ASSUME NEW R \in SUBSET (0..0), R # {}
        PROVE  \E x \in R : \A y \in R : x >= y
    <3>1. PICK x \in R : TRUE
      BY <2>1
    <3>2. \A y \in R : x >= y
      OBVIOUS
    <3> QED BY <3>2
  <2> QED BY <2>1
<1>2. ASSUME NEW m \in T PROVE m + 1 \in T
  <2>1. ASSUME NEW R \in SUBSET (0..(m + 1)), R # {}
        PROVE  \E x \in R : \A y \in R : x >= y
    <3>1. CASE m + 1 \in R
      BY <3>1
    <3>2. CASE m + 1 \notin R
      <4>1. R \in SUBSET (0..m)
        BY <3>2
      <4> QED BY <2>1, <4>1
    <3> QED BY <3>1, <3>2
  <2> QED BY <2>1
<1>3. n \in T
  <2> HIDE DEF T
  <2>1. T \in SUBSET Nat
    BY DEF T
  <2> QED BY <1>1, <1>2, <2>1, NumbersBySteps
<1>4. \E x \in S : \A y \in S : x >= y
  BY <1>3
<1>5. Max(S) \in S /\ \A y \in S : Max(S) >= y
  BY <1>4, Zenon DEF Max
<1> QED BY <1>5
=============================================================================
