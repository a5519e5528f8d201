------------------------------ MODULE NatMin ------------------------------
(***************************************************************************)
(* The smallest element of a set of natural numbers.  lobby.c looks for    *)
(* "the first" slot, lobby and candidate all over; the models say Min.     *)
(* And what is shown with it of the lists the models put together from     *)
(* parts, one part for each pass of a loop (FlattenSeq).                   *)
(***************************************************************************)
EXTENDS Integers, SequencesExt, FiniteSetsExt, FiniteSetTheorems, SequenceTheorems, WellFoundedInduction, TLAPS

\* A set of natural numbers that is not empty has a smallest element, and Min
\* is one: the set's lower segments are finite, so one of them is minimal.
LEMMA MinOfNat ==
    ASSUME NEW S \in SUBSET Nat, S # {}
    PROVE  Min(S) \in S /\ \A i \in S : Min(S) <= i
<1> DEFINE Below(x) == {y \in S : y <= x}
           T == {Below(x) : x \in S}
<1>1. T \subseteq FiniteSubsetsOf(S)
  <2>1. ASSUME NEW x \in S PROVE IsFiniteSet(Below(x))
    <3>1. x \in Nat /\ Below(x) \in SUBSET Nat /\ \A s \in Below(x) : s <= x
      OBVIOUS
    <3>2. QED BY <3>1, FS_BoundedSetOfNaturals
  <2>2. QED BY <2>1 DEF FiniteSubsetsOf
<1>2. T # {}
  OBVIOUS
<1>3. \E A \in T : \A B \in T : <<B, A>> \notin StrictSubsetOrdering(S)
  <2> HIDE DEF T
  <2> QED BY <1>1, <1>2, FS_StrictSubsetOrderingWellFounded, WFMin
<1>4. PICK x \in S : \A y \in S : <<Below(y), Below(x)>> \notin StrictSubsetOrdering(S)
  BY <1>3
<1>5. ASSUME NEW y \in S, y < x PROVE FALSE
  <2>1. x \in Nat /\ y \in Nat /\ S \subseteq Nat
    OBVIOUS
  <2>2. ASSUME NEW z \in Below(y) PROVE z \in Below(x)
    <3>1. z \in S /\ z \in Nat /\ z <= y
      BY <2>1
    <3>2. z <= x
      BY <3>1, <2>1, <1>5
    <3>3. QED BY <3>1, <3>2
  <2>3. x \in Below(x) /\ x \notin Below(y)
    BY <1>5, <2>1
  <2>4. Below(y) \in SUBSET S /\ Below(x) \in SUBSET S
    OBVIOUS
  <2> HIDE DEF Below
  <2>5. QED BY <2>2, <2>3, <2>4, <1>4 DEF StrictSubsetOrdering
<1>6. \A y \in S : x =< y
  BY <1>5
<1> QED BY <1>6 DEF Min

\* A set of natural numbers with an upper bound that is not empty has a largest element,
\* and Max is one: it is where the distance to the bound is smallest.
LEMMA MaxOfNat ==
    ASSUME NEW n \in Nat, NEW S \in SUBSET (0 .. n), S # {}
    PROVE  Max(S) \in S /\ \A i \in S : i <= Max(S)
<1> DEFINE T == {n - x : x \in S}
<1>1. T \in SUBSET Nat /\ T # {}
  OBVIOUS
<1>2. Min(T) \in T /\ \A i \in T : Min(T) <= i
  <2> HIDE DEF T
  <2> QED BY <1>1, MinOfNat
<1>3. PICK x \in S : Min(T) = n - x
  BY <1>2
<1>4. \A y \in S : x >= y
  <2> TAKE y \in S
  <2>1. n - y \in T
    OBVIOUS
  <2>2. n - x <= n - y
    BY <2>1, <1>2, <1>3
  <2> QED BY <2>2
<1>5. Max(S) \in S /\ \A y \in S : Max(S) >= y
  BY <1>4 DEF Max
<1> QED BY <1>5

\* FlattenSeq is defined by recursion over the list; that there is a function that obeys its
\* equation up to any position is shown for the least position where there might be none.
LEMMA Flattened ==
    ASSUME NEW S, NEW seqs, NEW n \in Nat, n # 0, Len(seqs) = n, \A i \in 1 .. n : seqs[i] \in Seq(S)
    PROVE  \E f : /\ f = [i \in 1 .. n |-> IF i = 1 THEN seqs[i] ELSE f[i - 1] \o seqs[i]]
                  /\ FlattenSeq(seqs) = f[n]
<1> DEFINE Fits(f, m) ==
             f \in [1 .. m -> Seq(S)]
             /\ \A i \in 1 .. m : f[i] = IF i = 1 THEN seqs[i] ELSE f[i - 1] \o seqs[i]
           Bad == {m \in 1 .. n : ~ \E f : Fits(f, m)}
<1>1. Bad = {}
  <2> SUFFICES ASSUME Bad # {} PROVE FALSE
    OBVIOUS
  <2> DEFINE m == Min(Bad)
  <2>1. m \in Bad /\ \A k \in Bad : m <= k
    <3>1. Bad \in SUBSET Nat /\ Bad # {}
      OBVIOUS
    <3> HIDE DEF Bad
    <3> QED BY <3>1, MinOfNat
  <2> HIDE DEF m
  <2>2. m \in 1 .. n /\ ~ \E f : Fits(f, m)
    BY <2>1
  <2>3. CASE m = 1
    <3> DEFINE f == [i \in 1 .. 1 |-> seqs[1]]
    <3>1. Fits(f, 1)
      <4>1. f \in [1 .. 1 -> Seq(S)]
        OBVIOUS
      <4>2. \A i \in 1 .. 1 : i = 1 /\ f[i] = seqs[i]
        OBVIOUS
      <4> QED BY <4>1, <4>2
    <3> HIDE DEF Fits, f
    <3> QED BY <3>1, <2>2, <2>3
  <2>4. CASE m # 1
    <3>1. m - 1 \in 1 .. n /\ m - 1 \notin Bad /\ m - 1 \in 1 .. m - 1
      <4>1. m - 1 \in 1 .. n /\ ~(m <= m - 1)
        BY <2>2, <2>4
      <4> HIDE DEF Bad
      <4> QED BY <4>1, <2>1
    <3>2. PICK h : Fits(h, m - 1)
      BY <3>1
    <3> DEFINE x == h[m - 1] \o seqs[m]
               f == [i \in 1 .. m |-> IF i = m THEN x ELSE h[i]]
    <3>3. x \in Seq(S)
      <4>1. h[m - 1] \in Seq(S) /\ seqs[m] \in Seq(S)
        BY <3>1, <3>2, <2>2
      <4> QED BY <4>1, ConcatProperties
    <3> HIDE DEF x
    <3>4. f \in [1 .. m -> Seq(S)]
      <4> SUFFICES ASSUME NEW i \in 1 .. m PROVE (IF i = m THEN x ELSE h[i]) \in Seq(S)
        OBVIOUS
      <4>1. CASE i = m
        BY <4>1, <3>3
      <4>2. CASE i # m
        <5>1. i \in 1 .. m - 1
          BY <4>2, <2>2
        <5> QED BY <5>1, <4>2, <3>2
      <4> QED BY <4>1, <4>2
    <3>5. ASSUME NEW i \in 1 .. m
          PROVE  f[i] = IF i = 1 THEN seqs[i] ELSE f[i - 1] \o seqs[i]
      <4>1. CASE i = m
        <5>1. i # 1 /\ i - 1 \in 1 .. m /\ i - 1 # m
          BY <4>1, <2>2, <2>4
        <5>2. f[i] = x /\ f[i - 1] = h[i - 1]
          BY <5>1, <4>1
        <5> QED BY <5>1, <5>2, <4>1 DEF x
      <4>2. CASE i # m
        <5>1. i \in 1 .. m - 1 /\ f[i] = h[i]
          BY <4>2, <2>2
        <5>2. h[i] = IF i = 1 THEN seqs[i] ELSE h[i - 1] \o seqs[i]
          BY <5>1, <3>2
        <5>3. i # 1 => i - 1 \in 1 .. m /\ i - 1 # m /\ f[i - 1] = h[i - 1]
          BY <5>1, <2>2
        <5> HIDE DEF f
        <5> QED BY <5>1, <5>2, <5>3
      <4> QED BY <4>1, <4>2
    <3>6. Fits(f, m)
      <4> HIDE DEF f
      <4> QED BY <3>4, <3>5
    <3> HIDE DEF Fits, f
    <3> QED BY <3>6, <2>2
  <2> QED BY <2>3, <2>4
<1>2. PICK f : Fits(f, n)
  <2>1. n \in 1 .. n
    OBVIOUS
  <2>2. n \notin Bad
    <3> HIDE DEF Bad
    <3> QED BY <1>1
  <2> HIDE DEF Fits
  <2> QED BY <2>1, <2>2
<1>3. f = [i \in 1 .. n |-> f[i]]
  BY <1>2
<1>4. \A i \in 1 .. n : f[i] = IF i = 1 THEN seqs[i] ELSE f[i - 1] \o seqs[i]
  BY <1>2
<1>5. [i \in 1 .. n |-> f[i]] = [i \in 1 .. n |-> IF i = 1 THEN seqs[i] ELSE f[i - 1] \o seqs[i]]
  BY <1>4
<1>6. f = [i \in 1 .. n |-> IF i = 1 THEN seqs[i] ELSE f[i - 1] \o seqs[i]]
  BY <1>3, <1>5
<1> DEFINE F == CHOOSE g : g = [i \in 1 .. n |-> IF i = 1 THEN seqs[i] ELSE g[i - 1] \o seqs[i]]
<1>7. F = [i \in 1 .. n |-> IF i = 1 THEN seqs[i] ELSE F[i - 1] \o seqs[i]]
  BY <1>6
<1>8. FlattenSeq(seqs) = F[n]
  BY DEF FlattenSeq
<1> HIDE DEF F
<1> QED BY <1>7, <1>8

\* The sequences put together so far, and the whole at the end.
Grown(seqs, n, f) ==
    /\ f = [i \in 1 .. n |-> IF i = 1 THEN seqs[i] ELSE f[i - 1] \o seqs[i]]
    /\ FlattenSeq(seqs) = f[n]

LEMMA FlattenedGrown ==
    ASSUME NEW S, NEW seqs, NEW n \in Nat, n # 0, Len(seqs) = n, \A i \in 1 .. n : seqs[i] \in Seq(S)
    PROVE  \E f : Grown(seqs, n, f)
BY Flattened DEF Grown

\* out is what is left of a list when it is gone through once and the places in K are kept.
Picks(list, K, out, m) ==
    /\ m \in [1 .. Len(out) -> K]
    /\ \A j, k \in 1 .. Len(out) : j < k => m[j] < m[k]
    /\ \A j \in 1 .. Len(out) : out[j] = list[m[j]]
    /\ \A i \in K : \E j \in 1 .. Len(out) : m[j] = i

\* The next place is kept.
LEMMA PickedNext ==
    ASSUME NEW S, NEW list \in Seq(S), NEW i \in 1 .. Len(list), NEW K \in SUBSET (1 .. i - 1),
           NEW out \in Seq(S), NEW m, Picks(list, K, out, m)
    PROVE  out \o <<list[i]>> \in Seq(S) /\ \E q : Picks(list, K \cup {i}, out \o <<list[i]>>, q)
<1> DEFINE n == Len(out)
           new == out \o <<list[i]>>
           q == [j \in 1 .. n + 1 |-> IF j = n + 1 THEN i ELSE m[j]]
<1>1. /\ n \in Nat /\ list[i] \in S /\ i \in Nat
      /\ new \in Seq(S) /\ Len(new) = n + 1 /\ new[n + 1] = list[i] /\ \A j \in 1 .. n : new[j] = out[j]
  OBVIOUS
<1>2. /\ m \in [1 .. n -> K] /\ \A j, k \in 1 .. n : j < k => m[j] < m[k]
      /\ \A j \in 1 .. n : out[j] = list[m[j]]
      /\ \A x \in K : \E j \in 1 .. n : m[j] = x
  BY DEF Picks
<1> HIDE DEF n, new
<1>3. q[n + 1] = i /\ n + 1 \in 1 .. n + 1 /\ \A j \in 1 .. n : q[j] = m[j] /\ j \in 1 .. n + 1 /\ q[j] \in K
  BY <1>1, <1>2
<1>4. q \in [1 .. n + 1 -> K \cup {i}]
  BY <1>1, <1>2
<1> HIDE DEF q
<1>5. \A j \in 1 .. n + 1 : j = n + 1 \/ j \in 1 .. n
  BY <1>1
<1>6. \A x \in K : x \in Nat /\ x < i
  BY <1>1
<1>7. ASSUME NEW j \in 1 .. n + 1, NEW k \in 1 .. n + 1, j < k PROVE q[j] < q[k]
  <2>1. j \in 1 .. n
    BY <1>1, <1>7
  <2>2. CASE k = n + 1
    BY <2>1, <2>2, <1>3, <1>6
  <2>3. CASE k \in 1 .. n
    BY <2>1, <2>3, <1>2, <1>3, <1>7
  <2> QED BY <2>2, <2>3, <1>5
<1>8. ASSUME NEW j \in 1 .. n + 1 PROVE new[j] = list[q[j]]
  BY <1>1, <1>2, <1>3, <1>5
<1>9. ASSUME NEW x \in K \cup {i} PROVE \E j \in 1 .. n + 1 : q[j] = x
  BY <1>2, <1>3
<1>10. Picks(list, K \cup {i}, new, q)
  BY <1>1, <1>4, <1>7, <1>8, <1>9 DEF Picks
<1> QED BY <1>1, <1>10 DEF new

\* A list whose places are gone through one after another and kept or left out.
LEMMA PickedOf ==
    ASSUME NEW S, NEW list \in Seq(S), NEW K \in SUBSET DOMAIN list, NEW seqs,
           DOMAIN seqs = DOMAIN list, Len(seqs) = Len(list), Len(list) = 0 => seqs = <<>>,
           \A i \in DOMAIN list : seqs[i] = IF i \in K THEN <<list[i]>> ELSE <<>>
    PROVE  FlattenSeq(seqs) \in Seq(S) /\ \E m : Picks(list, K, FlattenSeq(seqs), m)
<1> DEFINE n == Len(list)
<1>1. n \in Nat /\ DOMAIN list = 1 .. n /\ DOMAIN seqs = 1 .. n /\ Len(seqs) = n
      /\ (n = 0 => seqs = <<>>) /\ K \in SUBSET (1 .. n)
  OBVIOUS
<1>2. \A i \in 1 .. n : seqs[i] = IF i \in K THEN <<list[i]>> ELSE <<>>
  BY <1>1
<1>3. \A i \in 1 .. n : seqs[i] \in Seq(S)
  <2> SUFFICES ASSUME NEW i \in 1 .. n PROVE seqs[i] \in Seq(S)
    OBVIOUS
  <2>1. <<list[i]>> \in Seq(S)
    BY <1>1
  <2>2. <<>> \in Seq(S)
    OBVIOUS
  <2> QED BY <2>1, <2>2, <1>2
<1> HIDE DEF n
<1>4. \E m : Picks(list, {}, <<>>, m)
  <2>1. <<>> \in [1 .. Len(<<>>) -> {}]
    OBVIOUS
  <2> QED BY <2>1 DEF Picks
<1>5. CASE n = 0
  <2>1. FlattenSeq(seqs) = <<>> /\ K = {}
    BY <1>1, <1>5 DEF FlattenSeq
  <2> QED BY <2>1, <1>4
<1>6. CASE n # 0
  <2>1. PICK F : Grown(seqs, n, F)
    <3>1. n \in Nat /\ n # 0 /\ Len(seqs) = n
      BY <1>1, <1>6
    <3> QED BY <3>1, <1>3, FlattenedGrown
  <2> DEFINE Upto(i) == K \cap (1 .. i)
             Good(i, out) == out \in Seq(S) /\ \E m : Picks(list, Upto(i), out, m)
             Bad == {i \in 1 .. n : ~Good(i, F[i])}
  <2>2. ASSUME NEW i \in 1 .. n, NEW out, Good(i - 1, out) PROVE Good(i, out \o seqs[i])
    <3>1. PICK m : Picks(list, Upto(i - 1), out, m)
      BY <2>2
    <3>2. out \in Seq(S) /\ Upto(i - 1) \in SUBSET (1 .. i - 1) /\ i \in 1 .. Len(list)
      BY <2>2, <1>1 DEF n
    <3>3. CASE i \in K
      <4>1. Upto(i) = Upto(i - 1) \cup {i}
        BY <3>3, <1>1
      <4>2. /\ out \o <<list[i]>> \in Seq(S)
            /\ \E q : Picks(list, Upto(i - 1) \cup {i}, out \o <<list[i]>>, q)
        <5> HIDE DEF Upto
        <5> QED BY <3>1, <3>2, PickedNext
      <4>3. seqs[i] = <<list[i]>>
        BY <1>2, <3>3
      <4> HIDE DEF Upto
      <4> QED BY <4>1, <4>2, <4>3
    <3>4. CASE i \notin K
      <4>1. Upto(i) = Upto(i - 1)
        BY <3>4, <1>1
      <4>2. out \o <<>> = out /\ seqs[i] = <<>>
        BY <3>2, <3>4, <1>2, ConcatEmptySeq
      <4> HIDE DEF Upto
      <4> QED BY <4>1, <4>2, <3>1, <3>2
    <3> QED BY <3>3, <3>4
  <2>3. ASSUME NEW out, out \in Seq(S) PROVE <<>> \o out = out
    BY <2>3, ConcatEmptySeq
  <2>4. Good(0, <<>>)
    <3>1. Upto(0) = {} /\ <<>> \in Seq(S)
      OBVIOUS
    <3> HIDE DEF Upto
    <3> QED BY <3>1, <1>4
  <2>5. Bad = {}
    <3> SUFFICES ASSUME Bad # {} PROVE FALSE
      OBVIOUS
    <3> DEFINE k == Min(Bad)
    <3>1. k \in Bad /\ \A j \in Bad : k <= j
      <4>1. Bad \in SUBSET Nat
        <5> HIDE DEF Good
        <5> QED BY <1>1
      <4> HIDE DEF Bad
      <4> QED BY <4>1, MinOfNat
    <3> HIDE DEF k
    <3>2. k \in 1 .. n /\ ~Good(k, F[k])
      <4> HIDE DEF Good
      <4> QED BY <3>1
    <3>3. F[k] = IF k = 1 THEN seqs[k] ELSE F[k - 1] \o seqs[k]
      BY <2>1, <3>2 DEF Grown
    <3>4. CASE k = 1
      <4>1. F[k] = <<>> \o seqs[k]
        BY <2>3, <3>2, <3>3, <3>4, <1>3
      <4>2. k - 1 = 0
        BY <3>4
      <4> HIDE DEF Good
      <4> QED BY <4>1, <4>2, <2>2, <2>4, <3>2
    <3>5. CASE k # 1
      <4>1. k - 1 \in 1 .. n /\ ~(k <= k - 1)
        <5> HIDE DEF Good
        <5> QED BY <3>2, <3>5, <1>1
      <4>2. Good(k - 1, F[k - 1])
        <5> HIDE DEF Good
        <5> QED BY <4>1, <3>1
      <4> HIDE DEF Good
      <4> QED BY <4>2, <2>2, <3>2, <3>3, <3>5
    <3> QED BY <3>4, <3>5
  <2>6. n \in 1 .. n /\ n \notin Bad
    <3>1. n \in 1 .. n
      BY <1>1, <1>6
    <3> HIDE DEF Bad
    <3> QED BY <3>1, <2>5
  <2>7. Good(n, F[n])
    <3> HIDE DEF Good
    <3> QED BY <2>6
  <2>8. Upto(n) = K
    BY <1>1
  <2> HIDE DEF Upto
  <2>9. FlattenSeq(seqs) = F[n]
    BY <2>1 DEF Grown
  <2> QED BY <2>9, <2>7, <2>8
<1> QED BY <1>5, <1>6

LEMMA Picked ==
    ASSUME NEW S, NEW list \in Seq(S), NEW K \in SUBSET DOMAIN list, NEW seqs,
           seqs = [i \in DOMAIN list |-> IF i \in K THEN <<list[i]>> ELSE <<>>]
    PROVE  FlattenSeq(seqs) \in Seq(S) /\ \E m : Picks(list, K, FlattenSeq(seqs), m)
<1>1. /\ DOMAIN seqs = DOMAIN list /\ Len(seqs) = Len(list) /\ (Len(list) = 0 => seqs = <<>>)
      /\ \A i \in DOMAIN list : seqs[i] = IF i \in K THEN <<list[i]>> ELSE <<>>
  OBVIOUS
<1> QED BY <1>1, PickedOf

\* What is left has the elements that are kept.
LEMMA PickedSet ==
    ASSUME NEW S, NEW list \in Seq(S), NEW K \in SUBSET DOMAIN list, NEW out \in Seq(S), NEW m,
           Picks(list, K, out, m)
    PROVE  ToSet(out) = {list[i] : i \in K}
<1>1. DOMAIN out = 1 .. Len(out)
  OBVIOUS
<1> QED BY <1>1 DEF Picks, ToSet

\* A sequence is the function from its places.
LEMMA PlacesMakeSeq == ASSUME NEW S, NEW n \in Nat, NEW f \in [1 .. n -> S] PROVE f \in Seq(S) /\ Len(f) = n
<1>1. f \in Seq(S)
  BY SeqDef
<1>2. DOMAIN f = 1 .. n /\ DOMAIN f = 1 .. Len(f) /\ Len(f) \in Nat
  BY <1>1, LenProperties
<1> DEFINE m == Len(f)
<1>3. m \in Nat /\ 1 .. n = 1 .. m
  BY <1>2
<1> HIDE DEF m
<1>4. m = n
  BY <1>3
<1> QED BY <1>1, <1>4 DEF m

=============================================================================
