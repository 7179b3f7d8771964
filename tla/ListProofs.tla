------------------------------ MODULE ListProofs ------------------------------
(***************************************************************************)
(* Induction on the naturals, and recursive functions on 0..n, in first-   *)
(* order form: a property is a set, and a step of the recursion is a       *)
(* function. Then lemmas on the operators of Lists.                        *)
(***************************************************************************)
EXTENDS Lists, FiniteSetTheorems, TLAPS

(***************************************************************************)
(* Every non-empty set of naturals has a least element, from the well-     *)
(* foundedness of the finite sets 1..n.                                    *)
(***************************************************************************)
LEMMA Least ==
  ASSUME NEW T \in SUBSET Nat, T # {}
  PROVE  \E n \in T : \A m \in T : n <= m
<1>. DEFINE Below == {1..n : n \in T}
            R == StrictSubsetOrdering(Nat)
<1>1. Below # {} /\ Below \subseteq FiniteSubsetsOf(Nat)
  <2>1. \A n \in T : IsFiniteSet(1..n) /\ 1..n \in SUBSET Nat
    BY FS_Interval
  <2>. QED
    BY <2>1 DEF FiniteSubsetsOf
<1>2. IsWellFoundedOn(R, FiniteSubsetsOf(Nat))
  BY FS_StrictSubsetOrderingWellFounded
<1>3. \E x \in Below : \A y \in Below : ~ (<<y, x>> \in R)
  <2>. HIDE DEF R, Below
  <2>. QED
    BY <1>1, <1>2, WFMin
<1>4. PICK n \in T : \A m \in T : ~ (<<1..m, 1..n>> \in R)
  BY <1>3
<1>5. ASSUME NEW m \in T PROVE n <= m
  <2>1. SUFFICES ASSUME m < n PROVE FALSE
    OBVIOUS
  <2>2. \A U, V : <<U, V>> \in R <=> U \in SUBSET Nat /\ V \in SUBSET Nat /\ U \subseteq V /\ U # V
    BY DEF StrictSubsetOrdering
  <2>3. 1..m \in SUBSET Nat /\ 1..n \in SUBSET Nat /\ 1..m \subseteq 1..n
    BY <2>1
  <2>4. n \in 1..n /\ n \notin 1..m
    BY <2>1
  <2>. HIDE DEF R
  <2>5. <<1..m, 1..n>> \in R
    BY <2>2, <2>3, <2>4
  <2>. QED
    BY <1>4, <2>5
<1>. QED
  BY <1>5

LEMMA InductionOn ==
  ASSUME NEW S \in SUBSET Nat, 0 \in S, \A n \in S : n + 1 \in S
  PROVE  S = Nat
<1>1. SUFFICES ASSUME Nat \ S # {} PROVE FALSE
  OBVIOUS
<1>2. PICK n \in Nat \ S : \A m \in Nat \ S : n <= m
  <2>1. Nat \ S \in SUBSET Nat
    OBVIOUS
  <2>. QED
    BY <1>1, <2>1, Least
<1>3. n # 0 /\ n - 1 \in Nat /\ n - 1 < n
  BY <1>2
<1>4. n - 1 \in S
  BY <1>2, <1>3
<1>. QED
  BY <1>2, <1>3, <1>4

\* Up to a bound.
LEMMA InductionUpTo ==
  ASSUME NEW n \in Nat, NEW S, 0 \in S, \A i \in 1..n : i - 1 \in S => i \in S
  PROVE  0..n \subseteq S
<1>. DEFINE T == {i \in Nat : i <= n => i \in S}
<1>1. T \in SUBSET Nat /\ 0 \in T
  OBVIOUS
<1>2. ASSUME NEW i \in T PROVE i + 1 \in T
  <2>1. CASE i + 1 <= n
    <3>1. i \in S /\ i + 1 \in 1..n /\ (i + 1) - 1 = i
      BY <2>1
    <3>. QED
      BY <3>1
  <2>. QED
    BY <2>1
<1>3. T = Nat
  <2>. HIDE DEF T
  <2>. QED
    BY <1>1, <1>2, InductionOn
<1>. QED
  BY <1>3

(***************************************************************************)
(* A recursion on 0..n has a solution: step[i][v] is the value at i when   *)
(* v is the value at i - 1.                                                *)
(***************************************************************************)
Solves(f, n, V, first, step) ==
  f \in [0..n -> V] /\ f[0] = first /\ \A i \in 1..n : f[i] = step[i][f[i - 1]]

LEMMA RecursionExists ==
  ASSUME NEW n \in Nat, NEW V, NEW first \in V, NEW step \in [1..n -> [V -> V]]
  PROVE  \E f : Solves(f, n, V, first, step)
<1>. DEFINE Solved == {k \in Nat : \E f \in [0..k -> V] : f[0] = first /\ \A i \in 1..k : f[i] = step[i][f[i - 1]]}
<1>1. 0 \in Solved
  <2>. DEFINE f == [i \in 0..0 |-> first]
  <2>1. f \in [0..0 -> V] /\ f[0] = first /\ \A i \in 1..0 : f[i] = step[i][f[i - 1]]
    OBVIOUS
  <2>. QED
    BY <2>1
<1>2. ASSUME NEW k \in 1..n, k - 1 \in Solved PROVE k \in Solved
  <2>0. k \in Nat /\ k - 1 \in Nat /\ k - 1 \in 0..(k - 1) /\ 0 \in 0..(k - 1) /\ k # 0
    OBVIOUS
  <2>1. PICK f \in [0..(k - 1) -> V] : f[0] = first /\ \A i \in 1..(k - 1) : f[i] = step[i][f[i - 1]]
    BY <1>2
  <2>. DEFINE g == [i \in 0..k |-> IF i = k THEN step[k][f[k - 1]] ELSE f[i]]
  <2>2. f[k - 1] \in V /\ step[k][f[k - 1]] \in V
    BY <2>0
  <2>3. g \in [0..k -> V] /\ g[0] = first
    BY <2>0, <2>1, <2>2
  <2>4. ASSUME NEW i \in 1..k PROVE g[i] = step[i][g[i - 1]]
    <3>1. i - 1 \in 0..(k - 1) /\ i - 1 # k /\ i - 1 \in 0..k /\ i \in 0..k /\ (i # k => i \in 1..(k - 1))
      BY <2>0
    <3>2. g[i - 1] = f[i - 1]
      BY <3>1
    <3>. QED
      BY <2>1, <3>1, <3>2
  <2>. QED
    BY <2>0, <2>3, <2>4
<1>3. n \in Solved
  <2>. HIDE DEF Solved
  <2>1. 0..n \subseteq Solved
    BY <1>1, <1>2, InductionUpTo
  <2>. QED
    BY <2>1
<1>4. PICK f \in [0..n -> V] : f[0] = first /\ \A i \in 1..n : f[i] = step[i][f[i - 1]]
  BY <1>3
<1>5. Solves(f, n, V, first, step)
  BY <1>4 DEF Solves
<1>. QED
  BY <1>5

(***************************************************************************)
(* Lists.                                                                  *)
(***************************************************************************)
\* What the recursion gives at each index.
LEMMA KeptIs ==
  ASSUME NEW T, NEW list \in Seq(T), NEW S
  PROVE  \E kept : /\ Kept(list, S) = kept[Len(list)]
                   /\ kept[0] = <<>>
                   /\ \A i \in 1..Len(list) :
                        kept[i] = IF list[i] \in S THEN Append(kept[i - 1], list[i]) ELSE kept[i - 1]
<1>. DEFINE n == Len(list)
            V == Seq(T \intersect S)
            step == [i \in 1..n |-> [v \in V |-> IF list[i] \in S THEN Append(v, list[i]) ELSE v]]
            Eq(f) == f = [i \in 0..n |-> IF i = 0 THEN <<>>
                                        ELSE IF list[i] \in S THEN Append(f[i - 1], list[i]) ELSE f[i - 1]]
            kept == CHOOSE f : Eq(f)
<1>1. n \in Nat /\ <<>> \in V /\ \A i \in 1..n : list[i] \in T
  OBVIOUS
<1>2. step \in [1..n -> [V -> V]]
  <2>1. \A i \in 1..n : list[i] \in S => list[i] \in T \intersect S
    OBVIOUS
  <2>2. \A i \in 1..n : \A v \in V : list[i] \in S => Append(v, list[i]) \in V
    BY <2>1
  <2>. HIDE DEF V
  <2>. QED
    BY <2>2
<1>3. \A i \in 1..n : i - 1 \in 0..n /\ i \in 0..n /\ i # 0
  BY <1>1
<1>4. \E f : Eq(f)
  <2>1. PICK f \in [0..n -> V] : f[0] = <<>> /\ \A i \in 1..n : f[i] = step[i][f[i - 1]]
    <3>1. \E f : Solves(f, n, V, <<>>, step)
      <4>. HIDE DEF step, V, n
      <4>. QED
        BY <1>1, <1>2, RecursionExists
    <3>. HIDE DEF step, V, n
    <3>. QED
      BY <3>1 DEF Solves
  <2>2. \A i \in 1..n : f[i] = IF list[i] \in S THEN Append(f[i - 1], list[i]) ELSE f[i - 1]
    <3>. HIDE DEF V, n
    <3>1. \A i \in 1..n : f[i - 1] \in V
      BY <1>3
    <3>. QED
      BY <2>1, <3>1
  <2>3. Eq(f)
    <3>. HIDE DEF V, step
    <3>1. \A i \in 0..n : i # 0 => i \in 1..n
      BY <1>1
    <3>2. f = [i \in 0..n |-> f[i]]
      OBVIOUS
    <3>. HIDE DEF n
    <3>. QED
      BY <2>1, <2>2, <3>1, <3>2
  <2>. QED
    BY <2>3
<1>5. Eq(kept)
  <2>. HIDE DEF Eq
  <2>. QED
    BY <1>4
<1>6. kept[0] = <<>> /\ \A i \in 1..n : kept[i] = IF list[i] \in S THEN Append(kept[i - 1], list[i]) ELSE kept[i - 1]
  <2>1. 0 \in 0..n
    BY <1>1
  <2>. HIDE DEF kept, n
  <2>. QED
    BY <1>3, <1>5, <2>1
<1>7. Kept(list, S) = kept[n]
  BY DEF Kept
<1>. HIDE DEF kept
<1>. QED
  BY <1>6, <1>7

LEMMA KeptType ==
  ASSUME NEW T, NEW list \in Seq(T), NEW S
  PROVE  Kept(list, S) \in Seq(T \intersect S) /\ Len(Kept(list, S)) <= Len(list)
<1>. DEFINE n == Len(list)
            V == Seq(T \intersect S)
<1>1. n \in Nat /\ \A i \in 1..n : list[i] \in T
  OBVIOUS
<1>2. PICK kept : /\ Kept(list, S) = kept[n] /\ kept[0] = <<>>
                  /\ \A i \in 1..n : kept[i] = IF list[i] \in S THEN Append(kept[i - 1], list[i]) ELSE kept[i - 1]
  BY KeptIs
<1>3. \A i \in 0..n : kept[i] \in V /\ Len(kept[i]) <= i
  <2>. DEFINE G == {i \in Nat : kept[i] \in V /\ Len(kept[i]) <= i}
  <2>1. 0 \in G
    <3>1. Len(<<>>) = 0 /\ <<>> \in V
      OBVIOUS
    <3>. HIDE DEF n, V
    <3>. QED
      BY <1>1, <1>2, <3>1
  <2>2. ASSUME NEW i \in 1..n, i - 1 \in G PROVE i \in G
    <3>1. kept[i - 1] \in V /\ Len(kept[i - 1]) <= i - 1 /\ i \in Nat
      BY <2>2
    <3>2. list[i] \in S => list[i] \in T \intersect S
      BY <1>1
    <3>3. kept[i] = IF list[i] \in S THEN Append(kept[i - 1], list[i]) ELSE kept[i - 1]
      BY <1>2
    <3>4. CASE list[i] \in S
      <4>1. kept[i] = Append(kept[i - 1], list[i])
        BY <3>3, <3>4
      <4>2. kept[i] \in V /\ Len(kept[i]) = Len(kept[i - 1]) + 1
        BY <3>1, <3>2, <3>4, <4>1
      <4>. HIDE DEF V, n
      <4>. QED
        BY <3>1, <4>2
    <3>. HIDE DEF n
    <3>. QED
      BY <3>1, <3>3, <3>4
  <2>3. 0..n \subseteq G
    <3>. HIDE DEF G
    <3>. QED
      BY <1>1, <2>1, <2>2, InductionUpTo
  <2>. QED
    BY <2>3
<1>. QED
  BY <1>1, <1>2, <1>3

NoRepeat(s) == \A i, j \in DOMAIN s : s[i] = s[j] => i = j

\* What a test lets through is all there, and once if it was there once.
LEMMA KeptElements ==
  ASSUME NEW T, NEW list \in Seq(T), NEW S
  PROVE  /\ Elements(Kept(list, S)) = Elements(list) \intersect S
         /\ NoRepeat(list) => NoRepeat(Kept(list, S))
<1>. DEFINE n == Len(list)
            V == Seq(T)
            upTo(i) == {list[j] : j \in 1..i}
<1>1. n \in Nat /\ DOMAIN list = 1..n /\ \A i \in 1..n : list[i] \in T
  OBVIOUS
<1>2. PICK kept : /\ Kept(list, S) = kept[n] /\ kept[0] = <<>>
                  /\ \A i \in 1..n : kept[i] = IF list[i] \in S THEN Append(kept[i - 1], list[i]) ELSE kept[i - 1]
  BY KeptIs
<1>3. \A i \in 0..n : /\ kept[i] \in V /\ Elements(kept[i]) = upTo(i) \intersect S
                      /\ NoRepeat(list) => NoRepeat(kept[i])
  <2>. DEFINE G == {i \in Nat : /\ kept[i] \in V /\ Elements(kept[i]) = upTo(i) \intersect S
                                /\ NoRepeat(list) => NoRepeat(kept[i])}
  <2>1. 0 \in G
    <3>1. <<>> \in V /\ Elements(<<>>) = {} /\ NoRepeat(<<>>) /\ upTo(0) = {}
      BY DEF Elements, NoRepeat
    <3>. HIDE DEF n, V, upTo
    <3>. QED
      BY <1>2, <3>1
  <2>2. ASSUME NEW i \in 1..n, i - 1 \in G PROVE i \in G
    <3>1. /\ kept[i - 1] \in V /\ Elements(kept[i - 1]) = upTo(i - 1) \intersect S
          /\ (NoRepeat(list) => NoRepeat(kept[i - 1])) /\ i \in Nat
      BY <2>2
    <3>2. upTo(i) = upTo(i - 1) \union {list[i]}
      <4>1. \A j : j \in 1..i <=> j \in 1..i - 1 \/ j = i
        OBVIOUS
      <4>. QED
        BY <4>1
    <3>3. kept[i] = IF list[i] \in S THEN Append(kept[i - 1], list[i]) ELSE kept[i - 1]
      BY <1>2
    <3>4. CASE list[i] \in S
      <4>. DEFINE k == kept[i - 1]
      <4>1. kept[i] = Append(k, list[i])
        BY <3>3, <3>4
      <4>2. /\ kept[i] \in V /\ Len(kept[i]) = Len(k) + 1 /\ Len(k) \in Nat
            /\ kept[i][Len(k) + 1] = list[i] /\ \A j \in 1..Len(k) : kept[i][j] = k[j]
        BY <1>1, <3>1, <4>1
      <4>3. DOMAIN k = 1..Len(k) /\ DOMAIN kept[i] = 1..Len(k) + 1
        BY <3>1, <4>2
      <4>. HIDE DEF k
      <4>4. \A j : j \in 1..Len(k) + 1 <=> j \in 1..Len(k) \/ j = Len(k) + 1
        BY <4>2
      <4>5. Elements(kept[i]) = Elements(k) \union {list[i]}
        BY <4>2, <4>3, <4>4 DEF Elements
      <4>6. Elements(kept[i]) = upTo(i) \intersect S
        BY <3>1, <3>2, <3>4, <4>5 DEF k
      <4>7. ASSUME NoRepeat(list) PROVE NoRepeat(kept[i])
        <5>1. \A j \in DOMAIN k : k[j] # list[i]
          <6>1. list[i] \notin upTo(i - 1)
            <7>1. \A j \in 1..i - 1 : j \in 1..n /\ j # i
              OBVIOUS
            <7>. QED
              BY <1>1, <4>7, <7>1 DEF NoRepeat
          <6>. QED
            BY <3>1, <6>1 DEF Elements, k
        <5>2. NoRepeat(k)
          BY <3>1, <4>7 DEF k
        <5>. QED
          BY <4>2, <4>3, <4>4, <5>1, <5>2 DEF NoRepeat
      <4>. QED
        BY <3>1, <4>2, <4>6, <4>7
    <3>5. CASE list[i] \notin S
      <4>1. kept[i] = kept[i - 1] /\ upTo(i) \intersect S = upTo(i - 1) \intersect S
        BY <3>2, <3>3, <3>5
      <4>. HIDE DEF upTo, V
      <4>. QED
        BY <3>1, <4>1
    <3>. QED
      BY <3>4, <3>5
  <2>3. 0..n \subseteq G
    <3>. HIDE DEF G
    <3>. QED
      BY <1>1, <2>1, <2>2, InductionUpTo
  <2>. QED
    BY <2>3
<1>4. upTo(n) = Elements(list) /\ n \in 0..n
  BY <1>1 DEF Elements
<1>. QED
  BY <1>2, <1>3, <1>4

\* A loop that appends lists of things makes a list of them.
LEMMA FlatType ==
  ASSUME NEW T, NEW lists \in Seq(Seq(T))
  PROVE  Flat(lists) \in Seq(T)
<1>. DEFINE n == Len(lists)
            V == Seq(T)
            step == [i \in 1..n |-> [v \in V |-> v \o lists[i]]]
            Eq(f) == f = [i \in 0..n |-> IF i = 0 THEN <<>> ELSE f[i - 1] \o lists[i]]
            sum == CHOOSE f : Eq(f)
<1>1. n \in Nat /\ <<>> \in V /\ \A i \in 1..n : lists[i] \in V
  OBVIOUS
<1>2. step \in [1..n -> [V -> V]]
  <2>1. \A i \in 1..n : \A v \in V : v \o lists[i] \in V
    BY <1>1
  <2>. HIDE DEF V
  <2>. QED
    BY <2>1
<1>3. \A i \in 1..n : i - 1 \in 0..n /\ i \in 0..n /\ i # 0
  BY <1>1
<1>4. \E f : Eq(f) /\ \A i \in 0..n : f[i] \in V
  <2>1. PICK f \in [0..n -> V] : f[0] = <<>> /\ \A i \in 1..n : f[i] = step[i][f[i - 1]]
    <3>1. \E f : Solves(f, n, V, <<>>, step)
      <4>. HIDE DEF step, V, n
      <4>. QED
        BY <1>1, <1>2, RecursionExists
    <3>. HIDE DEF step, V, n
    <3>. QED
      BY <3>1 DEF Solves
  <2>2. \A i \in 1..n : f[i] = f[i - 1] \o lists[i]
    <3>. HIDE DEF V, n
    <3>1. \A i \in 1..n : f[i - 1] \in V
      BY <1>3
    <3>. QED
      BY <2>1, <3>1
  <2>3. Eq(f)
    <3>. HIDE DEF V, step
    <3>1. \A i \in 0..n : i # 0 => i \in 1..n
      BY <1>1
    <3>2. f = [i \in 0..n |-> f[i]]
      OBVIOUS
    <3>. HIDE DEF n
    <3>. QED
      BY <2>1, <2>2, <3>1, <3>2
  <2>. QED
    BY <2>3
<1>5. \A g : Eq(g) => g[0] = <<>> /\ \A i \in 1..n : g[i] = g[i - 1] \o lists[i]
  <2>1. 0 \in 0..n
    BY <1>1
  <2>. HIDE DEF n
  <2>. QED
    BY <1>3, <2>1
<1>6. Eq(sum)
  <2>. HIDE DEF Eq
  <2>. QED
    BY <1>4
<1>7. \A i \in 0..n : sum[i] \in V
  <2>. DEFINE G == {i \in Nat : sum[i] \in V}
  <2>. HIDE DEF Eq, sum
  <2>1. sum[0] = <<>> /\ \A i \in 1..n : sum[i] = sum[i - 1] \o lists[i]
    BY <1>5, <1>6
  <2>2. 0 \in G
    BY <1>1, <2>1
  <2>3. ASSUME NEW i \in 1..n, i - 1 \in G PROVE i \in G
    <3>1. sum[i - 1] \in V
      BY <2>3
    <3>2. lists[i] \in V /\ i \in Nat /\ sum[i] = sum[i - 1] \o lists[i]
      <4>. HIDE DEF V, n
      <4>1. lists[i] \in V /\ i \in Nat
        BY <1>1
      <4>. QED
        BY <2>1, <4>1, Zenon
    <3>3. sum[i - 1] \o lists[i] \in V
      BY <3>1, <3>2
    <3>. HIDE DEF V, n
    <3>. QED
      BY <3>2, <3>3
  <2>4. 0..n \subseteq G
    <3>. HIDE DEF G, n
    <3>. QED
      BY <1>1, <2>2, <2>3, InductionUpTo
  <2>. QED
    BY <2>4
<1>8. Flat(lists) = sum[n]
  BY DEF Flat
<1>9. sum[n] \in V
  <2>. HIDE DEF sum, Eq, n, V
  <2>. QED
    BY <1>1, <1>7
<1>. QED
  BY <1>8, <1>9

\* What the loop that adds up has added at each index.
LEMMA TotalIs ==
  ASSUME NEW numbers \in Seq(Nat)
  PROVE  \E f : /\ Total(numbers) = f[Len(numbers)]
                /\ f[0] = 0
                /\ \A i \in 1..Len(numbers) : f[i - 1] \in Nat /\ f[i] \in Nat /\ f[i] = f[i - 1] + numbers[i]
<1>. DEFINE n == Len(numbers)
            V == Nat
            step == [i \in 1..n |-> [v \in V |-> v + numbers[i]]]
            Eq(f) == f = [i \in 0..n |-> IF i = 0 THEN 0 ELSE f[i - 1] + numbers[i]]
            sum == CHOOSE f : Eq(f)
<1>1. n \in Nat /\ 0 \in V /\ \A i \in 1..n : numbers[i] \in V
  OBVIOUS
<1>2. step \in [1..n -> [V -> V]]
  <2>1. \A i \in 1..n : \A v \in V : v + numbers[i] \in V
    BY <1>1
  <2>. HIDE DEF V
  <2>. QED
    BY <2>1
<1>3. \A i \in 1..n : i - 1 \in 0..n /\ i \in 0..n /\ i # 0
  BY <1>1
<1>4. \E f : Eq(f) /\ \A i \in 0..n : f[i] \in V
  <2>1. PICK f \in [0..n -> V] : f[0] = 0 /\ \A i \in 1..n : f[i] = step[i][f[i - 1]]
    <3>1. \E f : Solves(f, n, V, 0, step)
      <4>. HIDE DEF step, V, n
      <4>. QED
        BY <1>1, <1>2, RecursionExists
    <3>. HIDE DEF step, V, n
    <3>. QED
      BY <3>1 DEF Solves
  <2>2. \A i \in 1..n : f[i] = f[i - 1] + numbers[i]
    <3>. HIDE DEF V, n
    <3>1. \A i \in 1..n : f[i - 1] \in V
      BY <1>3
    <3>. QED
      BY <2>1, <3>1
  <2>3. Eq(f)
    <3>. HIDE DEF V, step
    <3>1. \A i \in 0..n : i # 0 => i \in 1..n
      BY <1>1
    <3>2. f = [i \in 0..n |-> f[i]]
      OBVIOUS
    <3>. HIDE DEF n
    <3>. QED
      BY <2>1, <2>2, <3>1, <3>2
  <2>. QED
    BY <2>3
<1>5. \A g : Eq(g) => g[0] = 0 /\ \A i \in 1..n : g[i] = g[i - 1] + numbers[i]
  <2>1. 0 \in 0..n
    BY <1>1
  <2>. HIDE DEF n
  <2>. QED
    BY <1>3, <2>1
<1>6. Eq(sum)
  <2>. HIDE DEF Eq
  <2>. QED
    BY <1>4
<1>7. \A i \in 0..n : sum[i] \in V
  <2>. DEFINE G == {i \in Nat : sum[i] \in V}
  <2>. HIDE DEF Eq, sum
  <2>1. sum[0] = 0 /\ \A i \in 1..n : sum[i] = sum[i - 1] + numbers[i]
    BY <1>5, <1>6
  <2>2. 0 \in G
    BY <1>1, <2>1
  <2>3. ASSUME NEW i \in 1..n, i - 1 \in G PROVE i \in G
    <3>1. sum[i - 1] \in V /\ numbers[i] \in V /\ i \in Nat /\ sum[i] = sum[i - 1] + numbers[i]
      BY <1>1, <2>1, <2>3
    <3>2. sum[i - 1] + numbers[i] \in V
      BY <3>1
    <3>. HIDE DEF V, n
    <3>. QED
      BY <3>1, <3>2
  <2>4. 0..n \subseteq G
    <3>. HIDE DEF G, n
    <3>. QED
      BY <1>1, <2>2, <2>3, InductionUpTo
  <2>. QED
    BY <2>4
<1>8. Total(numbers) = sum[n]
  BY DEF Total
<1>. HIDE DEF sum, Eq
<1>9. sum[0] = 0 /\ \A i \in 1..n : sum[i] = sum[i - 1] + numbers[i]
  BY <1>5, <1>6
<1>10. \A i \in 1..n : sum[i - 1] \in V /\ sum[i] \in V
  BY <1>3, <1>7
<1>. QED
  BY <1>8, <1>9, <1>10

LEMMA TotalType ==
  ASSUME NEW numbers \in Seq(Nat)
  PROVE  Total(numbers) \in Nat
<1>1. PICK f : /\ Total(numbers) = f[Len(numbers)] /\ f[0] = 0
               /\ \A i \in 1..Len(numbers) : f[i - 1] \in Nat /\ f[i] \in Nat /\ f[i] = f[i - 1] + numbers[i]
  BY TotalIs
<1>2. Len(numbers) \in Nat /\ (Len(numbers) = 0 \/ Len(numbers) \in 1..Len(numbers))
  OBVIOUS
<1>. QED
  BY <1>1, <1>2

LEMMA UpTo ==
  ASSUME NEW n \in Nat
  PROVE  IsFiniteSet(1..n) /\ Cardinality(1..n) = n
<1>1. IsFiniteSet(1..n) /\ Cardinality(1..n) = IF 1 > n THEN 0 ELSE n - 1 + 1
  <2>1. 1 \in Int /\ n \in Int
    OBVIOUS
  <2>. QED
    BY <2>1, FS_Interval, Zenon
<1>2. \A c : c = (IF 1 > n THEN 0 ELSE n - 1 + 1) => c = n
  OBVIOUS
<1>. QED
  BY <1>1, <1>2

LEMMA MoreAndMore ==
  ASSUME NEW p \in Nat, NEW q \in Nat, NEW x \in Nat, NEW y \in Nat, p <= q, x <= y
  PROVE  p + x <= q + y /\ (p < q \/ x < y => p + x < q + y)
OBVIOUS

\* A sum of more is more.
LEMMA TotalLess ==
  ASSUME NEW a \in Seq(Nat), NEW b \in Seq(Nat), Len(a) = Len(b),
         \A i \in 1..Len(a) : a[i] <= b[i]
  PROVE  /\ Total(a) <= Total(b)
         /\ (\E i \in 1..Len(a) : a[i] < b[i]) => Total(a) < Total(b)
<1>. DEFINE n == Len(a)
<1>1. PICK f : /\ Total(a) = f[n] /\ f[0] = 0
               /\ \A i \in 1..n : f[i - 1] \in Nat /\ f[i] \in Nat /\ f[i] = f[i - 1] + a[i]
  BY TotalIs
<1>2. PICK g : /\ Total(b) = g[n] /\ g[0] = 0
               /\ \A i \in 1..n : g[i - 1] \in Nat /\ g[i] \in Nat /\ g[i] = g[i - 1] + b[i]
  <2>1. \E g : /\ Total(b) = g[Len(b)]
               /\ g[0] = 0
               /\ \A i \in 1..Len(b) : g[i - 1] \in Nat /\ g[i] \in Nat /\ g[i] = g[i - 1] + b[i]
    BY TotalIs
  <2>2. Len(b) = n
    OBVIOUS
  <2>. HIDE DEF n
  <2>. QED
    BY <2>1, <2>2, Zenon
<1>3. n \in Nat /\ \A i \in 1..n : a[i] \in Nat /\ b[i] \in Nat /\ a[i] <= b[i]
  OBVIOUS
<1>. DEFINE G == {i \in Nat : f[i] <= g[i] /\ ((\E j \in 1..i : a[j] < b[j]) => f[i] < g[i])}
<1>. HIDE DEF n
<1>4. 0 \in G
  BY <1>1, <1>2
<1>5. ASSUME NEW i \in 1..n, i - 1 \in G PROVE i \in G
  <2>1. i \in Nat /\ f[i - 1] \in Nat /\ g[i - 1] \in Nat /\ a[i] \in Nat /\ b[i] \in Nat /\ a[i] <= b[i]
    BY <1>1, <1>2, <1>3
  <2>2. f[i] = f[i - 1] + a[i] /\ g[i] = g[i - 1] + b[i]
    BY <1>1, <1>2
  <2>3. f[i - 1] <= g[i - 1] /\ ((\E j \in 1..(i - 1) : a[j] < b[j]) => f[i - 1] < g[i - 1])
    BY <1>5
  <2>4. f[i] <= g[i] /\ (f[i - 1] < g[i - 1] \/ a[i] < b[i] => f[i] < g[i])
    <3>1. f[i - 1] + a[i] <= g[i - 1] + b[i]
          /\ (f[i - 1] < g[i - 1] \/ a[i] < b[i] => f[i - 1] + a[i] < g[i - 1] + b[i])
      BY <2>1, <2>3, MoreAndMore
    <3>. QED
      BY <2>2, <3>1, Zenon
  <2>5. ASSUME NEW j \in 1..i, a[j] < b[j] PROVE f[i] < g[i]
    <3>1. CASE j = i
      BY <2>4, <2>5, <3>1
    <3>2. CASE j # i
      <4>1. j \in 1..(i - 1)
        BY <2>1, <3>2
      <4>2. f[i - 1] < g[i - 1]
        BY <2>3, <2>5, <4>1
      <4>. QED
        BY <2>4, <4>2
    <3>. QED
      BY <3>1, <3>2
  <2>. QED
    BY <2>1, <2>4, <2>5
<1>6. 0..n \subseteq G
  <2>. HIDE DEF G
  <2>. QED
    BY <1>3, <1>4, <1>5, InductionUpTo
<1>7. n \in G
  <2>. HIDE DEF G
  <2>. QED
    BY <1>3, <1>6
<1>. QED
  BY <1>1, <1>2, <1>7 DEF n

\* A sum is at least any of its terms, and is that term when the others are 0.
LEMMA TotalTerm ==
  ASSUME NEW a \in Seq(Nat), NEW i \in Nat
  PROVE  /\ i \in 1..Len(a) => a[i] <= Total(a)
         /\ (\A j \in 1..Len(a) : j # i => a[j] = 0)
              => Total(a) = IF i \in 1..Len(a) THEN a[i] ELSE 0
<1>. DEFINE n == Len(a)
<1>1. PICK f : /\ Total(a) = f[n] /\ f[0] = 0
               /\ \A k \in 1..n : f[k - 1] \in Nat /\ f[k] \in Nat /\ f[k] = f[k - 1] + a[k]
  BY TotalIs
<1>2. n \in Nat /\ \A k \in 1..n : a[k] \in Nat
  OBVIOUS
<1>. DEFINE Only == \A j \in 1..n : j # i => a[j] = 0
            G == {k \in Nat : (i \in 1..k => a[i] <= f[k]) /\ (Only => f[k] = IF i \in 1..k THEN a[i] ELSE 0)}
<1>. HIDE DEF n
<1>3. 0 \in G
  BY <1>1
<1>4. ASSUME NEW k \in 1..n, k - 1 \in G PROVE k \in G
  <2>1. k \in Nat /\ f[k - 1] \in Nat /\ f[k] = f[k - 1] + a[k] /\ a[k] \in Nat
    BY <1>1, <1>2
  <2>2. (i \in 1..(k - 1) => a[i] <= f[k - 1]) /\ (Only => f[k - 1] = IF i \in 1..(k - 1) THEN a[i] ELSE 0)
    BY <1>4
  <2>3. i \in 1..k <=> i \in 1..(k - 1) \/ i = k
    BY <2>1
  <2>4. i \in 1..(k - 1) => i # k /\ i \in 1..n
    BY <1>2
  <2>5. i \in 1..k => a[i] <= f[k]
    BY <1>2, <2>1, <2>2, <2>3, <2>4
  <2>6. ASSUME Only PROVE f[k] = IF i \in 1..k THEN a[i] ELSE 0
    <3>1. CASE k = i
      <4>1. i \notin 1..(k - 1) /\ i \in 1..k
        BY <3>1
      <4>2. f[k - 1] = 0
        BY <2>2, <2>6, <4>1
      <4>. QED
        BY <2>1, <3>1, <4>1, <4>2
    <3>2. CASE k # i
      <4>1. a[k] = 0 /\ (i \in 1..k <=> i \in 1..(k - 1))
        BY <2>3, <2>6, <3>2
      <4>2. f[k - 1] = IF i \in 1..(k - 1) THEN a[i] ELSE 0
        BY <2>2, <2>6
      <4>3. f[k] = f[k - 1]
        BY <2>1, <4>1
      <4>. QED
        BY <4>1, <4>2, <4>3
    <3>. QED
      BY <3>1, <3>2
  <2>. QED
    BY <2>1, <2>5, <2>6
<1>5. n \in G
  <2>. HIDE DEF G
  <2>1. 0..n \subseteq G
    BY <1>2, <1>3, <1>4, InductionUpTo
  <2>. QED
    BY <1>2, <2>1
<1>. QED
  BY <1>1, <1>5 DEF n
=============================================================================
