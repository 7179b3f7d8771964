---------------------------- MODULE ComposerProofs ----------------------------
(***************************************************************************)
(* Proofs about one Compose call. First stages 1 and 2, for every prompt,  *)
(* glossary, index and answer of the searches. Then, for every funnel,     *)
(* budget and cap, every candidate list, every fetch and every sanitize    *)
(* outcome, stage 4 alone, the selection loop of module Allocator, and the *)
(* pipeline, to which those theorems carry over because it runs the loop   *)
(* as it is.                                                               *)
(***************************************************************************)
EXTENDS Composer, Retrieval, ListProofs, SequenceTheorems, FiniteSetTheorems, TLAPS

(***************************************************************************)
(* Stages 1 and 2: the modules Retrieval and Lists. First the lists they   *)
(* make: cuts, first times, merged hits.                                   *)
(***************************************************************************)
\* What the aggregator holds.
RankedList == [weight : {BMWeight, SymbolWeight, CkvWeight}, cits : Answers]

LEMMA FirstNType ==
  ASSUME NEW T, NEW s \in Seq(T), NEW n \in Nat
  PROVE  /\ FirstN(s, n) \in Seq(T) /\ Len(FirstN(s, n)) <= n /\ Len(FirstN(s, n)) <= Len(s)
         /\ Len(FirstN(s, n)) = IF Len(s) < n THEN Len(s) ELSE n
         /\ \A i \in DOMAIN FirstN(s, n) : i \in DOMAIN s /\ FirstN(s, n)[i] = s[i]
  BY DEF FirstN

LEMMA Concatenated ==
  ASSUME NEW T, NEW s \in Seq(T), NEW t \in Seq(T)
  PROVE  s \o t \in Seq(T) /\ Len(s \o t) = Len(s) + Len(t) /\ DOMAIN (s \o t) = 1..Len(s) + Len(t)
  OBVIOUS

LEMMA TailElements ==
  ASSUME NEW T, NEW s \in Seq(T), s # <<>>
  PROVE  Head(s) \in Elements(s) /\ Tail(s) \in Seq(T) /\ Elements(Tail(s)) \subseteq Elements(s)
<1>1. 1 \in DOMAIN s /\ Head(s) = s[1] /\ Tail(s) \in Seq(T)
  OBVIOUS
<1>2. \A i \in DOMAIN Tail(s) : i + 1 \in DOMAIN s /\ Tail(s)[i] = s[i + 1]
  OBVIOUS
<1>. QED
  BY <1>1, <1>2 DEF Elements

(***************************************************************************)
(* The first times.                                                        *)
(***************************************************************************)
LEMMA FirstTimesOf ==
  ASSUME NEW T, NEW s \in Seq(T)
  PROVE  /\ FirstTimes(s) \in Seq(1..Len(s)) /\ NoRepeat(FirstTimes(s))
         /\ \A i, j \in Elements(FirstTimes(s)) : s[i] = s[j] => i = j
         /\ \A i \in DOMAIN s : \E k \in Elements(FirstTimes(s)) : s[k] = s[i]
<1>. DEFINE id == [i \in DOMAIN s |-> i]
            Firsts == {i \in DOMAIN s : \A j \in 1..(i - 1) : s[j] # s[i]}
<1>1. id \in Seq(1..Len(s)) /\ DOMAIN id = 1..Len(s) /\ DOMAIN s = 1..Len(s) /\ Len(s) \in Nat
  OBVIOUS
<1>2. NoRepeat(id) /\ Elements(id) = 1..Len(s)
  BY <1>1 DEF NoRepeat, Elements
<1>3. FirstTimes(s) = Kept(id, Firsts)
  BY DEF FirstTimes
<1>4. FirstTimes(s) \in Seq((1..Len(s)) \intersect Firsts)
  <2>. HIDE DEF id, Firsts
  <2>. QED
    BY <1>1, <1>3, KeptType
<1>5. FirstTimes(s) \in Seq(1..Len(s))
  <2>1. (1..Len(s)) \intersect Firsts \subseteq 1..Len(s)
    OBVIOUS
  <2>. HIDE DEF Firsts
  <2>. QED
    BY <1>4, <2>1
<1>6. Elements(FirstTimes(s)) = (1..Len(s)) \intersect Firsts /\ NoRepeat(FirstTimes(s))
  <2>. HIDE DEF id, Firsts
  <2>. QED
    BY <1>1, <1>2, <1>3, KeptElements
<1>7. ASSUME NEW i \in Elements(FirstTimes(s)), NEW j \in Elements(FirstTimes(s)), s[i] = s[j]
      PROVE  i = j
  <2>1. i \in Firsts /\ j \in Firsts /\ i \in 1..Len(s) /\ j \in 1..Len(s)
    BY <1>6
  <2>2. ~ (i < j)
    <3>1. i < j => i \in 1..(j - 1)
      BY <2>1
    <3>. QED
      BY <1>7, <2>1, <3>1
  <2>3. ~ (j < i)
    <3>1. j < i => j \in 1..(i - 1)
      BY <2>1
    <3>. QED
      BY <1>7, <2>1, <3>1
  <2>. QED
    BY <2>1, <2>2, <2>3
<1>8. ASSUME NEW i \in DOMAIN s PROVE \E k \in Elements(FirstTimes(s)) : s[k] = s[i]
  <2>. DEFINE Same == {k \in 1..Len(s) : s[k] = s[i]}
  <2>1. Same \in SUBSET Nat /\ Same # {}
    BY <1>1
  <2>2. PICK k \in Same : \A m \in Same : k <= m
    <3>. HIDE DEF Same
    <3>. QED
      BY <2>1, Least
  <2>3. \A j \in 1..(k - 1) : j \in 1..Len(s) /\ ~ (k <= j)
    BY <1>1
  <2>4. \A j \in 1..(k - 1) : s[j] # s[k]
    BY <2>2, <2>3
  <2>5. k \in (1..Len(s)) \intersect Firsts
    BY <1>1, <2>4
  <2>. QED
    BY <1>6, <2>5
<1>. QED
  BY <1>5, <1>6, <1>7, <1>8

LEMMA DistinctOf ==
  ASSUME NEW T, NEW s \in Seq(T)
  PROVE  /\ Distinct(s) \in Seq(T) /\ NoRepeat(Distinct(s))
         /\ Elements(Distinct(s)) = Elements(s)
<1>. DEFINE first == FirstTimes(s)
<1>1. /\ first \in Seq(1..Len(s)) /\ NoRepeat(first)
      /\ \A i, j \in Elements(first) : s[i] = s[j] => i = j
      /\ \A i \in DOMAIN s : \E k \in Elements(first) : s[k] = s[i]
  BY FirstTimesOf
<1>2. Distinct(s) = [i \in DOMAIN first |-> s[first[i]]]
  BY DEF Distinct
<1>. HIDE DEF first
<1>3. DOMAIN s = 1..Len(s) /\ \A i \in DOMAIN first : first[i] \in 1..Len(s) /\ s[first[i]] \in T
  BY <1>1
<1>4. Distinct(s) \in Seq(T) /\ DOMAIN Distinct(s) = DOMAIN first
  BY <1>1, <1>2, <1>3
<1>5. \A i \in DOMAIN first : Distinct(s)[i] = s[first[i]] /\ first[i] \in DOMAIN s
  BY <1>2, <1>3
<1>6. NoRepeat(Distinct(s))
  <2>1. \A i \in DOMAIN first : first[i] \in Elements(first)
    BY DEF Elements
  <2>2. \A i, j \in DOMAIN first : s[first[i]] = s[first[j]] => first[i] = first[j]
    BY <1>1, <2>1
  <2>3. \A i, j \in DOMAIN first : first[i] = first[j] => i = j
    BY <1>1 DEF NoRepeat
  <2>4. \A i, j \in DOMAIN first : Distinct(s)[i] = Distinct(s)[j] => i = j
    BY <1>5, <2>2, <2>3
  <2>. QED
    BY <1>4, <2>4 DEF NoRepeat
<1>7. \A i \in DOMAIN s : \E k \in DOMAIN first : s[first[k]] = s[i]
  BY <1>1 DEF Elements
<1>. QED
  BY <1>4, <1>5, <1>6, <1>7 DEF Elements

LEMMA MergedHits ==
  ASSUME NEW dst \in Seq(Hit), NEW src \in Seq(Hit),
         NoRepeat([i \in DOMAIN dst |-> dst[i].cit])
  PROVE  /\ mergeHits(dst, src) \in Seq(Hit)
         /\ NoRepeat([i \in DOMAIN mergeHits(dst, src) |-> mergeHits(dst, src)[i].cit])
         /\ {h.cit : h \in Elements(mergeHits(dst, src))}
              = {h.cit : h \in Elements(dst)} \union {h.cit : h \in Elements(src)}
<1>. DEFINE cits == [i \in DOMAIN src |-> src[i].cit]
            Fresh == {i \in DOMAIN src : \A d \in Elements(dst) : d.cit # src[i].cit}
            first == FirstTimes(cits)
            new == Kept(first, Fresh)
            tail == [i \in DOMAIN new |-> src[new[i]]]
            all == dst \o tail
<1>1. DOMAIN src = 1..Len(src) /\ Len(src) \in Nat /\ DOMAIN dst = 1..Len(dst) /\ Len(dst) \in Nat
  OBVIOUS
<1>2. cits \in Seq(Citations) /\ Len(cits) = Len(src) /\ DOMAIN cits = DOMAIN src
  <2>1. \A i \in DOMAIN src : src[i].cit \in Citations
    <3>1. \A i \in DOMAIN src : src[i] \in Hit
      OBVIOUS
    <3>. QED
      BY <3>1 DEF Hit
  <2>. QED
    BY <1>1, <2>1
<1>3. /\ first \in Seq(1..Len(src)) /\ NoRepeat(first)
      /\ \A i, j \in Elements(first) : cits[i] = cits[j] => i = j
      /\ \A i \in DOMAIN src : \E k \in Elements(first) : cits[k] = cits[i]
  <2>. HIDE DEF cits
  <2>. QED
    BY <1>2, FirstTimesOf
<1>4. /\ new \in Seq((1..Len(src)) \intersect Fresh)
      /\ Elements(new) = Elements(first) \intersect Fresh /\ NoRepeat(new)
  <2>. HIDE DEF first, Fresh
  <2>. QED
    BY <1>3, KeptType, KeptElements
<1>. HIDE DEF first, new
<1>5. \A i \in DOMAIN new : new[i] \in 1..Len(src) /\ new[i] \in Fresh /\ new[i] \in Elements(first)
  <2>1. DOMAIN new = 1..Len(new) /\ \A i \in DOMAIN new : new[i] \in (1..Len(src)) \intersect Fresh
    <3>. HIDE DEF Fresh
    <3>. QED
      BY <1>4
  <2>2. \A i \in DOMAIN new : new[i] \in Elements(new)
    BY DEF Elements
  <2>. HIDE DEF Fresh
  <2>. QED
    BY <1>4, <2>1, <2>2
<1>6. DOMAIN new = 1..Len(new) /\ Len(new) \in Nat
  <2>. HIDE DEF Fresh
  <2>. QED
    BY <1>4
<1>7. tail \in Seq(Hit) /\ Len(tail) = Len(new) /\ DOMAIN tail = DOMAIN new
  BY <1>1, <1>5, <1>6
<1>8. all \in Seq(Hit) /\ Len(all) = Len(dst) + Len(tail) /\ DOMAIN all = 1..Len(dst) + Len(tail)
  <2>. HIDE DEF tail
  <2>1. \A s, t \in Seq(Hit) : s \o t \in Seq(Hit) /\ Len(s \o t) = Len(s) + Len(t)
                             /\ DOMAIN (s \o t) = 1..Len(s) + Len(t)
    BY Concatenated
  <2>2. dst \in Seq(Hit) /\ tail \in Seq(Hit)
    BY <1>7
  <2>. QED
    BY <2>1, <2>2, Zenon
<1>9. /\ \A i \in 1..Len(dst) : all[i] = dst[i]
      /\ \A i \in 1..Len(tail) : all[Len(dst) + i] = tail[i] /\ Len(dst) + i \in DOMAIN all
      /\ \A i \in DOMAIN all : i \in 1..Len(dst) \/ (i - Len(dst) \in 1..Len(tail) /\ all[i] = tail[i - Len(dst)])
      /\ \A i \in 1..Len(dst) : i \in DOMAIN all
  <2>. HIDE DEF tail
  <2>. QED
    BY <1>1, <1>7
<1>10. mergeHits(dst, src) = all
  BY DEF mergeHits, new, first
<1>11. \A i \in 1..Len(tail) : /\ tail[i] = src[new[i]] /\ new[i] \in DOMAIN src /\ new[i] \in Fresh
                               /\ new[i] \in Elements(first)
  BY <1>1, <1>5, <1>6, <1>7
<1>12. \A i \in 1..Len(tail), j \in 1..Len(dst) : tail[i].cit # dst[j].cit
  <2>1. \A j \in 1..Len(dst) : dst[j] \in Elements(dst)
    BY <1>1 DEF Elements
  <2>. HIDE DEF tail
  <2>. QED
    BY <1>11, <2>1
<1>13. \A i, j \in 1..Len(tail) : tail[i].cit = tail[j].cit => i = j
  <2>1. \A i, j \in 1..Len(tail) : tail[i].cit = tail[j].cit => cits[new[i]] = cits[new[j]]
    <3>. HIDE DEF tail
    <3>. QED
      BY <1>11
  <2>2. \A i, j \in 1..Len(tail) : tail[i].cit = tail[j].cit => new[i] = new[j]
    <3>1. \A i, j \in Elements(first) : cits[i] = cits[j] => i = j
      BY <1>3
    <3>2. \A i \in 1..Len(tail) : new[i] \in Elements(first)
      BY <1>11
    <3>. HIDE DEF tail, cits
    <3>. QED
      BY <2>1, <3>1, <3>2
  <2>. HIDE DEF tail, cits
  <2>. QED
    BY <1>4, <1>6, <1>7, <2>2 DEF NoRepeat
<1>. HIDE DEF tail
<1>14. \A i, j \in 1..Len(dst) : dst[i].cit = dst[j].cit => i = j
  BY <1>1 DEF NoRepeat
<1>15. \A i, j \in DOMAIN all : all[i].cit = all[j].cit => i = j
  <2>. SUFFICES ASSUME NEW i \in DOMAIN all, NEW j \in DOMAIN all, all[i].cit = all[j].cit PROVE i = j
    OBVIOUS
  <2>. HIDE DEF all
  <2>0. i \in Int /\ j \in Int /\ Len(dst) \in Int
    BY <1>1, <1>7, <1>8
  <2>1. CASE i \in 1..Len(dst) /\ j \in 1..Len(dst)
    BY <1>9, <1>14, <2>1
  <2>2. CASE i \in 1..Len(dst) /\ j \notin 1..Len(dst)
    BY <1>9, <1>12, <2>2
  <2>3. CASE i \notin 1..Len(dst) /\ j \in 1..Len(dst)
    BY <1>9, <1>12, <2>3
  <2>4. CASE i \notin 1..Len(dst) /\ j \notin 1..Len(dst)
    <3>. DEFINE k == i - Len(dst)
                m == j - Len(dst)
    <3>1. k \in 1..Len(tail) /\ all[i] = tail[k] /\ m \in 1..Len(tail) /\ all[j] = tail[m]
      BY <1>9, <2>4
    <3>. HIDE DEF k, m
    <3>2. tail[k].cit = tail[m].cit
      BY <3>1
    <3>3. k = m
      BY <1>13, <3>1, <3>2
    <3>. QED
      BY <2>0, <3>3 DEF k, m
  <2>. QED
    BY <2>1, <2>2, <2>3, <2>4
<1>16. NoRepeat([i \in DOMAIN all |-> all[i].cit])
  <2>. HIDE DEF all
  <2>. QED
    BY <1>15 DEF NoRepeat
<1>17. ASSUME NEW h \in Elements(all)
       PROVE  h.cit \in {d.cit : d \in Elements(dst)} \union {s.cit : s \in Elements(src)}
  <2>1. PICK i \in DOMAIN all : h = all[i]
    BY DEF Elements
  <2>. HIDE DEF all
  <2>2. CASE i \in 1..Len(dst)
    <3>1. h = dst[i] /\ dst[i] \in Elements(dst)
      BY <1>1, <1>9, <2>1, <2>2 DEF Elements
    <3>. QED
      BY <3>1
  <2>3. CASE i \notin 1..Len(dst)
    <3>1. PICK k \in 1..Len(tail) : all[i] = tail[k]
      BY <1>9, <2>3
    <3>2. tail[k] = src[new[k]] /\ new[k] \in DOMAIN src
      BY <1>11
    <3>3. h = src[new[k]]
      BY <2>1, <3>1, <3>2
    <3>4. h \in Elements(src)
      BY <3>2, <3>3 DEF Elements
    <3>. QED
      BY <3>4
  <2>. QED
    BY <2>2, <2>3
<1>18. ASSUME NEW h \in Elements(dst) PROVE \E a \in Elements(all) : a.cit = h.cit
  <2>. HIDE DEF all
  <2>. QED
    BY <1>1, <1>9 DEF Elements
<1>19. ASSUME NEW h \in Elements(src) PROVE \E a \in Elements(all) : a.cit = h.cit
  <2>1. PICK i \in DOMAIN src : h = src[i]
    BY DEF Elements
  <2>2. PICK k \in Elements(first) : cits[k] = cits[i]
    BY <1>3, <2>1
  <2>3. k \in DOMAIN src /\ src[k].cit = h.cit
    <3>1. k \in DOMAIN src
      BY <1>1, <1>3 DEF Elements
    <3>. QED
      BY <2>1, <2>2, <3>1
  <2>4. CASE k \in Fresh
    <3>1. PICK m \in DOMAIN new : new[m] = k
      <4>. HIDE DEF Fresh
      <4>. QED
        BY <1>4, <2>4 DEF Elements
    <3>2. m \in 1..Len(tail) /\ tail[m] = src[k]
      BY <1>6, <1>7, <1>11, <3>1
    <3>. HIDE DEF all
    <3>3. all[Len(dst) + m] \in Elements(all) /\ all[Len(dst) + m] = src[k]
      BY <1>9, <3>2 DEF Elements
    <3>. QED
      BY <2>3, <3>3
  <2>5. CASE k \notin Fresh
    <3>1. PICK d \in Elements(dst) : d.cit = src[k].cit
      BY <2>3, <2>5
    <3>. HIDE DEF all, Fresh
    <3>. QED
      BY <1>18, <2>3, <3>1
  <2>. QED
    BY <2>4, <2>5
<1>20. {h.cit : h \in Elements(all)} = {h.cit : h \in Elements(dst)} \union {h.cit : h \in Elements(src)}
  <2>. HIDE DEF all
  <2>. QED
    BY <1>17, <1>18, <1>19
<1>. QED
  BY <1>8, <1>10, <1>16, <1>20

(***************************************************************************)
(* A sort: when every index has the set of those that go before it, the    *)
(* sizes of these sets number the indexes, in that order.                  *)
(***************************************************************************)
LEMMA RanksOnce ==
  ASSUME NEW n \in Nat, NEW B \in [1..n -> SUBSET (1..n)],
         \A i \in 1..n : i \notin B[i],
         \A i \in 1..n : \A j \in B[i] : B[j] \subseteq B[i],
         \A i, j \in 1..n : i # j => i \in B[j] \/ j \in B[i]
  PROVE  /\ \A m \in 1..n : \E i \in 1..n : Cardinality(B[i]) = m - 1
         /\ \A i, j \in 1..n : Cardinality(B[i]) = Cardinality(B[j]) => i = j
         /\ \A i, j \in 1..n : Cardinality(B[i]) < Cardinality(B[j]) => i \in B[j]
<1>1. IsFiniteSet(1..n) /\ Cardinality(1..n) = n
  BY FS_Interval
<1>2. ASSUME NEW i \in 1..n PROVE IsFiniteSet(B[i]) /\ Cardinality(B[i]) \in 0..(n - 1)
  <2>1. B[i] \subseteq (1..n) \ {i}
    OBVIOUS
  <2>2. IsFiniteSet((1..n) \ {i}) /\ Cardinality((1..n) \ {i}) = n - 1
    BY <1>1, FS_RemoveElement
  <2>3. IsFiniteSet(B[i]) /\ Cardinality(B[i]) <= n - 1
    BY <2>1, <2>2, FS_Subset
  <2>4. Cardinality(B[i]) \in Nat
    BY <2>3, FS_CardinalityType
  <2>. QED
    BY <2>3, <2>4
<1>3. ASSUME NEW i \in 1..n, NEW j \in B[i] PROVE Cardinality(B[j]) < Cardinality(B[i])
  <2>1. j \in 1..n /\ B[j] \subseteq B[i] /\ B[j] # B[i]
    OBVIOUS
  <2>2. Cardinality(B[j]) <= Cardinality(B[i]) /\ Cardinality(B[j]) # Cardinality(B[i])
    BY <1>2, <2>1, FS_Subset
  <2>. QED
    BY <1>2, <2>1, <2>2
<1>4. \A i, j \in 1..n : Cardinality(B[i]) = Cardinality(B[j]) => i = j
  <2>1. \A i \in 1..n : Cardinality(B[i]) \in Int
    BY <1>2
  <2>. QED
    BY <1>3, <2>1
<1>5. \A i, j \in 1..n : Cardinality(B[i]) < Cardinality(B[j]) => i \in B[j]
  <2>. SUFFICES ASSUME NEW i \in 1..n, NEW j \in 1..n, Cardinality(B[i]) < Cardinality(B[j]), i \notin B[j]
                PROVE FALSE
    OBVIOUS
  <2>1. Cardinality(B[i]) \in Int /\ Cardinality(B[j]) \in Int
    BY <1>2
  <2>2. i # j
    BY <2>1
  <2>3. j \in B[i]
    BY <2>2
  <2>. QED
    BY <1>3, <2>1, <2>3
<1>6. \A m \in 1..n : \E i \in 1..n : Cardinality(B[i]) = m - 1
  <2>. DEFINE f == [i \in 1..n |-> Cardinality(B[i]) + 1]
  <2>1. f \in [1..n -> 1..n]
    <3>1. \A i \in 1..n : Cardinality(B[i]) + 1 \in 1..n
      BY <1>2
    <3>. QED
      BY <3>1
  <2>2. \A i, j \in 1..n : f[i] = f[j] => i = j
    <3>1. \A i \in 1..n : Cardinality(B[i]) \in Int
      BY <1>2
    <3>2. \A i, j \in 1..n : f[i] = f[j] => Cardinality(B[i]) = Cardinality(B[j])
      BY <3>1
    <3>. QED
      BY <1>4, <3>2
  <2>3. f \in Injection(1..n, 1..n)
    <3>. HIDE DEF f
    <3>. QED
      BY <2>1, <2>2 DEF Injection, IsInjective
  <2>4. f \in Surjection(1..n, 1..n)
    <3>. HIDE DEF f
    <3>. QED
      BY <1>1, <2>3, FS_Injection
  <2>5. \A m \in 1..n : \E i \in 1..n : f[i] = m
    <3>. HIDE DEF f
    <3>. QED
      BY <2>4 DEF Surjection
  <2>6. \A i \in 1..n : f[i] = Cardinality(B[i]) + 1 /\ Cardinality(B[i]) \in Int
    BY <1>2
  <2>. HIDE DEF f
  <2>7. ASSUME NEW m \in 1..n PROVE \E i \in 1..n : Cardinality(B[i]) = m - 1
    <3>1. PICK i \in 1..n : f[i] = m
      BY <2>5
    <3>2. Cardinality(B[i]) = m - 1
      BY <2>6, <3>1
    <3>. QED
      BY <3>2
  <2>. QED
    BY <2>7
<1>. QED
  BY <1>4, <1>5, <1>6

\* rerank's sort keeps the keywords, and puts the stronger first.
LEMMA ByStrengthSorts ==
  ASSUME NEW kws \in Seq(Keywords), index \in Indexes
  PROVE  /\ ByStrength(kws) \in Seq(Keywords) /\ Elements(ByStrength(kws)) = Elements(kws)
         /\ DOMAIN ByStrength(kws) = DOMAIN kws
         /\ \A m, n \in DOMAIN kws : m < n =>
              index.strength[ByStrength(kws)[m]] >= index.strength[ByStrength(kws)[n]]
<1>. DEFINE N == Len(kws)
            w == [i \in 1..N |-> index.strength[kws[i]]]
            B == [i \in 1..N |-> goesBefore(kws, i)]
            at == [n \in DOMAIN kws |-> CHOOSE i \in DOMAIN kws : Cardinality(goesBefore(kws, i)) = n - 1]
<1>1. N \in Nat /\ DOMAIN kws = 1..N
  OBVIOUS
<1>2. w \in [1..N -> Nat]
  <2>1. index.strength \in [Keywords -> Nat]
    BY IndexTypes
  <2>. QED
    BY <2>1
<1>3. /\ B \in [1..N -> SUBSET (1..N)]
      /\ \A i, j \in 1..N : j \in B[i] <=> w[j] > w[i] \/ (w[j] = w[i] /\ j < i)
  <2>1. \A i \in 1..N : goesBefore(kws, i) = {j \in 1..N : w[j] > w[i] \/ (w[j] = w[i] /\ j < i)}
    BY <1>1 DEF goesBefore
  <2>. HIDE DEF w, N
  <2>. QED
    BY <1>1, <2>1
<1>4. /\ \A i \in 1..N : i \notin B[i]
      /\ \A i \in 1..N : \A j \in B[i] : B[j] \subseteq B[i]
      /\ \A i, j \in 1..N : i # j => i \in B[j] \/ j \in B[i]
  <2>. HIDE DEF w, B, N
  <2>1. \A i \in 1..N : w[i] \in Int /\ i \in Int
    BY <1>1, <1>2
  <2>2. \A i \in 1..N : i \notin B[i]
    BY <1>3, <2>1
  <2>3. \A i, j \in 1..N : i # j => i \in B[j] \/ j \in B[i]
    BY <1>3, <2>1
  <2>4. \A i, j, k \in 1..N : j \in B[i] /\ k \in B[j] => k \in B[i]
    BY <1>3, <2>1
  <2>. QED
    BY <1>3, <2>2, <2>3, <2>4
<1>5. /\ \A m \in 1..N : \E i \in 1..N : Cardinality(B[i]) = m - 1
      /\ \A i, j \in 1..N : Cardinality(B[i]) = Cardinality(B[j]) => i = j
      /\ \A i, j \in 1..N : Cardinality(B[i]) < Cardinality(B[j]) => i \in B[j]
  <2>. HIDE DEF B, N
  <2>. QED
    BY <1>1, <1>3, <1>4, RanksOnce
<1>6. \A n \in 1..N : at[n] \in 1..N /\ Cardinality(B[at[n]]) = n - 1
  <2>1. \A n \in 1..N : \E i \in DOMAIN kws : Cardinality(goesBefore(kws, i)) = n - 1
    <3>1. \A i \in 1..N : B[i] = goesBefore(kws, i)
      OBVIOUS
    <3>. HIDE DEF B, N
    <3>. QED
      BY <1>1, <1>5, <3>1
  <2>2. \A n \in 1..N : at[n] \in DOMAIN kws /\ Cardinality(goesBefore(kws, at[n])) = n - 1
    <3>. HIDE DEF B, N, w
    <3>. QED
      BY <1>1, <2>1
  <2>. HIDE DEF at, N, w
  <2>. QED
    BY <1>1, <2>2
<1>7. ByStrength(kws) = [n \in 1..N |-> kws[at[n]]]
  <2>. HIDE DEF B, N, w
  <2>. QED
    BY <1>1 DEF ByStrength
<1>8. \A i \in 1..N : \E n \in 1..N : at[n] = i
  <2>. SUFFICES ASSUME NEW i \in 1..N PROVE \E n \in 1..N : at[n] = i
    OBVIOUS
  <2>1. IsFiniteSet(1..N) /\ Cardinality(1..N) = N /\ B[i] \subseteq (1..N) \ {i}
    <3>. HIDE DEF B, N
    <3>1. IsFiniteSet(1..N) /\ Cardinality(1..N) = N
      BY <1>1, UpTo, Zenon
    <3>. QED
      BY <1>3, <1>4, <3>1
  <2>. HIDE DEF B, N, at
  <2>2. IsFiniteSet((1..N) \ {i}) /\ Cardinality((1..N) \ {i}) = N - 1
    BY <2>1, FS_RemoveElement, Zenon
  <2>3. Cardinality(B[i]) <= N - 1 /\ Cardinality(B[i]) \in Nat
    BY <2>1, <2>2, FS_Subset, FS_CardinalityType
  <2>. DEFINE n == Cardinality(B[i]) + 1
  <2>4. n \in 1..N /\ n - 1 = Cardinality(B[i])
    BY <1>1, <2>3
  <2>5. at[n] = i
    BY <1>5, <1>6, <2>4
  <2>. QED
    BY <2>4, <2>5
<1>. HIDE DEF at
<1>9. ByStrength(kws) \in Seq(Keywords) /\ DOMAIN ByStrength(kws) = 1..N
  <2>1. \A n \in 1..N : kws[at[n]] \in Keywords
    <3>1. \A i \in 1..N : kws[i] \in Keywords
      OBVIOUS
    <3>. HIDE DEF B, w, N
    <3>. QED
      BY <1>6, <3>1
  <2>. HIDE DEF N
  <2>. QED
    BY <1>1, <1>7, <2>1
<1>10. Elements(ByStrength(kws)) = Elements(kws)
  <2>. HIDE DEF B, N
  <2>1. \A n \in 1..N : ByStrength(kws)[n] = kws[at[n]] /\ at[n] \in DOMAIN kws
    BY <1>1, <1>6, <1>7
  <2>2. ASSUME NEW i \in DOMAIN kws PROVE \E n \in 1..N : ByStrength(kws)[n] = kws[i]
    <3>1. PICK n \in 1..N : at[n] = i
      BY <1>1, <1>8
    <3>. QED
      BY <2>1, <3>1
  <2>. HIDE DEF w
  <2>3. ASSUME NEW x \in Elements(ByStrength(kws)) PROVE x \in Elements(kws)
    <3>1. PICK n \in 1..N : x = ByStrength(kws)[n]
      BY <1>9, Zenon DEF Elements
    <3>2. x = kws[at[n]] /\ at[n] \in DOMAIN kws
      BY <2>1, <3>1
    <3>. QED
      BY <3>2, Zenon DEF Elements
  <2>4. \A x \in Elements(kws) : x \in Elements(ByStrength(kws))
    BY <1>9, <2>2, Zenon DEF Elements
  <2>. QED
    BY <2>3, <2>4
<1>11. ASSUME NEW m \in 1..N, NEW n \in 1..N, m < n
       PROVE  index.strength[ByStrength(kws)[m]] >= index.strength[ByStrength(kws)[n]]
  <2>1. ByStrength(kws)[m] = kws[at[m]] /\ ByStrength(kws)[n] = kws[at[n]]
    BY <1>7
  <2>2. Cardinality(B[at[m]]) < Cardinality(B[at[n]])
    <3>. HIDE DEF B, N
    <3>. QED
      BY <1>1, <1>6, <1>11
  <2>3. at[m] \in B[at[n]]
    <3>. HIDE DEF B, N
    <3>. QED
      BY <1>5, <1>6, <2>2
  <2>4. w[at[m]] >= w[at[n]]
    <3>1. w[at[m]] \in Nat /\ w[at[n]] \in Nat
      <4>. HIDE DEF w, B, N
      <4>. QED
        BY <1>2, <1>6
    <3>. HIDE DEF w, B, N
    <3>2. w[at[m]] > w[at[n]] \/ w[at[m]] = w[at[n]]
      <4>1. at[m] \in 1..N /\ at[n] \in 1..N
        BY <1>6
      <4>. QED
        BY <1>3, <2>3, <4>1, Zenon
    <3>. QED
      BY <3>1, <3>2
  <2>. QED
    BY <1>6, <2>1, <2>4
<1>. QED
  BY <1>1, <1>9, <1>10, <1>11

(***************************************************************************)
(* The fusion: what a place in a list is worth, and what a sort by score   *)
(* makes of it.                                                            *)
(***************************************************************************)
LEMMA SmallerQuotient ==
  ASSUME NEW p \in Nat, NEW q \in Nat, NEW a \in Nat, NEW b \in Nat, q > 0, a < b, p * a = q * b
  PROVE  q < p
<1>1. SUFFICES ASSUME p <= q PROVE FALSE
  OBVIOUS
<1>2. p * a <= q * a
  BY <1>1
<1>3. q * a < q * b
  BY SMT
<1>. QED
  BY <1>2, <1>3

LEMMA WorthLess ==
  /\ \A i \in 1..LongestList : Scale \div (RRFK + i) \in Nat
  /\ \A i, j \in 1..LongestList : i < j => Scale \div (RRFK + j) < Scale \div (RRFK + i)
<1>1. LongestList \in Nat /\ Scale \in Nat /\ Scale > 0 /\ RRFK \in Nat /\ RRFK > 0
  BY RetrievalConfig
<1>2. ASSUME NEW i \in 1..LongestList
      PROVE  /\ Scale \div (RRFK + i) \in Nat
             /\ (Scale \div (RRFK + i)) * (RRFK + i) = Scale /\ Scale \div (RRFK + i) > 0
  <2>. DEFINE a == RRFK + i
  <2>1. a \in Nat /\ a > 0 /\ Scale % a = 0
    BY <1>1, ExactScores
  <2>. HIDE DEF a
  <2>2. Scale \div a \in Nat /\ Scale = a * (Scale \div a) + (Scale % a)
    BY <1>1, <2>1
  <2>3. (Scale \div a) * a = Scale
    BY <1>1, <2>1, <2>2
  <2>4. Scale \div a > 0
    BY <1>1, <2>1, <2>2
  <2>. QED
    BY <2>2, <2>3, <2>4 DEF a
<1>3. ASSUME NEW i \in 1..LongestList, NEW j \in 1..LongestList, i < j
      PROVE  Scale \div (RRFK + j) < Scale \div (RRFK + i)
  <2>. DEFINE p == Scale \div (RRFK + i)
              q == Scale \div (RRFK + j)
              a == RRFK + i
              b == RRFK + j
  <2>1. a \in Nat /\ b \in Nat /\ a < b
    BY <1>1, <1>3
  <2>2. p \in Nat /\ q \in Nat /\ q > 0 /\ p * a = q * b
    BY <1>2
  <2>. HIDE DEF p, q, a, b
  <2>3. q < p
    BY <2>1, <2>2, SmallerQuotient
  <2>. QED
    BY <2>3 DEF p, q
<1>. QED
  BY <1>2, <1>3

Worth(list, c) ==
  [i \in DOMAIN list.cits |-> IF list.cits[i] = c THEN list.weight * (Scale \div (RRFK + i)) ELSE 0]

LEMMA WorthType ==
  ASSUME NEW list \in RankedList, NEW c
  PROVE  /\ Worth(list, c) \in Seq(Nat) /\ Len(Worth(list, c)) = Len(list.cits)
         /\ Contribution(list, c) = Total(Worth(list, c)) /\ Contribution(list, c) \in Nat
         /\ DOMAIN list.cits = 1..Len(list.cits) /\ Len(list.cits) \in Nat /\ Len(list.cits) <= LongestList
<1>1. /\ DOMAIN list.cits = 1..Len(list.cits) /\ Len(list.cits) \in Nat /\ Len(list.cits) <= LongestList
      /\ list.weight \in Nat
  BY DEF RankedList, Answers, BMWeight, SymbolWeight, CkvWeight
<1>2. LongestList \in Nat
  BY RetrievalConfig
<1>3. \A i \in DOMAIN list.cits : Scale \div (RRFK + i) \in Nat
  BY <1>1, <1>2, WorthLess
<1>4. \A i \in DOMAIN list.cits : Worth(list, c)[i] \in Nat
  <2>1. \A v \in Nat : list.weight * v \in Nat
    BY <1>1
  <2>2. \A i \in DOMAIN list.cits : list.weight * (Scale \div (RRFK + i)) \in Nat
    BY <1>3, <2>1
  <2>. QED
    BY <2>2 DEF Worth
<1>5. Worth(list, c) \in Seq(Nat) /\ Len(Worth(list, c)) = Len(list.cits)
  <2>1. DOMAIN Worth(list, c) = 1..Len(list.cits)
    BY <1>1 DEF Worth
  <2>2. Worth(list, c) \in [1..Len(list.cits) -> Nat]
    <3>1. Worth(list, c) = [i \in 1..Len(list.cits) |-> Worth(list, c)[i]]
      BY <1>1 DEF Worth
    <3>. QED
      BY <1>1, <1>4, <3>1
  <2>. QED
    BY <1>1, <2>2
<1>6. Contribution(list, c) = Total(Worth(list, c))
  BY DEF Contribution, Worth
<1>. QED
  BY <1>1, <1>5, <1>6, TotalType

\* A list that has d once, after c, gives c more; one without d gives d nothing.
LEMMA HigherWorth ==
  ASSUME NEW list \in RankedList, NEW c, NEW d, c # d,
         \A i \in DOMAIN list.cits : list.cits[i] = d =>
           /\ \E j \in 1..i - 1 : list.cits[j] = c
           /\ \A k \in DOMAIN list.cits : list.cits[k] = d => k = i
  PROVE  /\ Contribution(list, d) <= Contribution(list, c)
         /\ d \in Cited(list) => Contribution(list, d) < Contribution(list, c)
<1>1. /\ Worth(list, c) \in Seq(Nat) /\ Len(Worth(list, c)) = Len(list.cits)
      /\ Worth(list, d) \in Seq(Nat) /\ Len(Worth(list, d)) = Len(list.cits)
      /\ Contribution(list, c) = Total(Worth(list, c)) /\ Contribution(list, c) \in Nat
      /\ Contribution(list, d) = Total(Worth(list, d))
      /\ DOMAIN list.cits = 1..Len(list.cits) /\ Len(list.cits) \in Nat /\ Len(list.cits) <= LongestList
  BY WorthType
<1>2. /\ \A i \in 1..Len(list.cits) : list.cits[i] # d => Worth(list, d)[i] = 0
      /\ \A i \in 1..Len(list.cits), x \in {c, d} :
           list.cits[i] = x => Worth(list, x)[i] = list.weight * (Scale \div (RRFK + i))
  BY <1>1 DEF Worth
<1>3. CASE d \notin Cited(list)
  <2>1. \A i \in 1..Len(list.cits) : Worth(list, d)[i] = 0
    BY <1>1, <1>2, <1>3 DEF Cited, Elements
  <2>2. Total(Worth(list, d)) = 0
    <3>1. 0 \in Nat /\ 0 \notin 1..Len(Worth(list, d))
      BY <1>1
    <3>2. \A j \in 1..Len(Worth(list, d)) : j # 0 => Worth(list, d)[j] = 0
      BY <1>1, <2>1
    <3>3. Total(Worth(list, d)) = IF 0 \in 1..Len(Worth(list, d)) THEN Worth(list, d)[0] ELSE 0
      BY <1>1, <3>1, <3>2, TotalTerm
    <3>. QED
      BY <3>1, <3>3
  <2>. QED
    BY <1>1, <1>3, <2>2
<1>4. CASE d \in Cited(list)
  <2>1. PICK i \in 1..Len(list.cits) : list.cits[i] = d
    BY <1>1, <1>4 DEF Cited, Elements
  <2>2. PICK j \in 1..(i - 1) : list.cits[j] = c
    BY <1>1, <2>1
  <2>3. \A k \in 1..Len(list.cits) : list.cits[k] = d => k = i
    BY <1>1, <2>1
  <2>4. j \in 1..Len(list.cits) /\ j < i /\ i \in 1..LongestList /\ j \in 1..LongestList /\ i \in Nat
    <3>1. LongestList \in Nat
      BY RetrievalConfig
    <3>2. i \in Nat /\ j \in Nat /\ i <= Len(list.cits) /\ 1 <= j /\ j < i
      OBVIOUS
    <3>. QED
      BY <1>1, <3>1, <3>2
  <2>5. Total(Worth(list, d)) = Worth(list, d)[i]
    <3>1. \A k \in 1..Len(Worth(list, d)) : k # i => Worth(list, d)[k] = 0
      BY <1>1, <1>2, <2>3
    <3>2. Total(Worth(list, d)) = IF i \in 1..Len(Worth(list, d)) THEN Worth(list, d)[i] ELSE 0
      BY <1>1, <2>4, <3>1, TotalTerm
    <3>. QED
      BY <1>1, <3>2
  <2>6. Worth(list, c)[j] <= Total(Worth(list, c))
    <3>1. j \in Nat /\ j \in 1..Len(Worth(list, c))
      BY <1>1, <2>4
    <3>. QED
      BY <1>1, <3>1, TotalTerm
  <2>7. Worth(list, d)[i] < Worth(list, c)[j]
    <3>. DEFINE p == Scale \div (RRFK + j)
                q == Scale \div (RRFK + i)
                w == list.weight
    <3>1. w \in Nat /\ w > 0
      BY DEF RankedList, BMWeight, SymbolWeight, CkvWeight
    <3>2. p \in Nat /\ q \in Nat /\ q < p
      BY <2>4, WorthLess
    <3>3. Worth(list, d)[i] = w * q /\ Worth(list, c)[j] = w * p
      BY <1>2, <2>1, <2>2, <2>4
    <3>. HIDE DEF p, q, w
    <3>4. w * q < w * p
      BY <3>1, <3>2
    <3>. QED
      BY <3>3, <3>4
  <2>8. Worth(list, d)[i] \in Nat /\ Worth(list, c)[j] \in Nat
    <3>1. \A s \in Seq(Nat) : \A k \in 1..Len(s) : s[k] \in Nat
      OBVIOUS
    <3>. QED
      BY <1>1, <2>4, <3>1, Zenon
  <2>. QED
    BY <1>1, <2>5, <2>6, <2>7, <2>8
<1>. QED
  BY <1>3, <1>4

\* Whatever the others say, the score of one that ranks better is higher.
LEMMA BetterScores ==
  ASSUME lists \in Seq(RankedList), NEW c \in Citations, NEW d \in Citations, RanksBetter(c, d),
         demoteTests /\ isTestPath(c) => isTestPath(d)
  PROVE  Score(c) \in Nat /\ Score(d) \in Nat /\ Score(d) < Score(c)
<1>. DEFINE terms(x) == [i \in DOMAIN lists |-> Contribution(lists[i], x)]
<1>1. DOMAIN lists = 1..Len(lists) /\ Len(lists) \in Nat /\ \A i \in 1..Len(lists) : lists[i] \in RankedList
  OBVIOUS
<1>2. \A x : /\ terms(x) \in Seq(Nat) /\ Len(terms(x)) = Len(lists) /\ Raw(x) = Total(terms(x)) /\ Raw(x) \in Nat
             /\ \A i \in 1..Len(lists) : terms(x)[i] = Contribution(lists[i], x)
  <2>. TAKE x
  <2>1. \A i \in 1..Len(lists) : Contribution(lists[i], x) \in Nat
    BY <1>1, WorthType
  <2>2. terms(x) \in Seq(Nat) /\ Len(terms(x)) = Len(lists)
    BY <1>1, <2>1
  <2>3. Raw(x) = Total(terms(x))
    BY DEF Raw
  <2>4. Total(terms(x)) \in Nat
    <3>. HIDE DEF terms
    <3>. QED
      BY <2>2, TotalType
  <2>. QED
    BY <1>1, <2>2, <2>3, <2>4
<1>3. c # d
  <2>1. PICK l \in Elements(lists) : d \in Cited(l)
    BY DEF RanksBetter
  <2>2. l \in RankedList
    BY <1>1, <2>1 DEF Elements
  <2>3. DOMAIN l.cits = 1..Len(l.cits) /\ Len(l.cits) \in Nat
    BY <2>2 DEF RankedList, Answers
  <2>. DEFINE At == {i \in DOMAIN l.cits : l.cits[i] = d}
  <2>4. At \in SUBSET Nat /\ At # {}
    BY <2>1, <2>3 DEF Cited, Elements
  <2>5. PICK i \in At : \A j \in At : i <= j
    <3>. HIDE DEF At
    <3>. QED
      BY <2>4, Least
  <2>6. PICK j \in 1..(i - 1) : l.cits[j] = c
    BY <2>1, <2>5 DEF RanksBetter
  <2>7. j \in DOMAIN l.cits /\ ~ (i <= j)
    <3>1. i \in 1..Len(l.cits)
      BY <2>3, <2>5
    <3>. QED
      BY <2>3, <3>1
  <2>. QED
    BY <2>5, <2>6, <2>7
<1>4. ASSUME NEW i \in 1..Len(lists)
      PROVE  /\ Contribution(lists[i], d) <= Contribution(lists[i], c)
             /\ d \in Cited(lists[i]) => Contribution(lists[i], d) < Contribution(lists[i], c)
  <2>1. lists[i] \in Elements(lists) /\ lists[i] \in RankedList
    BY <1>1 DEF Elements
  <2>2. \A k \in DOMAIN lists[i].cits : lists[i].cits[k] = d =>
           /\ \E j \in 1..k - 1 : lists[i].cits[j] = c
           /\ \A m \in DOMAIN lists[i].cits : lists[i].cits[m] = d => m = k
    BY <2>1 DEF RanksBetter
  <2>. QED
    BY <1>3, <2>1, <2>2, HigherWorth
<1>5. \E i \in 1..Len(lists) : d \in Cited(lists[i])
  <2>1. PICK l \in Elements(lists) : d \in Cited(l)
    BY DEF RanksBetter
  <2>. QED
    BY <1>1, <2>1 DEF Elements
<1>6. Raw(d) < Raw(c)
  <2>1. \A i \in 1..Len(terms(d)) : terms(d)[i] <= terms(c)[i]
    <3>. HIDE DEF terms
    <3>. QED
      BY <1>2, <1>4
  <2>2. \E i \in 1..Len(terms(d)) : terms(d)[i] < terms(c)[i]
    <3>. HIDE DEF terms
    <3>. QED
      BY <1>2, <1>4, <1>5
  <2>. HIDE DEF terms
  <2>3. Total(terms(d)) < Total(terms(c))
    <3>1. /\ terms(d) \in Seq(Nat) /\ terms(c) \in Seq(Nat) /\ Len(terms(d)) = Len(terms(c))
      BY <1>2
    <3>. QED
      BY <2>1, <2>2, <3>1, TotalLess
  <2>. QED
    BY <1>2, <2>3
<1>7. Raw(c) \in Nat /\ Raw(d) \in Nat
  BY <1>2
<1>. QED
  BY <1>6, <1>7 DEF Score

(***************************************************************************)
(* What a sort may make of a set: the whole of it in an order where nobody *)
(* comes after one it stands above.                                        *)
(***************************************************************************)
Sorted(p, S, score) ==
  /\ p \in Seq(S) /\ NoRepeat(p)
  /\ \A i \in DOMAIN p : \A d \in S : RankedAbove(score, d, p[i]) => \E j \in 1..(i - 1) : p[j] = d

LEMMA RankingsSorted ==
  ASSUME NEW S, IsFiniteSet(S), NEW score, NEW p \in Rankings(S, score)
  PROVE  Sorted(p, S, score)
<1>. DEFINE n == Cardinality(S)
            Nexts(q) == {c \in S \ Elements(q) : \A d \in S \ Elements(q) : ~ RankedAbove(score, d, c)}
            Longer(P) == UNION {{Append(q, c) : c \in Nexts(q)} : q \in P}
            V == SUBSET Seq(S)
            step == [i \in 1..n |-> [P \in V |-> Longer(P)]]
            Eq(f) == f = [i \in 0..n |-> IF i = 0 THEN {<<>>} ELSE Longer(f[i - 1])]
            all == CHOOSE f : Eq(f)
<1>1. n \in Nat
  BY FS_CardinalityType
<1>2. {<<>>} \in V /\ \A P \in V : Longer(P) \in V
  <2>1. \A q \in Seq(S), c \in S : Append(q, c) \in Seq(S)
    OBVIOUS
  <2>. QED
    BY <2>1
<1>3. step \in [1..n -> [V -> V]]
  <2>. HIDE DEF V, Longer, n
  <2>. QED
    BY <1>2
<1>4. \A i \in 1..n : i - 1 \in 0..n /\ i \in 0..n /\ i # 0
  BY <1>1
<1>5. \E f : Eq(f)
  <2>1. PICK f \in [0..n -> V] : f[0] = {<<>>} /\ \A i \in 1..n : f[i] = step[i][f[i - 1]]
    <3>1. \E f : Solves(f, n, V, {<<>>}, step)
      <4>. HIDE DEF step, V, n
      <4>. QED
        BY <1>1, <1>2, <1>3, RecursionExists
    <3>. HIDE DEF step, V, n
    <3>. QED
      BY <3>1 DEF Solves
  <2>2. \A i \in 1..n : f[i] = Longer(f[i - 1])
    <3>. HIDE DEF V, n, Longer
    <3>1. \A i \in 1..n : f[i - 1] \in V
      BY <1>4
    <3>. QED
      BY <2>1, <3>1
  <2>3. Eq(f)
    <3>. HIDE DEF V, step, Longer
    <3>1. \A i \in 0..n : i # 0 => i \in 1..n
      BY <1>1
    <3>2. f = [i \in 0..n |-> f[i]]
      OBVIOUS
    <3>. HIDE DEF n
    <3>. QED
      BY <2>1, <2>2, <3>1, <3>2
  <2>. QED
    BY <2>3
<1>6. Eq(all)
  <2>. HIDE DEF Eq
  <2>. QED
    BY <1>5
<1>7. Rankings(S, score) = all[n]
  BY DEF Rankings
<1>. HIDE DEF all
<1>8. all[0] = {<<>>} /\ \A i \in 1..n : all[i] = Longer(all[i - 1])
  <2>1. 0 \in 0..n
    BY <1>1
  <2>. HIDE DEF n, Longer
  <2>. QED
    BY <1>4, <1>6, <2>1
<1>. DEFINE G == {i \in Nat : \A q \in all[i] : Sorted(q, S, score)}
<1>9. 0 \in G
  <2>1. <<>> \in Seq(S) /\ DOMAIN <<>> = {}
    OBVIOUS
  <2>. QED
    BY <1>8, <2>1 DEF Sorted, NoRepeat
<1>10. ASSUME NEW i \in 1..n, i - 1 \in G PROVE i \in G
  <2>1. i \in Nat
    BY <1>1
  <2>2. ASSUME NEW q \in all[i] PROVE Sorted(q, S, score)
    <3>1. PICK b \in all[i - 1] : \E c \in Nexts(b) : q = Append(b, c)
      BY <1>8
    <3>2. PICK c \in Nexts(b) : q = Append(b, c)
      BY <3>1
    <3>3. /\ b \in Seq(S) /\ NoRepeat(b)
          /\ \A k \in DOMAIN b : \A d \in S :
               RankedAbove(score, d, b[k]) => \E j \in 1..(k - 1) : b[j] = d
      BY <1>10 DEF Sorted
    <3>4. c \in S /\ c \notin Elements(b) /\ \A d \in S \ Elements(b) : ~ RankedAbove(score, d, c)
      OBVIOUS
    <3>. HIDE DEF n
    <3>5. /\ q \in Seq(S) /\ DOMAIN b = 1..Len(b) /\ Len(b) \in Nat /\ DOMAIN q = 1..Len(b) + 1
          /\ q[Len(b) + 1] = c /\ \A k \in 1..Len(b) : q[k] = b[k]
      BY <3>2, <3>3, <3>4
    <3>6. \A k : k \in 1..Len(b) + 1 <=> k \in 1..Len(b) \/ k = Len(b) + 1
      BY <3>5
    <3>7. \A k \in 1..Len(b) : b[k] # c
      BY <3>4, <3>5 DEF Elements
    <3>8. NoRepeat(q)
      BY <3>3, <3>5, <3>6, <3>7 DEF NoRepeat
    <3>9. ASSUME NEW k \in DOMAIN q, NEW d \in S, RankedAbove(score, d, q[k])
          PROVE  \E j \in 1..(k - 1) : q[j] = d
      <4>1. CASE k \in 1..Len(b)
        <5>1. q[k] = b[k] /\ k \in DOMAIN b
          BY <3>5, <4>1
        <5>2. PICK j \in 1..(k - 1) : b[j] = d
          BY <3>3, <3>9, <5>1
        <5>3. j \in 1..Len(b)
          BY <3>5, <4>1
        <5>. QED
          BY <3>5, <5>2, <5>3
      <4>2. CASE k = Len(b) + 1
        <5>1. q[k] = c
          BY <3>5, <4>2
        <5>2. d \in Elements(b)
          BY <3>4, <3>9, <5>1
        <5>3. PICK j \in 1..Len(b) : b[j] = d
          BY <3>5, <5>2 DEF Elements
        <5>4. k - 1 = Len(b)
          BY <3>5, <4>2
        <5>. QED
          BY <3>5, <5>3, <5>4
      <4>. QED
        BY <3>5, <3>6, <4>1, <4>2
    <3>. QED
      BY <3>5, <3>8, <3>9 DEF Sorted
  <2>. QED
    BY <2>1, <2>2
<1>11. n \in G
  <2>. HIDE DEF G, n
  <2>1. 0..n \subseteq G
    BY <1>1, <1>9, <1>10, InductionUpTo
  <2>. QED
    BY <1>1, <2>1
<1>. QED
  BY <1>7, <1>11

LEMMA VocabularyType == MatchedKeywords \in Seq(Keywords)
<1>. DEFINE found == [i \in DOMAIN Glossary |->
               IF Glossary[i].aliases \intersect Elements(Prompt) # {} THEN Glossary[i].keywords ELSE <<>>]
<1>1. DOMAIN Glossary = 1..Len(Glossary) /\ Len(Glossary) \in Nat
  BY Suggestions
<1>2. \A i \in DOMAIN Glossary : found[i] \in Seq(Keywords)
  <2>1. <<>> \in Seq(Keywords)
    OBVIOUS
  <2>2. \A i \in DOMAIN Glossary : Glossary[i].keywords \in Seq(Keywords)
    BY RetrievalInputs
  <2>. QED
    BY <2>1, <2>2
<1>3. found \in Seq(Seq(Keywords))
  <2>1. found = [i \in 1..Len(Glossary) |-> found[i]]
    BY <1>1
  <2>2. found \in [1..Len(Glossary) -> Seq(Keywords)]
    <3>. HIDE DEF found
    <3>. QED
      BY <1>1, <1>2, <2>1
  <2>. HIDE DEF found
  <2>. QED
    BY <1>1, <2>2
<1>4. MatchedKeywords = Distinct(Flat(found))
  BY DEF MatchedKeywords
<1>. HIDE DEF found
<1>. QED
  BY <1>3, <1>4, FlatType, DistinctOf

LEMMA SuggestedType ==
  ASSUME NEW hs \in Seq(Hit)
  PROVE  extractKeywords(hs) \in Seq(Keywords)
<1>. DEFINE L == Len(leading) - 1
            joined == [i \in 1..L |-> Joined(i)]
            bare == [i \in DOMAIN Prompt |-> Bare(Prompt[i])]
            symbols == [i \in DOMAIN hs |-> SymbolOf[hs[i].cit]]
<1>1. Len(leading) \in Nat
  <2>1. Prompt \in Seq({Prompt[i] : i \in DOMAIN Prompt})
    BY Suggestions
  <2>. DEFINE T == {Prompt[i] : i \in DOMAIN Prompt}
  <2>. HIDE DEF T
  <2>2. FirstN(Prompt, 10) \in Seq(T)
    BY <2>1, FirstNType DEF T
  <2>. QED
    BY <2>2 DEF leading, maxCompoundTokens
<1>2. compoundCandidates \in Seq(Keywords)
  <2>1. \A i \in 1..L : joined[i] \in Seq(Keywords)
    BY Suggestions
  <2>2. PICK m \in Nat : 1..L = 1..m
    <3>1. CASE L \in Nat
      BY <3>1
    <3>2. CASE L \notin Nat
      <4>1. 1..L = 1..0
        BY <1>1, <3>2
      <4>. QED
        BY <4>1
    <3>. QED
      BY <3>1, <3>2
  <2>3. joined \in Seq(Seq(Keywords))
    <3>1. joined = [i \in 1..m |-> joined[i]]
      BY <2>2
    <3>2. joined \in [1..m -> Seq(Keywords)]
      <4>. HIDE DEF joined, L
      <4>. QED
        BY <2>1, <2>2, <3>1
    <3>. HIDE DEF joined
    <3>. QED
      BY <3>2
  <2>4. compoundCandidates = Flat(joined)
    BY DEF compoundCandidates
  <2>. HIDE DEF joined
  <2>. QED
    BY <2>3, <2>4, FlatType
<1>3. bare \in Seq(Keywords)
  <2>1. DOMAIN Prompt = 1..Len(Prompt) /\ Len(Prompt) \in Nat /\ \A i \in DOMAIN Prompt : Bare(Prompt[i]) \in Keywords
    BY Suggestions
  <2>. QED
    BY <2>1
<1>4. symbols \in Seq(Keywords)
  <2>1. \A i \in DOMAIN hs : hs[i] \in Hit
    OBVIOUS
  <2>2. \A i \in DOMAIN hs : SymbolOf[hs[i].cit] \in Keywords
    BY <2>1, RetrievalInputs DEF Hit
  <2>3. DOMAIN hs = 1..Len(hs) /\ Len(hs) \in Nat
    OBVIOUS
  <2>. QED
    BY <2>2, <2>3
<1>5. compoundCandidates \o bare \o symbols \in Seq(Keywords)
  <2>. HIDE DEF bare, symbols
  <2>1. compoundCandidates \o bare \in Seq(Keywords)
    BY <1>2, <1>3, Concatenated
  <2>. QED
    BY <1>4, <2>1, Concatenated
<1>6. extractKeywords(hs) = Distinct(compoundCandidates \o bare \o symbols)
  BY DEF extractKeywords
<1>. HIDE DEF bare, symbols
<1>. QED
  BY <1>5, <1>6, DistinctOf

\* The first n of a list, strongest first, keep the best.
LEMMA BestFirst ==
  ASSUME NEW kws \in Seq(Keywords), index \in Indexes, NEW n \in Nat
  PROVE  \A kw \in Elements(kws) \ Elements(FirstN(ByStrength(kws), n)),
            kept \in Elements(FirstN(ByStrength(kws), n)) :
              index.strength[kept] >= index.strength[kw]
<1>. DEFINE s == ByStrength(kws)
            f == FirstN(s, n)
<1>1. /\ s \in Seq(Keywords) /\ Elements(s) = Elements(kws) /\ DOMAIN s = DOMAIN kws
      /\ \A i, j \in DOMAIN kws : i < j => index.strength[s[i]] >= index.strength[s[j]]
  BY ByStrengthSorts
<1>. HIDE DEF s
<1>2. /\ f \in Seq(Keywords) /\ Len(f) = IF Len(s) < n THEN Len(s) ELSE n
      /\ \A i \in DOMAIN f : i \in DOMAIN s /\ f[i] = s[i]
  BY <1>1, FirstNType
<1>. HIDE DEF f
<1>3. ASSUME NEW kw \in Elements(kws), kw \notin Elements(f), NEW kept \in Elements(f)
      PROVE  index.strength[kept] >= index.strength[kw]
  <2>1. PICK j \in DOMAIN s : kw = s[j]
    BY <1>1 DEF Elements
  <2>2. PICK i \in DOMAIN f : kept = f[i]
    BY DEF Elements
  <2>3. j \notin DOMAIN f
    BY <1>2, <1>3, <2>1 DEF Elements
  <2>4. i < j
    <3>1. DOMAIN f = 1..Len(f) /\ DOMAIN s = 1..Len(s) /\ Len(f) \in Nat /\ Len(s) \in Nat
      BY <1>1, <1>2
    <3>. QED
      BY <1>2, <2>3, <3>1
  <2>. QED
    BY <1>1, <1>2, <2>1, <2>2, <2>4
<1>. QED
  BY <1>3 DEF s, f

\* A cut of a sort of everything listed is fair.
LEMMA FairRanking ==
  ASSUME lists \in Seq(RankedList), NEW n \in Nat,
         NEW all \in Rankings(UNION {Elements(l.cits) : l \in Elements(lists)}, [c \in Citations |-> Score(c)])
  PROVE  /\ FirstN(all, n) \in Seq(Citations) /\ NoRepeat(FirstN(all, n)) /\ Len(FirstN(all, n)) <= n
         /\ \A j \in DOMAIN FirstN(all, n) : \A c \in Citations :
              RanksBetter(c, FirstN(all, n)[j]) /\ (demoteTests /\ isTestPath(c) => isTestPath(FirstN(all, n)[j]))
                => \E i \in 1..(j - 1) : FirstN(all, n)[i] = c
<1>. DEFINE S == UNION {Elements(l.cits) : l \in Elements(lists)}
            score == [c \in Citations |-> Score(c)]
            cut == FirstN(all, n)
<1>1. S \subseteq Citations /\ IsFiniteSet(S)
  <2>1. \A l \in Elements(lists) : l \in RankedList
    BY DEF Elements
  <2>2. \A l \in RankedList : Elements(l.cits) \subseteq Citations
    <3>1. \A l \in RankedList : l.cits \in Seq(Citations)
      BY DEF RankedList, Answers
    <3>. QED
      BY <3>1 DEF Elements
  <2>3. S \subseteq Citations
    BY <2>1, <2>2
  <2>. QED
    BY <2>3, RetrievalInputs, FS_Subset
<1>2. Sorted(all, S, score)
  <2>. HIDE DEF S, score
  <2>1. all \in Rankings(S, score)
    BY DEF S, score
  <2>. QED
    BY <1>1, <2>1, RankingsSorted
<1>3. /\ all \in Seq(S) /\ NoRepeat(all)
      /\ \A i \in DOMAIN all : \A d \in S : RankedAbove(score, d, all[i]) => \E j \in 1..(i - 1) : all[j] = d
  BY <1>2 DEF Sorted
<1>. HIDE DEF S
<1>4. /\ cut \in Seq(S) /\ Len(cut) <= n
      /\ \A i \in DOMAIN cut : i \in DOMAIN all /\ cut[i] = all[i]
  BY <1>3, FirstNType
<1>. HIDE DEF cut
<1>5. cut \in Seq(Citations)
  BY <1>1, <1>4
<1>6. NoRepeat(cut)
  BY <1>3, <1>4 DEF NoRepeat
<1>7. ASSUME NEW j \in DOMAIN cut, NEW c \in Citations, RanksBetter(c, cut[j]),
             demoteTests /\ isTestPath(c) => isTestPath(cut[j])
      PROVE  \E i \in 1..(j - 1) : cut[i] = c
  <2>1. cut[j] \in Citations
    BY <1>5
  <2>2. Score(c) \in Nat /\ Score(cut[j]) \in Nat /\ Score(cut[j]) < Score(c)
    BY <1>7, <2>1, BetterScores
  <2>3. RankedAbove(score, c, all[j])
    <3>1. score[c] = Score(c) /\ score[cut[j]] = Score(cut[j]) /\ cut[j] = all[j]
      BY <1>4, <2>1
    <3>. HIDE DEF score
    <3>. QED
      BY <2>2, <3>1 DEF RankedAbove
  <2>4. c \in S
    <3>1. PICK l \in Elements(lists) : cut[j] \in Cited(l)
      BY <1>7 DEF RanksBetter
    <3>2. PICK k \in DOMAIN l.cits : l.cits[k] = cut[j]
      BY <3>1 DEF Cited, Elements
    <3>3. PICK m \in 1..(k - 1) : l.cits[m] = c
      BY <1>7, <3>1, <3>2 DEF RanksBetter
    <3>4. m \in DOMAIN l.cits
      <4>1. l \in RankedList
        BY <3>1 DEF Elements
      <4>2. DOMAIN l.cits = 1..Len(l.cits) /\ Len(l.cits) \in Nat
        BY <4>1 DEF RankedList, Answers
      <4>. QED
        BY <3>2, <4>2
    <3>. QED
      BY <3>1, <3>3, <3>4 DEF S, Elements
  <2>5. PICK i \in 1..(j - 1) : all[i] = c
    BY <1>3, <1>4, <2>3, <2>4
  <2>6. i \in DOMAIN cut
    <3>1. DOMAIN cut = 1..Len(cut) /\ Len(cut) \in Nat
      BY <1>4
    <3>. QED
      BY <3>1
  <2>. QED
    BY <1>4, <2>5, <2>6
<1>. QED
  BY <1>4, <1>5, <1>6, <1>7 DEF cut

(***************************************************************************)
(* The inductive invariant: what each stage has left for the next.         *)
(***************************************************************************)
\* Types, the lists of keywords all made of keywords the graph may be asked for.
StagesShape ==
  /\ pc \in {"resolve", "recall", "rerank", "knowledge", "fuse", "bm25", "symbol", "tests", "done", "error"}
  /\ intent \in Intents /\ index \in Indexes /\ round \in 1..MaxRounds /\ failures \in 0..FailuresAtMost
  /\ query \in Seq(Keywords) /\ suggested \in Seq(Keywords) /\ scored \in Seq(Keywords)
  /\ keywords \in Seq(Keywords) /\ remaining \in Seq(Keywords)
  /\ hits \in Seq(Hit) /\ answered \subseteq Citations
  /\ lists \in Seq(RankedList)

\* A hit is a citation's first.
HitsOnce == NoRepeat([i \in DOMAIN hits |-> hits[i].cit]) /\ {h.cit : h \in Elements(hits)} = answered

\* One query a round, each with the vocabulary, the next one too.
QueriesCounted ==
  /\ IsFiniteSet(queries)
  /\ Cardinality(queries) <= IF pc \in {"resolve", "recall"} THEN round - 1 ELSE round
  /\ QueriesKeepVocabulary
  /\ pc # "resolve" => Elements(MatchedKeywords) \subseteq Elements(query)

\* The keywords are those last scored, strongest first, and then capped.
KeywordsRanked ==
  /\ pc = "resolve" => round = 1
  /\ pc \in {"resolve", "error"} \/ (pc \in {"recall", "rerank"} /\ round = 1) => keywords = <<>>
  /\ pc = "knowledge" \/ (pc = "recall" /\ round > 1) => keywords = ByStrength(scored)
  /\ pc = "fuse" => keywords = FirstN(ByStrength(scored), MaxKeywords)
  /\ pc \notin {"recall", "rerank", "knowledge"} => Len(keywords) <= MaxKeywords

\* Stage 2 has not begun, or works on Stage 1's keywords.
Stage2Follows ==
  /\ pc \in {"resolve", "recall", "rerank", "knowledge", "fuse", "error"} => remaining = <<>> /\ grounded = {}
  /\ Elements(remaining) \subseteq Elements(keywords) /\ grounded \subseteq Elements(keywords)
  /\ pc = "symbol" => remaining # <<>>

RankedOnce ==
  /\ pc # "done" => ranked = <<>>
  /\ ranked \in Seq(Citations) /\ NoRepeat(ranked) /\ Len(ranked) <= DefaultMaxCitations

StagesInv ==
  /\ StagesShape /\ HitsOnce /\ QueriesCounted /\ KeywordsRanked /\ Stage2Follows
  /\ RankedOnce /\ FusionIsFair

LEMMA StagesStart == StagesInit => StagesInv
<1>. SUFFICES ASSUME StagesInit PROVE StagesInv
  OBVIOUS
<1>. USE DEF StagesInit
<1>1. StagesShape
  <2>1. 1 \in 1..MaxRounds /\ 0 \in 0..FailuresAtMost
    BY RetrievalConfig
  <2>2. <<>> \in Seq(Keywords) /\ <<>> \in Seq(Hit) /\ <<>> \in Seq(RankedList)
    OBVIOUS
  <2>. QED
    BY <2>1, <2>2 DEF StagesShape
<1>2. HitsOnce
  BY DEF HitsOnce, NoRepeat, Elements
<1>3. QueriesCounted
  BY FS_EmptySet DEF QueriesCounted, QueriesKeepVocabulary
<1>4. KeywordsRanked
  <2>1. MaxKeywords \in Nat /\ Len(<<>>) = 0
    BY RetrievalConfig
  <2>. QED
    BY <2>1 DEF KeywordsRanked
<1>5. Stage2Follows
  BY DEF Stage2Follows, Elements
<1>6. RankedOnce
  <2>1. DefaultMaxCitations \in Nat /\ <<>> \in Seq(Citations) /\ Len(<<>>) = 0 /\ NoRepeat(<<>>)
    BY RetrievalConfig DEF NoRepeat
  <2>. QED
    BY <2>1 DEF RankedOnce
<1>7. FusionIsFair
  BY DEF FusionIsFair
<1>. QED
  BY <1>1, <1>2, <1>3, <1>4, <1>5, <1>6, <1>7 DEF StagesInv

(***************************************************************************)
(* The steps, one part of the invariant at a time.                         *)
(***************************************************************************)
LEMMA ListAdded ==
  ASSUME StagesShape, NEW w \in {BMWeight, SymbolWeight, CkvWeight}, NEW cits \in Answers, AddList(w, cits)
  PROVE  lists' \in Seq(RankedList)
<1>1. [weight |-> w, cits |-> cits] \in RankedList
  BY DEF RankedList
<1>2. lists \in Seq(RankedList)
  BY DEF StagesShape
<1>. QED
  BY <1>1, <1>2 DEF AddList

\* What the hits are worth fits the longest list: no citation is hit twice.
LEMMA HitListType ==
  ASSUME StagesShape, HitsOnce
  PROVE  [i \in DOMAIN hits |-> hits[i].cit] \in Answers
<1>. DEFINE cits == [i \in DOMAIN hits |-> hits[i].cit]
<1>1. DOMAIN hits = 1..Len(hits) /\ Len(hits) \in Nat /\ \A i \in DOMAIN hits : hits[i] \in Hit
  BY DEF StagesShape
<1>2. \A i \in DOMAIN hits : hits[i].cit \in Citations
  BY <1>1 DEF Hit
<1>3. /\ cits \in Seq(Citations) /\ Len(cits) = Len(hits)
      /\ DOMAIN cits = 1..Len(hits) /\ cits \in [1..Len(hits) -> Citations]
  BY <1>1, <1>2
<1>. HIDE DEF cits
<1>4. cits \in Injection(1..Len(hits), Citations)
  <2>1. \A i, j \in 1..Len(hits) : cits[i] = cits[j] => i = j
    BY <1>3 DEF HitsOnce, NoRepeat, cits
  <2>. QED
    BY <1>3, <2>1 DEF Injection, IsInjective
<1>5. Len(hits) <= Cardinality(Citations)
  <2>1. IsFiniteSet(1..Len(hits)) /\ Cardinality(1..Len(hits)) = Len(hits)
    BY <1>1, UpTo, Zenon
  <2>2. IsFiniteSet(Citations)
    BY RetrievalInputs, Zenon
  <2>3. Cardinality(1..Len(hits)) <= Cardinality(Citations)
    BY <1>4, <2>1, <2>2, FS_Injection, Zenon
  <2>. QED
    BY <2>1, <2>3, Zenon
<1>6. Cardinality(Citations) <= LongestList /\ Cardinality(Citations) \in Nat /\ LongestList \in Nat
  BY RetrievalInputs, RetrievalConfig, FS_CardinalityType
<1>7. cits \in Answers
  BY <1>1, <1>3, <1>5, <1>6 DEF Answers
<1>. QED
  BY <1>7 DEF cits

LEMMA SymbolsType ==
  ASSUME StagesShape, NEW kw \in Keywords
  PROVE  SymbolsOf(kw) \in Answers /\ index.bm25[kw] \in Answers /\ index.tests[kw] \in Answers
<1>1. index.symbols[kw] \in Answers /\ index.bm25[kw] \in Answers /\ index.tests[kw] \in Answers
  BY IndexTypes DEF StagesShape
<1>2. /\ index.symbols[kw] \in Seq(Citations)
      /\ Len(index.symbols[kw]) <= LongestList /\ Len(index.symbols[kw]) \in Nat
  BY <1>1 DEF Answers
<1>. DEFINE D == {c \in Citations : intentToKinds(intent) = {} \/ SymbolKind[c] \in intentToKinds(intent)}
<1>3. /\ Kept(index.symbols[kw], D) \in Seq(Citations \intersect D)
      /\ Len(Kept(index.symbols[kw], D)) <= Len(index.symbols[kw])
  <2>. HIDE DEF D
  <2>. QED
    BY <1>2, KeptType
<1>. HIDE DEF D
<1>4. Kept(index.symbols[kw], D) \in Seq(Citations) /\ Len(Kept(index.symbols[kw], D)) \in Nat
  BY <1>3
<1>5. Len(Kept(index.symbols[kw], D)) <= LongestList
  BY <1>2, <1>3, <1>4, RetrievalConfig
<1>6. SymbolsOf(kw) = Kept(index.symbols[kw], D)
  BY DEF SymbolsOf, D
<1>. QED
  BY <1>1, <1>4, <1>5, <1>6 DEF Answers

LEMMA HeadRemaining ==
  ASSUME StagesShape, Stage2Follows, remaining # <<>>
  PROVE  /\ Head(remaining) \in Keywords /\ Head(remaining) \in Elements(keywords)
         /\ Tail(remaining) \in Seq(Keywords) /\ Elements(Tail(remaining)) \subseteq Elements(keywords)
<1>1. remaining \in Seq(Keywords) /\ Elements(remaining) \subseteq Elements(keywords)
  BY DEF StagesShape, Stage2Follows
<1>2. /\ Head(remaining) \in Elements(remaining) /\ Tail(remaining) \in Seq(Keywords)
      /\ Elements(Tail(remaining)) \subseteq Elements(remaining)
  BY <1>1, TailElements
<1>3. Head(remaining) \in Keywords
  BY <1>1
<1>. QED
  BY <1>1, <1>2, <1>3

LEMMA MoreHits ==
  ASSUME StagesShape, HitsOnce, NEW found \in Recalls \union KnowledgeRecalls \union {<<>>},
         hits' = mergeHits(hits, found), answered' = answered \union {h.cit : h \in Elements(found)}
  PROVE  hits' \in Seq(Hit) /\ answered' \subseteq Citations /\ HitsOnce'
<1>1. found \in Seq(Hit) /\ hits \in Seq(Hit) /\ answered \subseteq Citations
  <2>1. <<>> \in Seq(Hit)
    OBVIOUS
  <2>. QED
    BY <2>1, RetrievalInputs DEF StagesShape
<1>2. /\ mergeHits(hits, found) \in Seq(Hit)
      /\ NoRepeat([i \in DOMAIN mergeHits(hits, found) |-> mergeHits(hits, found)[i].cit])
      /\ {h.cit : h \in Elements(mergeHits(hits, found))}
           = {h.cit : h \in Elements(hits)} \union {h.cit : h \in Elements(found)}
  BY <1>1, MergedHits DEF HitsOnce
<1>3. {h.cit : h \in Elements(found)} \subseteq Citations
  <2>1. \A h \in Elements(found) : h \in Hit
    BY <1>1 DEF Elements
  <2>. QED
    BY <2>1 DEF Hit
<1>4. HitsOnce'
  <2>1. NoRepeat([i \in DOMAIN hits' |-> hits'[i].cit])
    BY <1>2
  <2>2. {h.cit : h \in Elements(hits')} = answered'
    BY <1>2 DEF HitsOnce
  <2>. QED
    BY <2>1, <2>2 DEF HitsOnce
<1>. QED
  BY <1>1, <1>2, <1>3, <1>4

LEMMA HitsStep ==
  ASSUME StagesShape, HitsOnce, StagesNext
  PROVE  HitsOnce' /\ hits' \in Seq(Hit) /\ answered' \subseteq Citations
<1>1. CASE UNCHANGED <<hits, answered>>
  BY <1>1 DEF HitsOnce, StagesShape
<1>2. CASE Recall
  <2>1. PICK found \in Recalls : /\ hits' = mergeHits(hits, found)
                                 /\ answered' = answered \union {h.cit : h \in Elements(found)}
    BY <1>2 DEF Recall
  <2>. QED
    BY <2>1, MoreHits
<1>3. CASE KnowledgePass
  <2>1. CASE \E found \in IF KnowledgeK > 0 THEN KnowledgeRecalls ELSE {<<>>} :
               /\ hits' = mergeHits(hits, found)
               /\ answered' = answered \union {h.cit : h \in Elements(found)}
    <3>1. PICK found \in KnowledgeRecalls \union {<<>>} :
               /\ hits' = mergeHits(hits, found)
               /\ answered' = answered \union {h.cit : h \in Elements(found)}
      BY <2>1
    <3>. QED
      BY <3>1, MoreHits
  <2>. QED
    BY <1>1, <1>3, <2>1 DEF KnowledgePass
<1>4. StagesNext => Recall \/ KnowledgePass \/ UNCHANGED <<hits, answered>>
  BY DEF StagesNext, ResolveVocabulary, RecallFails, RerankKeyword, FinishRound, FuseHits, SearchText,
         FindSymbol, FinishKeywords, SearchTests, Results, stage1Vars
<1>. QED
  BY <1>1, <1>2, <1>3, <1>4

LEMMA ShapeStep ==
  ASSUME StagesInv, StagesNext
  PROVE  StagesShape'
<1>. USE DEF StagesInv
<1>1. hits' \in Seq(Hit) /\ answered' \subseteq Citations
  BY HitsStep
<1>2. /\ intent \in Intents /\ index \in Indexes /\ round \in 1..MaxRounds /\ failures \in 0..FailuresAtMost
      /\ query \in Seq(Keywords) /\ suggested \in Seq(Keywords) /\ scored \in Seq(Keywords)
      /\ keywords \in Seq(Keywords) /\ remaining \in Seq(Keywords) /\ lists \in Seq(RankedList)
  BY DEF StagesShape
<1>3. \A i \in 0..FailuresAtMost : i < FailuresAtMost => i + 1 \in 0..FailuresAtMost
  BY RetrievalConfig
<1>4. Fails \/ failures' = failures => failures' \in 0..FailuresAtMost
  BY <1>2, <1>3 DEF Fails
<1>5. CASE ResolveVocabulary
  BY <1>1, <1>2, <1>5, VocabularyType DEF ResolveVocabulary, stage2Vars, StagesShape
<1>6. CASE Recall
  <2>1. extractKeywords(hits') \in Seq(Keywords) /\ <<>> \in Seq(Keywords)
    BY <1>1, SuggestedType
  <2>. QED
    BY <1>1, <1>2, <1>6, <2>1 DEF Recall, stage2Vars, StagesShape
<1>7. CASE RecallFails
  BY <1>1, <1>2, <1>4, <1>7 DEF RecallFails, stage1Vars, stage2Vars, StagesShape
<1>8. CASE RerankKeyword
  <2>1. suggested # <<>>
    BY <1>8 DEF RerankKeyword
  <2>2. Head(suggested) \in Keywords /\ Tail(suggested) \in Seq(Keywords)
    BY <1>2, <2>1
  <2>3. Append(scored, Head(suggested)) \in Seq(Keywords)
    BY <1>2, <2>2
  <2>4. scored' \in Seq(Keywords) /\ failures' \in 0..FailuresAtMost /\ suggested' \in Seq(Keywords)
    BY <1>2, <1>4, <1>8, <2>2, <2>3 DEF RerankKeyword
  <2>. QED
    BY <1>1, <1>2, <1>8, <2>4 DEF RerankKeyword, stage2Vars, StagesShape
<1>9. CASE FinishRound
  <2>1. keywords' \in Seq(Keywords)
    BY <1>2, <1>9, ByStrengthSorts DEF FinishRound
  <2>2. round' \in 1..MaxRounds
    <3>1. round # MaxRounds => round + 1 \in 1..MaxRounds
      <4>1. MaxRounds \in Nat
        BY RetrievalConfig
      <4>. QED
        BY <1>2, <4>1
    <3>. QED
      BY <1>2, <1>9, <3>1 DEF FinishRound
  <2>3. query' \in Seq(Keywords)
    <3>1. AugmentTopN \in Nat
      BY RetrievalConfig
    <3>2. FirstN(keywords', AugmentTopN) \in Seq(Keywords)
      BY <2>1, <3>1, FirstNType
    <3>3. augmentQuery(keywords') \in Seq(Keywords)
      BY <3>2, VocabularyType, Concatenated DEF augmentQuery
    <3>. QED
      BY <1>2, <1>9, <3>3 DEF FinishRound
  <2>4. pc' \in {"recall", "knowledge"}
    BY <1>9 DEF FinishRound
  <2>. QED
    BY <1>1, <1>2, <1>9, <2>1, <2>2, <2>3, <2>4 DEF FinishRound, stage2Vars, StagesShape
<1>10. CASE KnowledgePass
  <2>1. keywords' \in Seq(Keywords)
    <3>1. MaxKeywords \in Nat
      BY RetrievalConfig
    <3>. QED
      BY <1>2, <1>10, <3>1, FirstNType DEF KnowledgePass
  <2>2. failures' \in 0..FailuresAtMost
    BY <1>4, <1>10 DEF KnowledgePass
  <2>. QED
    BY <1>1, <1>2, <1>10, <2>1, <2>2 DEF KnowledgePass, stage2Vars, StagesShape
<1>11. CASE FuseHits
  <2>1. lists' \in Seq(RankedList)
    BY <1>11, HitListType, ListAdded DEF FuseHits
  <2>. QED
    BY <1>1, <1>2, <1>11, <2>1 DEF FuseHits, stage1Vars, StagesShape
<1>12. CASE SearchText
  <2>1. remaining # <<>>
    BY <1>12 DEF SearchText
  <2>2. index.bm25[Head(remaining)] \in Answers
    BY <2>1, HeadRemaining, SymbolsType
  <2>3. lists' \in Seq(RankedList) /\ failures' \in 0..FailuresAtMost
    BY <1>2, <1>4, <1>12, <2>2, ListAdded DEF SearchText
  <2>. QED
    BY <1>1, <1>2, <1>12, <2>3 DEF SearchText, stage1Vars, StagesShape
<1>13. CASE FindSymbol
  <2>1. remaining # <<>>
    BY <1>13 DEF FindSymbol, Stage2Follows
  <2>2. SymbolsOf(Head(remaining)) \in Answers /\ Tail(remaining) \in Seq(Keywords)
    BY <2>1, HeadRemaining, SymbolsType
  <2>3. lists' \in Seq(RankedList) /\ failures' \in 0..FailuresAtMost
    BY <1>2, <1>4, <1>13, <2>2, ListAdded DEF FindSymbol
  <2>. QED
    BY <1>1, <1>2, <1>13, <2>2, <2>3 DEF FindSymbol, stage1Vars, StagesShape
<1>14. CASE FinishKeywords
  <2>1. remaining' \in Seq(Keywords)
    BY <1>2, <1>14 DEF FinishKeywords
  <2>. QED
    BY <1>1, <1>2, <1>14, <2>1 DEF FinishKeywords, stage1Vars, StagesShape
<1>15. CASE SearchTests
  <2>1. remaining # <<>>
    BY <1>15 DEF SearchTests
  <2>2. index.tests[Head(remaining)] \in Answers /\ Tail(remaining) \in Seq(Keywords)
    BY <2>1, HeadRemaining, SymbolsType
  <2>3. lists' \in Seq(RankedList) /\ failures' \in 0..FailuresAtMost
    BY <1>2, <1>4, <1>15, <2>2, ListAdded DEF SearchTests
  <2>. QED
    BY <1>1, <1>2, <1>15, <2>2, <2>3 DEF SearchTests, stage1Vars, StagesShape
<1>16. CASE Results
  BY <1>1, <1>2, <1>16 DEF Results, stage1Vars, StagesShape
<1>. QED
  BY <1>5, <1>6, <1>7, <1>8, <1>9, <1>10, <1>11, <1>12, <1>13, <1>14, <1>15, <1>16 DEF StagesNext

LEMMA QueriesStep ==
  ASSUME StagesInv, StagesNext
  PROVE  QueriesCounted'
<1>. USE DEF StagesInv
<1>1. round \in 1..MaxRounds /\ round \in Nat
  BY RetrievalConfig DEF StagesShape
<1>2. /\ IsFiniteSet(queries) /\ Cardinality(queries) \in Nat
      /\ \A q \in queries : Elements(MatchedKeywords) \subseteq Elements(q)
      /\ pc # "resolve" => Elements(MatchedKeywords) \subseteq Elements(query)
      /\ Cardinality(queries) <= IF pc \in {"resolve", "recall"} THEN round - 1 ELSE round
  BY FS_CardinalityType DEF QueriesCounted, QueriesKeepVocabulary
<1>. USE DEF QueriesCounted, QueriesKeepVocabulary
<1>3. CASE ResolveVocabulary
  BY <1>2, <1>3 DEF ResolveVocabulary
<1>4. CASE Recall
  <2>1. IsFiniteSet(queries \union {query}) /\ Cardinality(queries \union {query}) <= Cardinality(queries) + 1
    BY <1>2, FS_AddElement
  <2>2. Cardinality(queries \union {query}) \in Nat
    BY <2>1, FS_CardinalityType
  <2>3. pc = "recall" /\ queries' = queries \union {query} /\ pc' = "rerank" /\ UNCHANGED <<round, query>>
    BY <1>4 DEF Recall
  <2>4. Cardinality(queries') <= round'
    BY <1>1, <1>2, <2>1, <2>2, <2>3
  <2>. QED
    BY <1>2, <2>1, <2>3, <2>4
<1>5. CASE RecallFails
  <2>1. pc = "recall" /\ pc' \notin {"resolve", "recall"} /\ UNCHANGED <<queries, round, query>>
    BY <1>5 DEF RecallFails, stage1Vars
  <2>. QED
    BY <1>1, <1>2, <2>1
<1>6. CASE FinishRound
  <2>1. pc = "rerank" /\ UNCHANGED queries
    BY <1>6 DEF FinishRound
  <2>2. CASE pc' = "knowledge" /\ UNCHANGED <<round, query>>
    BY <1>2, <2>1, <2>2
  <2>3. CASE pc' = "recall" /\ round' = round + 1 /\ query' = augmentQuery(keywords')
    <3>1. Elements(MatchedKeywords) \subseteq Elements(query')
      <4>1. MatchedKeywords \in Seq(Keywords) /\ AugmentTopN \in Nat
        BY VocabularyType, RetrievalConfig
      <4>2. keywords' \in Seq(Keywords)
        BY ShapeStep DEF StagesShape
      <4>3. FirstN(keywords', AugmentTopN) \in Seq(Keywords)
        BY <4>1, <4>2, FirstNType
      <4>. DEFINE v == MatchedKeywords
                  more == FirstN(keywords', AugmentTopN)
      <4>. HIDE DEF v, more
      <4>4. v \in Seq(Keywords) /\ more \in Seq(Keywords)
        BY <4>1, <4>3 DEF v, more
      <4>5. \A i \in DOMAIN v : i \in DOMAIN (v \o more) /\ (v \o more)[i] = v[i]
        BY <4>4
      <4>6. query' = v \o more
        BY <2>3 DEF augmentQuery, v, more
      <4>7. Elements(v) \subseteq Elements(query')
        BY <4>5, <4>6 DEF Elements
      <4>. QED
        BY <4>7 DEF v
    <3>2. Cardinality(queries') <= round' - 1
      BY <1>1, <1>2, <2>1, <2>3
    <3>. QED
      BY <1>2, <2>1, <2>3, <3>1, <3>2
  <2>. QED
    BY <1>6, <2>2, <2>3 DEF FinishRound
<1>7. CASE UNCHANGED <<queries, query, round>> /\ pc \notin {"resolve", "recall"} /\ pc' \notin {"resolve", "recall"}
  BY <1>2, <1>7
<1>8. \/ ResolveVocabulary \/ Recall \/ RecallFails \/ FinishRound
      \/ UNCHANGED <<queries, query, round>> /\ pc \notin {"resolve", "recall"} /\ pc' \notin {"resolve", "recall"}
  BY DEF StagesNext, RerankKeyword, KnowledgePass, FuseHits, SearchText, FindSymbol, FinishKeywords,
         SearchTests, Results, stage1Vars
<1>. QED
  BY <1>3, <1>4, <1>5, <1>6, <1>7, <1>8

LEMMA KeywordsStep ==
  ASSUME StagesInv, StagesNext
  PROVE  KeywordsRanked'
<1>. USE DEF StagesInv
<1>0. round \in 1..MaxRounds /\ MaxKeywords \in Nat /\ scored \in Seq(Keywords) /\ index \in Indexes /\ Len(<<>>) = 0
  BY RetrievalConfig DEF StagesShape
<1>1. CASE ResolveVocabulary
  BY <1>0, <1>1 DEF ResolveVocabulary, KeywordsRanked
<1>2. CASE Recall
  BY <1>0, <1>2 DEF Recall, KeywordsRanked
<1>3. CASE RecallFails
  <2>1. ByStrength(scored)' = ByStrength(scored)
    BY <1>3 DEF RecallFails, stage1Vars, ByStrength, goesBefore
  <2>2. pc = "recall" /\ pc' = (IF round = 1 THEN "error" ELSE "knowledge") /\ UNCHANGED <<keywords, round>>
    BY <1>3 DEF RecallFails, stage1Vars
  <2>. QED
    BY <1>0, <2>1, <2>2 DEF KeywordsRanked
<1>4. CASE RerankKeyword
  BY <1>0, <1>4 DEF RerankKeyword, KeywordsRanked
<1>5. CASE FinishRound
  <2>1. ByStrength(scored)' = ByStrength(scored)
    BY <1>5 DEF FinishRound, ByStrength, goesBefore
  <2>2. keywords' = ByStrength(scored)' /\ (pc' = "knowledge" \/ (pc' = "recall" /\ round' = round + 1))
    BY <1>5, <2>1 DEF FinishRound
  <2>3. round + 1 # 1
    BY <1>0
  <2>. QED
    BY <2>2, <2>3 DEF KeywordsRanked
<1>6. CASE KnowledgePass
  <2>1. ByStrength(scored)' = ByStrength(scored)
    BY <1>6 DEF KnowledgePass, ByStrength, goesBefore
  <2>2. pc = "knowledge" /\ pc' = "fuse" /\ keywords' = FirstN(keywords, MaxKeywords)
    BY <1>6 DEF KnowledgePass
  <2>3. keywords = ByStrength(scored)
    BY <2>2 DEF KeywordsRanked
  <2>4. FirstN(ByStrength(scored), MaxKeywords)' = FirstN(ByStrength(scored), MaxKeywords)
    BY <2>1 DEF FirstN
  <2>5. Len(keywords') <= MaxKeywords
    <3>1. ByStrength(scored) \in Seq(Keywords)
      BY <1>0, ByStrengthSorts
    <3>. QED
      BY <1>0, <2>2, <2>3, <3>1, FirstNType
  <2>. QED
    BY <2>2, <2>3, <2>4, <2>5 DEF KeywordsRanked
<1>7. CASE /\ UNCHANGED keywords /\ pc \in {"fuse", "bm25", "symbol", "tests"}
           /\ pc' \in {"bm25", "symbol", "tests", "done"}
  BY <1>7 DEF KeywordsRanked
<1>8. \/ ResolveVocabulary \/ Recall \/ RecallFails \/ RerankKeyword \/ FinishRound \/ KnowledgePass
      \/ /\ UNCHANGED keywords /\ pc \in {"fuse", "bm25", "symbol", "tests"}
         /\ pc' \in {"bm25", "symbol", "tests", "done"}
  BY DEF StagesNext, FuseHits, SearchText, FindSymbol, FinishKeywords, SearchTests, Results, stage1Vars
<1>. QED
  BY <1>1, <1>2, <1>3, <1>4, <1>5, <1>6, <1>7, <1>8

LEMMA Stage2Step ==
  ASSUME StagesInv, StagesNext
  PROVE  Stage2Follows'
<1>. USE DEF StagesInv
<1>1. CASE UNCHANGED <<remaining, grounded>> /\ pc \in {"resolve", "recall", "rerank", "knowledge"} /\ pc' # "symbol"
  BY <1>1 DEF Stage2Follows, Elements
<1>2. CASE FuseHits
  BY <1>2 DEF FuseHits, Stage2Follows, stage1Vars, Elements
<1>3. CASE SearchText
  <2>1. remaining # <<>> /\ pc' = "symbol" /\ UNCHANGED <<remaining, keywords>>
    BY <1>3 DEF SearchText, stage1Vars
  <2>2. Head(remaining) \in Elements(keywords)
    BY <2>1, HeadRemaining
  <2>3. grounded' \subseteq Elements(keywords)
    BY <1>3, <2>2 DEF SearchText, Stage2Follows
  <2>. QED
    BY <2>1, <2>3 DEF Stage2Follows, Elements
<1>4. CASE FindSymbol
  <2>1. remaining # <<>> /\ pc' = "bm25" /\ remaining' = Tail(remaining) /\ UNCHANGED keywords
    BY <1>4 DEF FindSymbol, stage1Vars, Stage2Follows
  <2>2. Head(remaining) \in Elements(keywords) /\ Elements(Tail(remaining)) \subseteq Elements(keywords)
    BY <2>1, HeadRemaining
  <2>3. grounded' \subseteq Elements(keywords)
    BY <1>4, <2>2 DEF FindSymbol, Stage2Follows
  <2>. QED
    BY <2>1, <2>2, <2>3 DEF Stage2Follows
<1>5. CASE FinishKeywords
  <2>1. pc' = "tests" /\ remaining' = (IF intent = "test_add" THEN keywords ELSE <<>>) /\ UNCHANGED <<keywords, grounded>>
    BY <1>5 DEF FinishKeywords, stage1Vars
  <2>2. Elements(<<>>) = {}
    BY DEF Elements
  <2>. QED
    BY <2>1, <2>2 DEF Stage2Follows
<1>6. CASE SearchTests
  <2>1. remaining # <<>> /\ pc' = "tests" /\ remaining' = Tail(remaining) /\ UNCHANGED <<keywords, grounded>>
    BY <1>6 DEF SearchTests, stage1Vars
  <2>2. Elements(Tail(remaining)) \subseteq Elements(keywords)
    BY <2>1, HeadRemaining
  <2>. QED
    BY <2>1, <2>2 DEF Stage2Follows
<1>7. CASE Results
  BY <1>7 DEF Results, stage1Vars, Stage2Follows
<1>8. \/ UNCHANGED <<remaining, grounded>> /\ pc \in {"resolve", "recall", "rerank", "knowledge"} /\ pc' # "symbol"
      \/ FuseHits \/ SearchText \/ FindSymbol \/ FinishKeywords \/ SearchTests \/ Results
  BY DEF StagesNext, ResolveVocabulary, Recall, RecallFails, RerankKeyword, FinishRound, KnowledgePass, stage2Vars
<1>. QED
  BY <1>1, <1>2, <1>3, <1>4, <1>5, <1>6, <1>7, <1>8

LEMMA ResultsStep ==
  ASSUME StagesInv, StagesNext
  PROVE  RankedOnce' /\ FusionIsFair'
<1>. USE DEF StagesInv
<1>1. CASE Results
  <2>1. PICK all \in Rankings(UNION {Elements(l.cits) : l \in Elements(lists)}, [c \in Citations |-> Score(c)]) :
          ranked' = FirstN(all, DefaultMaxCitations)
    BY <1>1 DEF Results
  <2>2. pc' = "done" /\ UNCHANGED <<lists, intent>>
    BY <1>1 DEF Results, stage1Vars
  <2>3. /\ ranked' \in Seq(Citations) /\ NoRepeat(ranked') /\ Len(ranked') <= DefaultMaxCitations
        /\ \A j \in DOMAIN ranked' : \A c \in Citations :
             RanksBetter(c, ranked'[j]) /\ (demoteTests /\ isTestPath(c) => isTestPath(ranked'[j]))
               => \E i \in 1..(j - 1) : ranked'[i] = c
    <3>. DEFINE cut == FirstN(all, DefaultMaxCitations)
    <3>1. lists \in Seq(RankedList) /\ DefaultMaxCitations \in Nat
      BY RetrievalConfig DEF StagesShape
    <3>2. /\ cut \in Seq(Citations) /\ NoRepeat(cut) /\ Len(cut) <= DefaultMaxCitations
          /\ \A j \in DOMAIN cut : \A c \in Citations :
               RanksBetter(c, cut[j]) /\ (demoteTests /\ isTestPath(c) => isTestPath(cut[j]))
                 => \E i \in 1..(j - 1) : cut[i] = c
      BY <3>1, FairRanking
    <3>3. ranked' = cut
      BY <2>1
    <3>. HIDE DEF cut
    <3>. QED
      BY <3>2, <3>3, Zenon
  <2>4. FusionIsFair'
    BY <2>2, <2>3 DEF FusionIsFair, RanksBetter, demoteTests
  <2>. QED
    BY <2>2, <2>3, <2>4 DEF RankedOnce, NoRepeat
<1>2. CASE ranked' = ranked /\ pc # "done"
  <2>1. ranked' = <<>>
    BY <1>2 DEF RankedOnce
  <2>2. FusionIsFair'
    BY <2>1 DEF FusionIsFair
  <2>. QED
    BY <1>2, <2>1, <2>2 DEF RankedOnce
<1>3. Results \/ (ranked' = ranked /\ pc # "done")
  BY DEF StagesNext, ResolveVocabulary, Recall, RecallFails, RerankKeyword, FinishRound, KnowledgePass,
         FuseHits, SearchText, FindSymbol, FinishKeywords, SearchTests, stage2Vars
<1>. QED
  BY <1>1, <1>2, <1>3

LEMMA StagesStutter == StagesInv /\ UNCHANGED stagesVars => StagesInv'
<1>. SUFFICES ASSUME StagesInv, UNCHANGED stagesVars PROVE StagesInv'
  OBVIOUS
<1>1. UNCHANGED <<pc, intent, index, round, query, queries, hits, answered, suggested, scored, keywords, remaining,
                  lists, grounded, ranked, failures>>
  BY DEF stagesVars, stage1Vars, stage2Vars
<1>2. StagesShape' /\ HitsOnce' /\ QueriesCounted' /\ Stage2Follows' /\ RankedOnce'
  BY <1>1 DEF StagesInv, StagesShape, HitsOnce, QueriesCounted, QueriesKeepVocabulary, Stage2Follows, RankedOnce
<1>3. KeywordsRanked'
  <2>1. ByStrength(scored)' = ByStrength(scored)
    BY <1>1 DEF ByStrength, goesBefore
  <2>. QED
    BY <1>1, <2>1 DEF StagesInv, KeywordsRanked
<1>4. FusionIsFair'
  BY <1>1 DEF StagesInv, FusionIsFair, RanksBetter, demoteTests
<1>. QED
  BY <1>2, <1>3, <1>4 DEF StagesInv

\* Every state of stages 1 and 2 satisfies the invariant, however the searches
\* answer or fail.
THEOREM StagesInvariant == StagesSpec => []StagesInv
<1>1. StagesInit => StagesInv
  BY StagesStart
<1>2. StagesInv /\ [StagesNext]_stagesVars => StagesInv'
  <2>1. StagesInv /\ StagesNext => StagesInv'
    BY ShapeStep, HitsStep, QueriesStep, KeywordsStep, Stage2Step, ResultsStep DEF StagesInv
  <2>. QED
    BY <2>1, StagesStutter
<1>. QED
  BY <1>1, <1>2, PTL DEF StagesSpec

LEMMA OnceIsCounted ==
  ASSUME NEW T, NEW s \in Seq(T), NoRepeat(s)
  PROVE  IsFiniteSet(Elements(s)) /\ Cardinality(Elements(s)) = Len(s)
<1>1. Len(s) \in Nat /\ DOMAIN s = 1..Len(s) /\ s \in [1..Len(s) -> Elements(s)]
  BY DEF Elements
<1>2. s \in Bijection(1..Len(s), Elements(s))
  BY <1>1 DEF Bijection, Injection, Surjection, IsInjective, NoRepeat, Elements
<1>3. IsFiniteSet(1..Len(s)) /\ Cardinality(1..Len(s)) = Len(s)
  BY <1>1, UpTo, Zenon
<1>. QED
  BY <1>2, <1>3, FS_Bijection DEF ExistsBijection

\* Types and caps of stages 1 and 2: queries, keywords and citations keep to
\* their numbers, and no citation is listed twice.
THEOREM StagesTypeCorrect == StagesSpec => []StagesTypeOK
<1>1. StagesInv => StagesTypeOK
  <2>. SUFFICES ASSUME StagesInv PROVE StagesTypeOK
    OBVIOUS
  <2>. USE DEF StagesInv
  <2>1. Cardinality(queries) <= MaxRounds
    <3>1. Cardinality(queries) \in Nat /\ round \in 1..MaxRounds
      BY FS_CardinalityType DEF QueriesCounted, StagesShape
    <3>. QED
      BY <3>1, RetrievalConfig DEF QueriesCounted
  <2>2. \A h \in Elements(hits) : h.cit \in Citations
    BY DEF StagesShape, HitsOnce
  <2>3. \A l \in Elements(lists) : Cited(l) \subseteq Citations
    <3>1. \A l \in Elements(lists) : l \in RankedList
      BY DEF StagesShape, Elements
    <3>2. \A l \in RankedList : l.cits \in Seq(Citations)
      BY DEF RankedList, Answers
    <3>. QED
      BY <3>1, <3>2 DEF Cited, Elements
  <2>4. Elements(ranked) \subseteq Citations /\ Cardinality(Elements(ranked)) = Len(ranked)
    <3>1. ranked \in Seq(Citations) /\ NoRepeat(ranked)
      BY DEF RankedOnce
    <3>2. Elements(ranked) \subseteq Citations
      BY <3>1 DEF Elements
    <3>. QED
      BY <3>1, <3>2, OnceIsCounted
  <2>. QED
    BY <2>1, <2>2, <2>3, <2>4 DEF StagesTypeOK, StagesShape, KeywordsRanked, Stage2Follows, RankedOnce
<1>. QED
  BY <1>1, StagesInvariant, PTL

\* Whichever round or reranking fails, stage 1 keeps every citation found, once;
\* every query keeps the vocabulary; and the keyword cap falls on the weakest.
THEOREM RoundsSafe == StagesSpec => []RoundsLoseNothing
<1>1. StagesInv => RoundsLoseNothing
  <2>. SUFFICES ASSUME StagesInv PROVE RoundsLoseNothing
    OBVIOUS
  <2>. USE DEF StagesInv
  <2>1. HitsAccumulate
    <3>. DEFINE cits == [i \in DOMAIN hits |-> hits[i].cit]
    <3>1. cits \in Seq(Citations) /\ Len(cits) = Len(hits)
      <4>1. cits \in Seq(Citations)
        BY HitListType DEF Answers
      <4>. QED
        BY <4>1 DEF StagesShape
    <3>2. Cardinality(Elements(cits)) = Len(hits)
      <4>1. NoRepeat(cits)
        BY DEF HitsOnce
      <4>. HIDE DEF cits
      <4>. QED
        BY <3>1, <4>1, OnceIsCounted
    <3>3. Elements(cits) = {h.cit : h \in Elements(hits)}
      BY DEF Elements
    <3>. QED
      BY <3>2, <3>3 DEF HitsOnce, HitsAccumulate
  <2>2. QueriesKeepVocabulary
    BY DEF QueriesCounted
  <2>3. BestKeywordsKept
    <3>1. scored \in Seq(Keywords) /\ index \in Indexes /\ MaxKeywords \in Nat
      BY RetrievalConfig DEF StagesShape
    <3>2. \A kw \in Elements(scored) \ Elements(FirstN(ByStrength(scored), MaxKeywords)),
             kept \in Elements(FirstN(ByStrength(scored), MaxKeywords)) :
               index.strength[kept] >= index.strength[kw]
      BY <3>1, BestFirst
    <3>. QED
      BY <3>2 DEF KeywordsRanked, BestKeywordsKept
  <2>. QED
    BY <2>1, <2>2, <2>3 DEF RoundsLoseNothing
<1>. QED
  BY <1>1, StagesInvariant, PTL

\* Whatever the sources answer, in however many lists and with equal scores in
\* any order, a citation they all rank higher comes out higher and is cut later.
THEOREM FusionSafe == StagesSpec => []FusionIsFair
<1>1. StagesInv => FusionIsFair
  BY DEF StagesInv
<1>. QED
  BY <1>1, StagesInvariant, PTL

(***************************************************************************)
(* Stage 4, and the pipeline around it.                                    *)
(***************************************************************************)
USE AllocatorConfig

(***************************************************************************)
(* What one iteration does, once and for all actions: either nothing is    *)
(* selected and at most one candidate is passed over, or one item is       *)
(* appended. The step lemmas below reason about these two shapes.          *)
(***************************************************************************)
Rejects(c) ==
  /\ Fetched(c)
  /\ fetchErrors' \in {fetchErrors, fetchErrors + 1}
  /\ emptyBodies' \in {emptyBodies, emptyBodies + 1}
  /\ skipped' = skipped \union {c.key}
  /\ UNCHANGED <<selected, passed, counters>>

Selects(c, t, d) ==
  /\ Fetched(c)
  /\ t \in Nat /\ d \in BOOLEAN
  /\ used + t <= BodyBudget
  /\ Select(c, t, d)

LEMMA StepShape ==
  ASSUME AllocTypeOK, AllocNext
  PROVE  \/ \E c \in todo : PassOver(c)
         \/ \E c \in todo : Rejects(c)
         \/ \E c \in todo, t \in Nat, d \in BOOLEAN : Selects(c, t, d)
         \/ FinishLoop
<1>1. CASE FinishLoop
  BY <1>1
<1>2. ASSUME NEW c \in todo, Process(c)
      PROVE  \/ PassOver(c)
             \/ Rejects(c)
             \/ \E t \in Nat, d \in BOOLEAN : Selects(c, t, d)
  <2>1. CASE PassOver(c)
    BY <2>1
  <2>2. CASE FetchFails(c)
    BY <2>2 DEF FetchFails, Rejects, AllocTypeOK
  <2>3. CASE FetchEmpty(c)
    BY <2>3 DEF FetchEmpty, Rejects, AllocTypeOK
  <2>4. CASE \E t \in BodyTokens : SelectFull(c, t)
    BY <2>4 DEF SelectFull, Selects
  <2>5. CASE \E t \in BodyTokens, s \in SnippetTokens : SelectSnippet(c, t, s)
    BY <2>5 DEF SelectSnippet, Selects
  <2>6. CASE \E t \in BodyTokens : OverBudget(c, t)
    BY <2>6 DEF OverBudget, Rejects
  <2>. QED
    BY <1>2, <2>1, <2>2, <2>3, <2>4, <2>5, <2>6 DEF Process
<1>. QED
  BY <1>1, <1>2 DEF AllocNext

LEMMA MergedAreCandidates ==
  ASSUME NEW in \in Inputs
  PROVE  /\ mergeCandidates(in[1], in[2]) \subseteq Candidate
         /\ IsFiniteSet(mergeCandidates(in[1], in[2]))
<1>1. IsFiniteSet(in[1] \union in[2])
  BY FS_Union, AllocatorInputs
<1>2. mergeCandidates(in[1], in[2]) \subseteq in[1] \union in[2]
  BY DEF mergeCandidates
<1>. QED
  BY <1>1, <1>2, FS_Subset, AllocatorInputs

(***************************************************************************)
(* Type correctness. capTruncated is a Cardinality, so the merged list has *)
(* to be known finite as well.                                             *)
(***************************************************************************)
FiniteTypeOK == AllocTypeOK /\ IsFiniteSet(candidates)

LEMMA TypeInit == AllocInit => FiniteTypeOK
  BY MergedAreCandidates DEF AllocInit, AllocStart, FiniteTypeOK, AllocTypeOK

LEMMA TypeStep ==
  ASSUME FiniteTypeOK, [AllocNext]_allocVars
  PROVE  FiniteTypeOK'
<1>. USE DEF FiniteTypeOK, AllocTypeOK, Candidate
<1>1. ASSUME NEW c \in todo, PassOver(c) PROVE FiniteTypeOK'
  BY <1>1 DEF PassOver, Consume, counters
<1>2. ASSUME NEW c \in todo, Rejects(c) PROVE FiniteTypeOK'
  <2>1. c.key \in Keys
    OBVIOUS
  <2>2. fetchErrors' \in Nat /\ emptyBodies' \in Nat
    BY <1>2 DEF Rejects
  <2>3. skipped' \subseteq Keys
    BY <1>2, <2>1, Zenon DEF Rejects
  <2>. QED
    BY <1>2, <2>2, <2>3 DEF Rejects, Fetched, Consume, counters
<1>3. ASSUME NEW c \in todo, NEW t \in Nat, NEW d \in BOOLEAN, Selects(c, t, d)
      PROVE  FiniteTypeOK'
  <2>1. Item(c, t, d) \in SelectedItem
    BY DEF Item, SelectedItem
  <2>2. selected' \in Seq(SelectedItem)
    BY <1>3, <2>1 DEF Selects, Select
  <2>. QED
    BY <1>3, <2>2 DEF Selects, Select, Fetched, Consume
<1>4. CASE FinishLoop
  <2>1. Cardinality(todo) \in Nat
    BY FS_Subset, FS_CardinalityType
  <2>. QED
    BY <1>4, <2>1 DEF FinishLoop, counters
<1>5. CASE UNCHANGED allocVars
  BY <1>5 DEF allocVars, counters
<1>. QED
  BY <1>1, <1>2, <1>3, <1>4, <1>5, StepShape

\* Every reachable allocation state is well typed.
THEOREM AllocTypeCorrect == AllocSpec => []AllocTypeOK
<1>1. FiniteTypeOK /\ [AllocNext]_allocVars => FiniteTypeOK'
  BY TypeStep
<1>2. FiniteTypeOK => AllocTypeOK
  BY DEF FiniteTypeOK
<1>. QED
  BY TypeInit, <1>1, <1>2, PTL DEF AllocSpec

(***************************************************************************)
(* The token budget.                                                       *)
(***************************************************************************)

\* Whatever bodies the fetcher returns and however they are degraded, the
\* selection costs at most the body budget: WithinBudget, for every budget.
THEOREM BudgetSafe == AllocSpec => []WithinBudget
<1>1. AllocInit => WithinBudget
  BY DEF AllocInit, AllocStart, WithinBudget
<1>2. AllocTypeOK /\ WithinBudget /\ [AllocNext]_allocVars => WithinBudget'
  <2>. SUFFICES ASSUME AllocTypeOK, WithinBudget, [AllocNext]_allocVars
                PROVE  WithinBudget'
    OBVIOUS
  <2>. USE DEF WithinBudget, counters
  <2>1. CASE \E c \in todo : PassOver(c)
    BY <2>1 DEF PassOver
  <2>2. CASE \E c \in todo : Rejects(c)
    BY <2>2 DEF Rejects
  <2>3. CASE \E c \in todo, t \in Nat, d \in BOOLEAN : Selects(c, t, d)
    BY <2>3 DEF Selects, Select
  <2>4. CASE FinishLoop
    BY <2>4 DEF FinishLoop
  <2>5. CASE UNCHANGED allocVars
    BY <2>5 DEF allocVars
  <2>. QED
    BY <2>1, <2>2, <2>3, <2>4, <2>5, StepShape
<1>. QED
  BY <1>1, <1>2, AllocTypeCorrect, PTL DEF AllocSpec

(***************************************************************************)
(* The reserves.                                                           *)
(***************************************************************************)
LEMMA SeedCapType == seedCap \in Nat /\ (MaxCitations > 0 => seedCap > 0)
  BY DEF seedCap

LEMMA ReserveInit == AllocInit => ReserveInv
  BY SeedCapType DEF AllocInit, AllocStart, ReserveInv, Unfilled, Exempted, ReserveLeft

LEMMA ReservePassOver ==
  ASSUME AllocTypeOK, ReserveInv, NEW c \in todo, PassOver(c)
  PROVE  ReserveInv'
<1>. USE DEF PassOver, Consume, counters, ReserveInv, AllocTypeOK
<1>1. Unfilled' = Unfilled /\ Exempted' = Exempted
  BY DEF Unfilled, Exempted, ReserveLeft
<1>2. c.knowledge => knowledgeSelected >= KnowledgeReserve
  BY DEF SeedQuotaSpent, HeldForKnowledge
<1>3. c.origin = "neighbor" => MaxCitations > 0 /\ Len(selected) + Unfilled >= MaxCitations
  BY DEF SeedQuotaSpent, HeldForKnowledge, Unfilled, ReserveLeft
<1>. QED
  BY <1>1, <1>2, <1>3

LEMMA ReserveRejects ==
  ASSUME AllocTypeOK, ReserveInv, NEW c \in todo, Rejects(c)
  PROVE  ReserveInv'
  BY DEF Rejects, Fetched, Consume, counters, ReserveInv, AllocTypeOK,
         Unfilled, Exempted, ReserveLeft

LEMMA ReserveSelects ==
  ASSUME AllocTypeOK, ReserveInv,
         NEW c \in todo, NEW t \in Nat, NEW d \in BOOLEAN, Selects(c, t, d)
  PROVE  ReserveInv'
<1>. USE DEF AllocTypeOK
<1>1. Len(selected') = Len(selected) + 1 /\ Len(selected) \in Nat
  BY DEF Selects, Select
<1>2. c.knowledge \in BOOLEAN /\ c.origin \in {"seed", "neighbor"}
  BY DEF Candidate
<1>3. passed' = passed /\ loop = "running" /\ loop' = "running" /\ ~CapReached
  BY DEF Selects, Select, Fetched, Consume
<1>4. seedSelected' = IF c.origin = "seed" THEN seedSelected + 1 ELSE seedSelected
  BY DEF Selects, Select
<1>5. ~ SeedQuotaSpent(c) /\ ~ HeldForKnowledge(c)
  BY DEF Selects, Fetched
<1>6. CASE c.knowledge
  <2>1. knowledgeSelected' = knowledgeSelected + 1
    BY <1>6 DEF Selects, Select
  <2>. QED
    BY <1>1, <1>2, <1>3, <1>4, <1>5, <1>6, <2>1, SeedCapType
    DEF ReserveInv, Unfilled, Exempted, ReserveLeft, SeedQuotaSpent, CapReached
<1>7. CASE ~ c.knowledge
  <2>1. knowledgeSelected' = knowledgeSelected
    BY <1>7 DEF Selects, Select
  <2>. QED
    BY <1>1, <1>2, <1>3, <1>4, <1>5, <1>7, <2>1, SeedCapType
    DEF ReserveInv, Unfilled, Exempted, ReserveLeft, SeedQuotaSpent,
        HeldForKnowledge, CapReached
<1>. QED
  BY <1>2, <1>6, <1>7

LEMMA ReserveFinish ==
  ASSUME AllocTypeOK, ReserveInv, FinishLoop
  PROVE  ReserveInv'
  BY DEF FinishLoop, counters, ReserveInv, AllocTypeOK, Unfilled, Exempted,
         ReserveLeft, CapReached

\* The relations between slots, quota and reserve hold in every state.
THEOREM ReservesInvariant == AllocSpec => []ReserveInv
<1>1. AllocTypeOK /\ ReserveInv /\ [AllocNext]_allocVars => ReserveInv'
  <2>1. AllocTypeOK /\ ReserveInv /\ UNCHANGED allocVars => ReserveInv'
    BY DEF allocVars, counters, ReserveInv, Unfilled, Exempted, ReserveLeft, CapReached
  <2>. QED
    BY <2>1, StepShape, ReservePassOver, ReserveRejects, ReserveSelects, ReserveFinish
<1>. QED
  BY ReserveInit, <1>1, AllocTypeCorrect, PTL DEF AllocSpec

\* The selection never outgrows the citation cap, reserves and exemptions
\* included.
THEOREM CapSafe == AllocSpec => []WithinCap
<1>1. AllocTypeOK /\ ReserveInv => WithinCap
  BY DEF AllocTypeOK, ReserveInv, WithinCap, Unfilled, ReserveLeft
<1>. QED
  BY <1>1, AllocTypeCorrect, ReservesInvariant, PTL

\* Knowledge candidates lose their place only to knowledge: for every
\* configuration and candidate list.
THEOREM KnowledgeSafe == AllocSpec => []KnowledgeReserved
<1>1. AllocTypeOK /\ ReserveInv => KnowledgeReserved
  <2>. SUFFICES ASSUME AllocTypeOK, ReserveInv, loop = "done",
                       NEW c \in todo \union passed, c.knowledge
                PROVE  \/ knowledgeSelected >= KnowledgeReserve
                       \/ knowledgeSelected >= MaxCitations
    BY DEF KnowledgeReserved
  <2>1. CASE c \in passed
    BY <2>1 DEF ReserveInv
  <2>2. CASE c \in todo
    BY <2>2 DEF AllocTypeOK, ReserveInv, CapReached, Unfilled, ReserveLeft
  <2>. QED
    BY <2>1, <2>2
<1>. QED
  BY <1>1, AllocTypeCorrect, ReservesInvariant, PTL

\* Neighbors that lose their place leave at least the stated number of
\* slots to other neighbors.
THEOREM NeighborSafe == AllocSpec => []NeighborFloor
<1>1. AllocTypeOK /\ ReserveInv => NeighborFloor
  <2>. SUFFICES ASSUME AllocTypeOK, ReserveInv, loop = "done", MaxCitations > 0,
                       NEW c \in todo \union passed, c.origin = "neighbor"
                PROVE  NeighborSelected >= MaxCitations - seedCap - KnowledgeReserve
    BY DEF NeighborFloor
  <2>1. Len(selected) + Unfilled >= MaxCitations
    BY DEF AllocTypeOK, ReserveInv, CapReached, Unfilled, ReserveLeft
  <2>2. seedSelected <= seedCap + Exempted
    BY DEF ReserveInv
  <2>3. Unfilled + Exempted = KnowledgeReserve
    BY DEF AllocTypeOK, Unfilled, Exempted, ReserveLeft
  <2>. QED
    BY <2>1, <2>2, <2>3, SeedCapType
    DEF AllocTypeOK, NeighborSelected, Unfilled, Exempted, ReserveLeft
<1>. QED
  BY <1>1, AllocTypeCorrect, ReservesInvariant, PTL

\* Both reserves, one taking slots from the other, hold together.
THEOREM ReservesSafe == AllocSpec => []ReservesHonoured
BY KnowledgeSafe, NeighborSafe, PTL DEF ReservesHonoured

(***************************************************************************)
(* One verdict for each citation. A key that is still to come is neither   *)
(* selected nor skipped yet, because no two candidates carry one key.      *)
(***************************************************************************)
OnePerKey == \A c, d \in candidates : c.key = d.key => c = d

Unjudged(k) == k \notin skipped /\ \A i \in DOMAIN selected : selected[i].key # k

JudgedInv == OnePerKey /\ (\A c \in todo : Unjudged(c.key)) /\ JudgedOnce

\* Of two candidates with one key, one sorts before the other.
LEMMA MergeSeparates ==
  ASSUME NEW in \in Inputs
  PROVE  \A c, d \in mergeCandidates(in[1], in[2]) : c.key = d.key => c = d
<1>. SUFFICES ASSUME NEW c \in mergeCandidates(in[1], in[2]),
                     NEW d \in mergeCandidates(in[1], in[2]),
                     c.key = d.key
              PROVE  c = d
  OBVIOUS
<1>1. c \in in[1] \union in[2] /\ d \in in[1] \union in[2]
  BY DEF mergeCandidates
<1>2. c \in Candidate /\ d \in Candidate
  BY <1>1, AllocatorInputs
<1>3. ~ Before(d, c) /\ ~ Before(c, d)
  BY <1>1 DEF mergeCandidates
<1>4. /\ c.score \in Int /\ d.score \in Int
      /\ c.origin \in {"seed", "neighbor"} /\ d.origin \in {"seed", "neighbor"}
  BY <1>2 DEF Candidate
<1>5. ~ (d.score > c.score) /\ ~ (c.score > d.score) /\ c.score = d.score
  BY <1>3, <1>4 DEF Before
<1>6. c.origin = d.origin
  BY <1>3, <1>4, <1>5 DEF Before
<1>7. (c \in in[1] /\ d \in in[1]) \/ (c \in in[2] /\ d \in in[2])
  BY <1>1, <1>6, AllocatorInputs
<1>. QED
  BY <1>7, AllocatorInputs

LEMMA JudgedInit == AllocInit => JudgedInv
<1>. SUFFICES ASSUME NEW in \in Inputs, AllocStart(in[1], in[2])
              PROVE  JudgedInv
  BY DEF AllocInit
<1>. QED
  BY MergeSeparates DEF AllocStart, JudgedInv, OnePerKey, Unjudged, JudgedOnce

LEMMA JudgedSelects ==
  ASSUME AllocTypeOK, JudgedInv,
         NEW c \in todo, NEW t \in Nat, NEW d \in BOOLEAN, Selects(c, t, d)
  PROVE  JudgedInv'
<1>1. /\ selected' = Append(selected, Item(c, t, d))
      /\ todo' = todo \ {c} /\ candidates' = candidates /\ skipped' = skipped
  BY DEF Selects, Select, Fetched, Consume
<1>2. selected \in Seq(SelectedItem) /\ Item(c, t, d).key = c.key
  BY DEF AllocTypeOK, Item
<1>3. \A i \in DOMAIN selected' :
        \/ i \in DOMAIN selected /\ selected'[i] = selected[i]
        \/ i = Len(selected) + 1 /\ selected'[i].key = c.key
  BY <1>1, <1>2
<1>4. Unjudged(c.key)
  BY DEF JudgedInv
<1>5. \A e \in todo' : e.key # c.key /\ Unjudged(e.key)
  BY <1>1 DEF JudgedInv, OnePerKey, AllocTypeOK
<1>6. \A e \in todo' : Unjudged(e.key)'
  BY <1>1, <1>3, <1>5 DEF Unjudged
<1>7. JudgedOnce'
  <2>1. ASSUME NEW i \in DOMAIN selected', NEW j \in DOMAIN selected',
               selected'[i].key = selected'[j].key
        PROVE  i = j
    BY <1>3, <1>4, <2>1 DEF JudgedInv, JudgedOnce, Unjudged
  <2>2. \A i \in DOMAIN selected' : selected'[i].key \notin skipped'
    BY <1>1, <1>3, <1>4 DEF JudgedInv, JudgedOnce, Unjudged
  <2>. QED
    BY <2>1, <2>2 DEF JudgedOnce
<1>. QED
  BY <1>1, <1>6, <1>7 DEF JudgedInv, OnePerKey

\* No citation is judged twice: selected once at most, and never selected and
\* skipped, though stage 2 and stage 3 may both have delivered it.
THEOREM JudgedOnceEach == AllocSpec => []JudgedOnce
<1>1. AllocTypeOK /\ JudgedInv /\ [AllocNext]_allocVars => JudgedInv'
  <2>. SUFFICES ASSUME AllocTypeOK, JudgedInv, [AllocNext]_allocVars
                PROVE  JudgedInv'
    OBVIOUS
  <2>. USE DEF JudgedInv, OnePerKey, Unjudged, JudgedOnce
  <2>1. CASE \E c \in todo : PassOver(c)
    BY <2>1 DEF PassOver, Consume
  <2>2. ASSUME NEW c \in todo, Rejects(c) PROVE JudgedInv'
    <3>1. /\ skipped' = skipped \union {c.key} /\ selected' = selected
          /\ todo' = todo \ {c} /\ candidates' = candidates
      BY <2>2 DEF Rejects, Fetched, Consume
    <3>2. \A e \in todo' : e.key # c.key
      BY <3>1 DEF AllocTypeOK
    <3>. QED
      BY <3>1, <3>2
  <2>3. CASE \E c \in todo, t \in Nat, d \in BOOLEAN : Selects(c, t, d)
    BY <2>3, JudgedSelects
  <2>4. CASE FinishLoop
    BY <2>4 DEF FinishLoop
  <2>5. CASE UNCHANGED allocVars
    BY <2>5 DEF allocVars
  <2>. QED
    BY <2>1, <2>2, <2>3, <2>4, <2>5, StepShape
<1>2. JudgedInv => JudgedOnce
  BY DEF JudgedInv
<1>. QED
  BY JudgedInit, <1>1, <1>2, AllocTypeCorrect, PTL DEF AllocSpec

HIDE AllocatorConfig

(***************************************************************************)
(* The pipeline implements the selection loop.                             *)
(***************************************************************************)
LEMMA PipelineStep ==
  ASSUME [Next]_vars
  PROVE  [AllocNext]_allocVars
<1>1. CASE Sanitize
  BY <1>1 DEF Sanitize, RefusePack, DropBody, MaskBody, KeepBody, Inspect
<1>2. CASE Assemble
  BY <1>2 DEF Assemble, CollectBodies, AdmitEdge, AdmitTarget, RejectEdge, Reach, Release
<1>3. CASE ClassifyIntent \/ StageSucceeds \/ StageFails \/ Allocate \/ UNCHANGED vars
  BY <1>3 DEF ClassifyIntent, StageSucceeds, StageFails, Allocate, vars
<1>. QED
  BY <1>1, <1>2, <1>3 DEF Next

\* What holds of the selection loop alone holds of it inside a Compose call.
THEOREM RunsTheAllocator == Spec => AllocSpec
<1>1. Init => AllocInit
  BY ComposerInputs DEF Init, AllocInit
<1>2. [Next]_vars => [AllocNext]_allocVars
  BY PipelineStep
<1>. QED
  BY <1>1, <1>2, PTL DEF Spec, AllocSpec

\* The bodies of a pack fit the budget.
THEOREM PackBudgetSafe == Spec => []WithinBudget
  BY RunsTheAllocator, BudgetSafe, PTL

\* Both slot reserves are honoured in every pack.
THEOREM PackReservesSafe == Spec => []ReservesHonoured
  BY RunsTheAllocator, ReservesSafe, PTL

(***************************************************************************)
(* The inductive invariant of the pipeline.                                *)
(***************************************************************************)
PipelineTypeOK ==
  /\ stage \in RetrievalStages \union {"intent", "stage4", "stage5", "assemble", "done"}
  /\ result \in {"none", "stage_error", "fail_closed", "pack"}
  /\ result # "none" <=> stage = "done"
  /\ edges \subseteq Edge /\ pending \subseteq edges /\ neighbors \subseteq edges
  /\ items \in Seq(SanitizedItem) /\ Len(items) <= Len(selected)
  /\ matches \in [Keys -> SUBSET Actions]
  /\ report \subseteq [key : Keys, action : Actions]
  /\ citations \subseteq Keys /\ bodies \subseteq SanitizedItem

BeforeSanitize == stage \in RetrievalStages \union {"intent", "stage4"}

\* Nothing is prepared before its stage.
StagesInOrder ==
  /\ BeforeSanitize => items = <<>> /\ report = {}
  /\ BeforeSanitize \/ stage = "stage5" => neighbors = {}

\* The sanitized items are those of stage 4, in its order.
ItemsFollow == \A i \in 1..Len(items) : items[i].key = selected[i].key

\* Each item carries the verdict of the rules its body matched, and the report
\* tells of every item that was dropped.
VerdictsHold ==
  result # "fail_closed" =>
    /\ \A i \in 1..Len(items) :
         /\ "fail_closed" \notin matches[items[i].key]
         /\ "drop" \in matches[items[i].key] => items[i].text = "dropped"
         /\ "mask" \in matches[items[i].key] => items[i].text # "raw"
         /\ items[i].text = "dropped" <=> [key |-> items[i].key, action |-> "drop"] \in report
    /\ \A r \in report : \E i \in 1..Len(items) : items[i].key = r.key

\* While edges are judged, what was admitted so far is closed.
AssembledSoFar ==
  stage = "assemble" \/ result = "pack" =>
    /\ Len(items) = Len(selected)
    /\ bodies = {items[i] : i \in KeptItems}
    /\ BodyKeys \subseteq citations /\ citations \intersect skipped = {}
    /\ IsFiniteSet(EdgeOnly) /\ Cardinality(EdgeOnly) <= MaxEdgeOnlyTargets
    /\ \A e \in neighbors : e.source \in citations /\ e.target \in citations

PipelineInv == PipelineTypeOK /\ StagesInOrder /\ ItemsFollow /\ VerdictsHold /\ AssembledSoFar

LEMMA InitHolds == Init => PipelineInv
<1>. SUFFICES ASSUME Init PROVE PipelineInv
  OBVIOUS
<1>1. edges \subseteq Edge /\ selected = <<>>
  BY ComposerInputs DEF Init, AllocStart
<1>2. PipelineTypeOK
  BY <1>1 DEF Init, PipelineTypeOK, RetrievalStages
<1>. QED
  BY <1>2 DEF Init, PipelineInv, StagesInOrder, ItemsFollow, VerdictsHold, AssembledSoFar

(***************************************************************************)
(* Stages 1 to 4                                                           *)
(***************************************************************************)
LEMMA StagesKeep ==
  ASSUME AllocTypeOK, PipelineInv, AllocTypeOK',
         ClassifyIntent \/ StageSucceeds \/ StageFails \/ Allocate
  PROVE  PipelineInv'
<1>. USE DEF PipelineInv, packVars
<1>1. /\ BeforeSanitize /\ UNCHANGED <<edges, items, matches, report, packVars>>
      /\ items = <<>> /\ report = {} /\ neighbors = {}
  BY DEF ClassifyIntent, StageSucceeds, StageFails, Allocate, BeforeSanitize, StagesInOrder
<1>2. /\ stage' \in RetrievalStages \union {"stage4", "stage5", "done"}
      /\ result' \in {"none", "stage_error"} /\ (result' # "none" <=> stage' = "done")
  BY DEF ClassifyIntent, StageSucceeds, StageFails, Allocate, RetrievalStages, After, PipelineTypeOK
<1>3. Len(items) = 0 /\ Len(selected') \in Nat
  BY <1>1 DEF AllocTypeOK
<1>4. PipelineTypeOK'
  BY <1>1, <1>2, <1>3 DEF PipelineTypeOK
<1>5. StagesInOrder'
  BY <1>1, <1>2 DEF StagesInOrder, BeforeSanitize
<1>6. ItemsFollow' /\ VerdictsHold'
  BY <1>1, <1>3 DEF ItemsFollow, VerdictsHold
<1>7. AssembledSoFar'
  BY <1>2 DEF AssembledSoFar, RetrievalStages
<1>. QED
  BY <1>4, <1>5, <1>6, <1>7

(***************************************************************************)
(* Stage 5                                                                 *)
(***************************************************************************)
\* The next item is inspected: it follows the ones before it, and its key is none
\* of theirs.
Handles(item, m) ==
  /\ stage = "stage5" /\ Len(items) < Len(selected)
  /\ item \in SanitizedItem /\ item.key = selected[Len(items) + 1].key /\ m \in SUBSET Actions
  /\ items' = Append(items, item) /\ matches' = [matches EXCEPT ![item.key] = m]
  /\ UNCHANGED <<allocVars, edges, packVars>>

LEMMA HandlesKeeps ==
  ASSUME AllocTypeOK, JudgedOnce, PipelineInv, NEW item, NEW m, Handles(item, m),
         \/ /\ result' = "fail_closed" /\ stage' = "done"
            /\ report' = report \union {[key |-> item.key, action |-> "fail_closed"]}
         \/ /\ "fail_closed" \notin m /\ UNCHANGED <<stage, result>>
            /\ "drop" \in m => item.text = "dropped"
            /\ "mask" \in m => item.text # "raw"
            /\ IF item.text = "dropped" THEN report' = report \union {[key |-> item.key, action |-> "drop"]}
               ELSE report' \in {report, report \union {[key |-> item.key, action |-> "mask"]}}
  PROVE  PipelineInv'
<1>. USE DEF PipelineInv, Handles, packVars
<1>n. PICK n \in Nat : n = Len(items)
  BY DEF PipelineTypeOK
<1>1. /\ items \in Seq(SanitizedItem) /\ selected \in Seq(SelectedItem)
      /\ n + 1 \in 1..Len(selected) /\ n \in Nat /\ Len(selected) \in Nat
  BY <1>n DEF PipelineTypeOK, AllocTypeOK
<1>2. /\ items' \in Seq(SanitizedItem) /\ Len(items') = n + 1 /\ items'[n + 1] = item
      /\ \A i \in 1..n : items'[i] = items[i]
      /\ selected' = selected /\ \A i \in 1..(n + 1) : i \in 1..n \/ i = n + 1
  BY <1>n, <1>1 DEF allocVars
<1>3. \A i \in 1..n : items[i].key = selected[i].key /\ items[i].key # item.key /\ items[i].key \in Keys
  <2>1. DOMAIN selected = 1..Len(selected) /\ n + 1 \in DOMAIN selected
    BY <1>1
  <2>2. \A i \in 1..n : i \in DOMAIN selected /\ i # n + 1 /\ selected[i] \in SelectedItem
    BY <1>1
  <2>3. item.key = selected[n + 1].key
    BY <1>n
  <2>4. \A i \in 1..n : items[i].key = selected[i].key
    BY <1>n DEF ItemsFollow
  <2>5. \A i \in 1..n : selected[i].key # selected[n + 1].key
    BY <2>1, <2>2 DEF JudgedOnce
  <2>. QED
    BY <2>2, <2>3, <2>4, <2>5 DEF SelectedItem
<1>4. item.key \in Keys /\ matches'[item.key] = m
      /\ \A i \in 1..n : matches'[items[i].key] = matches[items[i].key]
  BY <1>3 DEF SanitizedItem, PipelineTypeOK
<1>5. /\ result' \in {"none", "fail_closed"} /\ stage' \in {"stage5", "done"}
      /\ (result' # "none" <=> stage' = "done") /\ result = "none"
  BY DEF PipelineTypeOK
<1>6. PipelineTypeOK'
  <2>1. report' \subseteq [key : Keys, action : Actions]
    BY <1>4 DEF PipelineTypeOK, Actions
  <2>2. matches' \in [Keys -> SUBSET Actions]
    BY DEF PipelineTypeOK
  <2>3. Len(items') <= Len(selected')
    BY <1>1, <1>2
  <2>. QED
    BY <1>2, <1>5, <2>1, <2>2, <2>3 DEF PipelineTypeOK
<1>7. StagesInOrder'
  BY <1>5 DEF StagesInOrder, BeforeSanitize, RetrievalStages
<1>8. ItemsFollow'
  <2>1. \A i \in 1..(n + 1) : items'[i].key = selected'[i].key
    BY <1>n, <1>2, <1>3
  <2>. QED
    BY <1>2, <2>1 DEF ItemsFollow
<1>9. VerdictsHold'
  <2>. SUFFICES ASSUME result' # "fail_closed" PROVE VerdictsHold'
    BY DEF VerdictsHold
  <2>1. /\ "fail_closed" \notin m
        /\ "drop" \in m => item.text = "dropped"
        /\ "mask" \in m => item.text # "raw"
        /\ IF item.text = "dropped" THEN report' = report \union {[key |-> item.key, action |-> "drop"]}
           ELSE report' \in {report, report \union {[key |-> item.key, action |-> "mask"]}}
    OBVIOUS
  <2>2. /\ \A i \in 1..n :
             /\ "fail_closed" \notin matches[items[i].key]
             /\ "drop" \in matches[items[i].key] => items[i].text = "dropped"
             /\ "mask" \in matches[items[i].key] => items[i].text # "raw"
             /\ items[i].text = "dropped" <=> [key |-> items[i].key, action |-> "drop"] \in report
        /\ \A r \in report : \E i \in 1..n : items[i].key = r.key
    BY <1>n, <1>5 DEF VerdictsHold
  <2>3. \A r \in report' \ report : r.key = item.key /\ (r.action = "drop" <=> item.text = "dropped")
    BY <2>1
  <2>4. report \subseteq report'
    BY <2>1
  <2>5. \A i \in 1..n : [key |-> items[i].key, action |-> "drop"] \in report'
                          <=> [key |-> items[i].key, action |-> "drop"] \in report
    BY <1>3, <2>3, <2>4
  <2>6. item.text = "dropped" <=> [key |-> item.key, action |-> "drop"] \in report'
    <3>1. [key |-> item.key, action |-> "drop"] \notin report
      BY <1>3, <2>2
    <3>. QED
      BY <2>1, <2>3, <3>1
  <2>7. \A i \in 1..(n + 1) :
             /\ "fail_closed" \notin matches'[items'[i].key]
             /\ "drop" \in matches'[items'[i].key] => items'[i].text = "dropped"
             /\ "mask" \in matches'[items'[i].key] => items'[i].text # "raw"
             /\ items'[i].text = "dropped" <=> [key |-> items'[i].key, action |-> "drop"] \in report'
    <3>. SUFFICES ASSUME NEW i \in 1..(n + 1)
                  PROVE  /\ "fail_closed" \notin matches'[items'[i].key]
                         /\ "drop" \in matches'[items'[i].key] => items'[i].text = "dropped"
                         /\ "mask" \in matches'[items'[i].key] => items'[i].text # "raw"
                         /\ items'[i].text = "dropped" <=> [key |-> items'[i].key, action |-> "drop"] \in report'
      OBVIOUS
    <3>1. CASE i \in 1..n
      BY <1>2, <1>4, <2>2, <2>5, <3>1
    <3>2. CASE i = n + 1
      BY <1>2, <1>4, <2>1, <2>6, <3>2
    <3>. QED
      BY <1>2, <3>1, <3>2
  <2>8. \A r \in report' : \E i \in 1..(n + 1) : items'[i].key = r.key
    <3>1. 1..n \subseteq 1..(n + 1) /\ n + 1 \in 1..(n + 1)
      BY <1>1
    <3>2. \A r \in report : \E i \in 1..(n + 1) : items'[i].key = r.key
      BY <1>2, <2>2, <3>1
    <3>. QED
      BY <1>2, <2>3, <3>1, <3>2
  <2>. QED
    BY <1>2, <2>7, <2>8 DEF VerdictsHold
<1>10. AssembledSoFar'
  BY <1>5 DEF AssembledSoFar
<1>. QED
  BY <1>6, <1>7, <1>8, <1>9, <1>10

LEMMA SanitizeKeeps ==
  ASSUME AllocTypeOK, JudgedOnce, PipelineInv, Sanitize
  PROVE  PipelineInv'
<1>. DEFINE next == selected[Len(items) + 1]
<1>1. stage = "stage5" /\ Len(items) < Len(selected)
  BY DEF Sanitize, RefusePack, DropBody, MaskBody, KeepBody, Inspect
<1>2. next \in SelectedItem
  BY <1>1 DEF AllocTypeOK, PipelineInv, PipelineTypeOK
<1>3. \A tokens \in Nat, text \in {"raw", "masked", "dropped"} :
        /\ [key |-> next.key, tokens |-> tokens, text |-> text] \in SanitizedItem
        /\ [key |-> next.key, tokens |-> tokens, text |-> text].key = next.key
        /\ [key |-> next.key, tokens |-> tokens, text |-> text].text = text
  BY <1>2 DEF SelectedItem, SanitizedItem
<1>4. next.tokens \in Nat
  BY <1>2 DEF SelectedItem
<1>5. ASSUME NEW m \in SUBSET Actions, RefusePack(m) PROVE PipelineInv'
  <2>. DEFINE item == [key |-> next.key, tokens |-> next.tokens, text |-> "raw"]
  <2>1. item \in SanitizedItem /\ item.key = next.key /\ item.text = "raw"
    BY <1>3, <1>4
  <2>2. /\ Handles(item, m) /\ result' = "fail_closed" /\ stage' = "done"
        /\ report' = report \union {[key |-> item.key, action |-> "fail_closed"]}
    BY <1>1, <1>5, <2>1 DEF RefusePack, Inspect, Deliver, Report, Handles
  <2>. HIDE DEF item
  <2>. QED
    BY <2>1, <2>2, HandlesKeeps
<1>6. ASSUME NEW m \in SUBSET Actions, DropBody(m) PROVE PipelineInv'
  <2>. DEFINE item == [key |-> next.key, tokens |-> 0, text |-> "dropped"]
  <2>1. item \in SanitizedItem /\ item.key = next.key /\ item.text = "dropped"
    BY <1>3
  <2>2. /\ Handles(item, m) /\ "fail_closed" \notin m /\ UNCHANGED <<stage, result>>
        /\ report' = report \union {[key |-> item.key, action |-> "drop"]}
    BY <1>1, <1>6, <2>1 DEF DropBody, Inspect, Deliver, Report, Handles
  <2>. HIDE DEF item
  <2>. QED
    BY <2>1, <2>2, HandlesKeeps
<1>7. ASSUME NEW m \in SUBSET Actions, NEW t \in MaskedTokens, MaskBody(m, t) PROVE PipelineInv'
  <2>. DEFINE item == [key |-> next.key, tokens |-> t, text |-> "masked"]
  <2>1. item \in SanitizedItem /\ item.key = next.key /\ item.text = "masked"
    BY <1>3, ComposerConfig
  <2>2. /\ Handles(item, m) /\ "fail_closed" \notin m /\ "drop" \notin m /\ UNCHANGED <<stage, result>>
        /\ report' = report \union {[key |-> item.key, action |-> "mask"]}
    BY <1>1, <1>7, <2>1 DEF MaskBody, Inspect, Deliver, Report, Handles
  <2>. HIDE DEF item
  <2>. QED
    BY <2>1, <2>2, HandlesKeeps
<1>8. ASSUME NEW m \in SUBSET Actions, KeepBody(m) PROVE PipelineInv'
  <2>. DEFINE item == [key |-> next.key, tokens |-> next.tokens, text |-> "raw"]
  <2>1. item \in SanitizedItem /\ item.key = next.key /\ item.text = "raw"
    BY <1>3, <1>4
  <2>2. Handles(item, m) /\ m = {} /\ UNCHANGED <<stage, result, report>>
    BY <1>1, <1>8, <2>1 DEF KeepBody, Inspect, Deliver, Handles
  <2>. HIDE DEF item
  <2>. QED
    BY <2>1, <2>2, HandlesKeeps
<1>. QED
  BY <1>5, <1>6, <1>7, <1>8 DEF Sanitize

(***************************************************************************)
(* Pack assembly                                                           *)
(***************************************************************************)
LEMMA CollectKeeps ==
  ASSUME AllocTypeOK, JudgedOnce, PipelineInv, CollectBodies
  PROVE  PipelineInv'
<1>. USE DEF PipelineInv, CollectBodies
<1>1. /\ items \in Seq(SanitizedItem) /\ DOMAIN items = 1..Len(items)
      /\ \A i \in 1..Len(items) : items[i] \in SanitizedItem
  BY DEF PipelineTypeOK
<1>2. result = "none" /\ result' = "none" /\ neighbors = {} /\ neighbors' = {}
  BY DEF PipelineTypeOK, StagesInOrder
<1>3. bodies' \subseteq SanitizedItem /\ citations' \subseteq Keys /\ KeptItems' = KeptItems
  BY <1>1 DEF KeptItems, SanitizedItem
<1>4. PipelineTypeOK'
  BY <1>2, <1>3 DEF PipelineTypeOK, allocVars
<1>5. StagesInOrder' /\ ItemsFollow' /\ VerdictsHold'
  BY <1>2 DEF StagesInOrder, BeforeSanitize, RetrievalStages, ItemsFollow, VerdictsHold, allocVars
<1>6. BodyKeys' = citations'
  <2>1. BodyKeys' = {b.key : b \in {items[i] : i \in KeptItems}}
    BY DEF BodyKeys
  <2>. QED
    BY <2>1
<1>7. EdgeOnly' = {}
  BY <1>6 DEF EdgeOnly
<1>8. citations' \intersect skipped' = {}
  <2>1. \A i \in KeptItems : i \in DOMAIN selected /\ items[i].key = selected[i].key
    BY <1>1 DEF KeptItems, ItemsFollow, AllocTypeOK
  <2>. QED
    BY <2>1 DEF JudgedOnce, allocVars
<1>9. AssembledSoFar'
  BY <1>2, <1>3, <1>6, <1>7, <1>8, FS_EmptySet, ComposerConfig DEF AssembledSoFar, allocVars
<1>. QED
  BY <1>4, <1>5, <1>9

LEMMA AssembleKeeps ==
  ASSUME PipelineInv, Release \/ \E e \in pending : AdmitEdge(e) \/ AdmitTarget(e) \/ RejectEdge(e)
  PROVE  PipelineInv'
<1>. USE DEF PipelineInv
<1>1. CASE Release
  <2>1. PipelineTypeOK'
    BY <1>1 DEF Release, packVars, PipelineTypeOK, allocVars
  <2>2. StagesInOrder' /\ ItemsFollow' /\ VerdictsHold'
    BY <1>1 DEF Release, packVars, StagesInOrder, BeforeSanitize, RetrievalStages, ItemsFollow,
                VerdictsHold, PipelineTypeOK, allocVars
  <2>3. AssembledSoFar'
    BY <1>1 DEF Release, packVars, AssembledSoFar, KeptItems, BodyKeys, EdgeOnly, allocVars
  <2>. QED
    BY <2>1, <2>2, <2>3
<1>2. ASSUME NEW e \in pending, AdmitEdge(e) \/ AdmitTarget(e) \/ RejectEdge(e)
      PROVE  PipelineInv'
  <2>1. /\ stage = "assemble" /\ pending' = pending \ {e} /\ e \in edges /\ e \in Edge
        /\ UNCHANGED <<allocVars, stage, result, edges, items, matches, report, bodies>>
    BY <1>2 DEF AdmitEdge, AdmitTarget, RejectEdge, Reach, PipelineTypeOK
  <2>2. \/ UNCHANGED <<citations, neighbors>>
        \/ /\ e.source \in citations /\ e.target \in citations
           /\ neighbors' = neighbors \union {e} /\ citations' = citations
        \/ /\ e.source \in citations /\ e.target \notin citations /\ e.target \notin skipped
           /\ Cardinality(EdgeOnly) < MaxEdgeOnlyTargets
           /\ neighbors' = neighbors \union {e} /\ citations' = citations \union {e.target}
    BY <1>2 DEF AdmitEdge, AdmitTarget, RejectEdge
  <2>3. e.target \in Keys
    BY <2>1 DEF Edge
  <2>4. PipelineTypeOK'
    BY <2>1, <2>2, <2>3 DEF PipelineTypeOK, allocVars
  <2>5. StagesInOrder' /\ ItemsFollow' /\ VerdictsHold'
    BY <2>1 DEF StagesInOrder, BeforeSanitize, RetrievalStages, ItemsFollow, VerdictsHold, allocVars
  <2>6. /\ Len(items) = Len(selected) /\ bodies = {items[i] : i \in KeptItems}
        /\ BodyKeys \subseteq citations /\ citations \intersect skipped = {}
        /\ IsFiniteSet(EdgeOnly) /\ Cardinality(EdgeOnly) <= MaxEdgeOnlyTargets
        /\ \A d \in neighbors : d.source \in citations /\ d.target \in citations
    BY <2>1 DEF AssembledSoFar
  <2>7. IsFiniteSet(EdgeOnly') /\ Cardinality(EdgeOnly') <= MaxEdgeOnlyTargets
    <3>1. BodyKeys' = BodyKeys
      BY <2>1 DEF BodyKeys
    <3>2. CASE citations' = citations
      BY <2>6, <3>1, <3>2 DEF EdgeOnly
    <3>3. CASE /\ e.target \notin citations /\ Cardinality(EdgeOnly) < MaxEdgeOnlyTargets
               /\ citations' = citations \union {e.target}
      <4>1. EdgeOnly' = EdgeOnly \union {e.target} /\ e.target \notin EdgeOnly
        BY <2>6, <3>1, <3>3 DEF EdgeOnly
      <4>2. Cardinality(EdgeOnly) \in Nat
        BY <2>6, FS_CardinalityType
      <4>3. IsFiniteSet(EdgeOnly') /\ Cardinality(EdgeOnly') = Cardinality(EdgeOnly) + 1
        BY <2>6, <4>1, FS_AddElement
      <4>. QED
        BY <3>3, <4>2, <4>3, ComposerConfig
    <3>. QED
      BY <2>2, <3>2, <3>3
  <2>8. AssembledSoFar'
    <3>1. KeptItems' = KeptItems /\ BodyKeys' = BodyKeys
      BY <2>1 DEF KeptItems, BodyKeys
    <3>2. BodyKeys \subseteq citations' /\ citations' \intersect skipped = {}
      BY <2>2, <2>6
    <3>3. \A d \in neighbors' : d.source \in citations' /\ d.target \in citations'
      BY <2>2, <2>6
    <3>. QED
      BY <2>1, <2>6, <2>7, <3>1, <3>2, <3>3 DEF AssembledSoFar, allocVars
  <2>. QED
    BY <2>4, <2>5, <2>8
<1>. QED
  BY <1>1, <1>2

(***************************************************************************)
(* The theorems.                                                           *)
(***************************************************************************)
\* The invariant holds for every funnel and every outcome of its stages.
THEOREM PipelineInvariant == Spec => [](AllocTypeOK /\ JudgedOnce /\ PipelineInv)
<1>1. AllocTypeOK /\ JudgedOnce /\ PipelineInv /\ AllocTypeOK' /\ [Next]_vars => PipelineInv'
  <2>1. CASE UNCHANGED vars /\ PipelineInv
    BY <2>1 DEF vars, allocVars, packVars, PipelineInv, PipelineTypeOK, StagesInOrder, BeforeSanitize,
                ItemsFollow, VerdictsHold, AssembledSoFar, KeptItems, BodyKeys, EdgeOnly
  <2>. QED
    BY <2>1, StagesKeep, SanitizeKeeps, CollectKeeps, AssembleKeeps DEF Next, Assemble
<1>. QED
  BY <1>1, InitHolds, RunsTheAllocator, AllocTypeCorrect, JudgedOnceEach, PTL DEF Spec

\* Every state of a Compose call is well typed.
THEOREM PackTypeCorrect == Spec => []TypeOK
<1>1. AllocTypeOK /\ PipelineInv => TypeOK
  BY DEF PipelineInv, PipelineTypeOK, TypeOK
<1>. QED
  BY <1>1, PipelineInvariant, PTL

\* A released pack is closed under its edges and bodies, and edges alone bring in
\* a bounded number of citations, whatever the graph delivers.
THEOREM PackValidSafe == Spec => []PackValid
<1>1. PipelineInv => PackValid
  BY DEF PipelineInv, AssembledSoFar, PackValid, Released
<1>. QED
  BY <1>1, PipelineInvariant, PTL

\* No text a rule forbids is in a released pack.
THEOREM NoForbiddenTextSafe == Spec => []NoForbiddenText
<1>1. AllocTypeOK /\ PipelineInv => NoForbiddenText
  <2>. SUFFICES ASSUME AllocTypeOK, PipelineInv, Released PROVE NoForbiddenText
    BY DEF NoForbiddenText
  <2>. USE DEF PipelineInv, Released
  <2>1. /\ Len(items) = Len(selected) /\ bodies = {items[i] : i \in KeptItems}
        /\ DOMAIN items = 1..Len(items) /\ DOMAIN selected = 1..Len(items)
        /\ \A i \in 1..Len(items) : items[i] \in SanitizedItem /\ items[i].key = selected[i].key
    BY DEF AssembledSoFar, PipelineTypeOK, AllocTypeOK, ItemsFollow
  <2>2. \A i \in DOMAIN selected : "fail_closed" \notin matches[selected[i].key]
    BY <2>1 DEF VerdictsHold
  <2>3. \A i \in KeptItems : /\ "drop" \notin matches[items[i].key]
                             /\ "mask" \in matches[items[i].key] => items[i].text = "masked"
    BY <2>1 DEF VerdictsHold, KeptItems, SanitizedItem
  <2>. QED
    BY <2>1, <2>2, <2>3 DEF NoForbiddenText
<1>. QED
  BY <1>1, PipelineInvariant, PTL

\* Every selected body that is missing from a pack is reported as dropped, none
\* that is there is, and what stage 4 rejected does not come back as a citation.
THEOREM AbsenceSafe == Spec => []AbsenceIsExplained
<1>1. AllocTypeOK /\ JudgedOnce /\ PipelineInv => AbsenceIsExplained
  <2>. SUFFICES ASSUME AllocTypeOK, JudgedOnce, PipelineInv, Released PROVE AbsenceIsExplained
    BY DEF AbsenceIsExplained
  <2>. USE DEF PipelineInv, Released
  <2>1. /\ Len(items) = Len(selected) /\ BodyKeys = {items[i].key : i \in KeptItems}
        /\ DOMAIN items = 1..Len(items) /\ DOMAIN selected = 1..Len(items)
        /\ \A i \in 1..Len(items) : items[i].key = selected[i].key
    BY DEF AssembledSoFar, PipelineTypeOK, AllocTypeOK, ItemsFollow, BodyKeys
  <2>2. \A i \in DOMAIN selected : selected[i].key \in BodyKeys <=> i \in KeptItems
    BY <2>1 DEF JudgedOnce, KeptItems
  <2>3. \A i \in DOMAIN selected :
          i \notin KeptItems <=> [key |-> selected[i].key, action |-> "drop"] \in report
    BY <2>1 DEF VerdictsHold, KeptItems
  <2>4. citations \intersect skipped = {}
    BY DEF AssembledSoFar
  <2>. QED
    BY <2>2, <2>3, <2>4 DEF AbsenceIsExplained
<1>. QED
  BY <1>1, PipelineInvariant, PTL
=============================================================================
