------------------------------ MODULE SequenceFacts ------------------------------
(* Facts about finite sets put in order, and about the operators of the community     *)
(* modules that are defined by recursion.  They need induction; the provers cannot    *)
(* instantiate an induction theorem with a predicate, but they can with a set.        *)
EXTENDS Integers, SequencesExt, FiniteSetsExt, FiniteSetTheorems, SequenceTheorems,
        WellFoundedInduction, TLAPS

(* Induction: a set of naturals with 0 and all successors is the set of all.          *)
LEMMA NatSetInduction ==
  ASSUME NEW S \in SUBSET Nat, 0 \in S, \A n \in S : n + 1 \in S
  PROVE  \A n \in Nat : n \in S
<1> DEFINE T == Nat \ S
           R == OpToRel(<, Nat)
<1> SUFFICES ASSUME T # {} PROVE FALSE
  OBVIOUS
<1>1. IsWellFoundedOn(R, Nat)
  BY NatLessThanWellFounded
<1>2. PICK x \in T : \A y \in T : ~ (<<y, x>> \in R)
  <2> HIDE DEF T, R
  <2>1. T \subseteq Nat
    BY DEF T
  <2> QED
    BY <1>1, <2>1, WFMin
<1>3. x - 1 \in T
  OBVIOUS
<1>4. <<x - 1, x>> \in R
  <2>1. x \in Nat /\ x - 1 \in Nat /\ x - 1 < x
    BY <1>3
  <2> QED
    BY <2>1 DEF OpToRel
<1> HIDE DEF R
<1> QED
  BY <1>2, <1>3, <1>4
----------------------------------------------------------------------------------
(* s lists every element of S once.                                                   *)
Lists(s, S) ==
    /\ s \in Seq(S)
    /\ IsInjective(s)
    /\ ToSet(s) = S

LEMMA ListsIndex ==
  ASSUME NEW S, NEW s, Lists(s, S)
  PROVE  /\ Len(s) \in Nat /\ DOMAIN s = 1..Len(s)
         /\ \A i \in 1..Len(s) : s[i] \in S
         /\ \A i, j \in 1..Len(s) : s[i] = s[j] => i = j
         /\ \A x \in S : \E i \in 1..Len(s) : s[i] = x
  BY LenProperties DEF Lists, IsInjective, ToSet

LEMMA IndexLists ==
  ASSUME NEW S, NEW n \in Nat, NEW s \in [1..n -> S],
         \A i, j \in 1..n : s[i] = s[j] => i = j,
         \A x \in S : \E i \in 1..n : s[i] = x
  PROVE  Lists(s, S) /\ Len(s) = n
<1>1. s \in Seq(S)
  BY SeqDef
<1>2. Len(s) = n
  BY <1>1, LenProperties
<1> QED
  BY <1>1, <1>2 DEF Lists, IsInjective, ToSet

LEMMA ListsFinite ==
  ASSUME NEW S, NEW s, Lists(s, S)
  PROVE  IsFiniteSet(S) /\ Cardinality(S) = Len(s)
<1>1. s \in Bijection(1..Len(s), S) /\ Len(s) \in Nat
  <2>1. s \in [1..Len(s) -> S]
    BY LenProperties DEF Lists
  <2> QED
    BY <2>1, ListsIndex DEF Bijection, Injection, Surjection, IsInjective
<1>2. ExistsBijection(1..Len(s), S)
  BY <1>1 DEF ExistsBijection
<1> QED
  BY <1>1, <1>2, FS_NatBijection, FS_CountingElements

(* SetToSeqs: the ways to list a set.                                                 *)
LEMMA SetToSeqsLists ==
  ASSUME NEW S, IsFiniteSet(S), NEW s
  PROVE  s \in SetToSeqs(S) <=> Lists(s, S)
<1>1. PICK n \in Nat : n = Cardinality(S)
  BY FS_CardinalityType
<1>2. ASSUME s \in SetToSeqs(S) PROVE Lists(s, S)
  <2>1. s \in [1..n -> S] /\ \A i, j \in 1..n : i # j => s[i] # s[j]
    BY <1>1, <1>2 DEF SetToSeqs
  <2>2. s \in Injection(1..n, S)
    BY <2>1 DEF Injection, IsInjective
  <2>3. IsFiniteSet(1..n) /\ Cardinality(1..n) = n
    BY FS_Interval
  <2>4. s \in Surjection(1..n, S)
    BY <1>1, <2>2, <2>3, FS_Injection
  <2> QED
    BY <2>1, <2>4, IndexLists DEF Surjection
<1>3. ASSUME Lists(s, S) PROVE s \in SetToSeqs(S)
  <2>1. Len(s) = n
    BY <1>1, <1>3, ListsFinite
  <2>2. s \in [1..n -> S]
    BY <1>3, <2>1, LenProperties DEF Lists
  <2>3. \A i, j \in 1..n : i # j => s[i] # s[j]
    BY <1>3, <2>1, ListsIndex
  <2> QED
    BY <1>1, <2>2, <2>3 DEF SetToSeqs
<1> QED
  BY <1>2, <1>3
----------------------------------------------------------------------------------
(* A finite set with a strict total order can be listed in that order.                *)
TotalOrder(R, S) ==
    /\ \A x, y \in S : x # y => <<x, y>> \in R \/ <<y, x>> \in R
    /\ \A x \in S : <<x, x>> \notin R
    /\ \A x, y, z \in S : <<x, y>> \in R /\ <<y, z>> \in R => <<x, z>> \in R

Greatest(R, S, m) == m \in S /\ \A x \in S \ {m} : <<x, m>> \in R

Ordered(s, R) == \A i, j \in DOMAIN s : i < j => <<s[i], s[j]>> \in R

LEMMA GreatestExists ==
  ASSUME NEW S, IsFiniteSet(S), S # {}, NEW R, TotalOrder(R, S)
  PROVE  \E m : Greatest(R, S, m)
<1> DEFINE Good(T) == \E m : Greatest(R, T, m)
           G == {n \in Nat : \A T \in SUBSET S : Cardinality(T) = n + 1 => Good(T)}
<1>1. ASSUME NEW T \in SUBSET S PROVE IsFiniteSet(T) /\ Cardinality(T) \in Nat
  BY <1>1, FS_Subset, FS_CardinalityType
<1>2. 0 \in G
  <2>1. ASSUME NEW T \in SUBSET S, Cardinality(T) = 0 + 1 PROVE Good(T)
    <3>1. PICK x : T = {x}
      <4>1. Cardinality(T) = 1
        BY <2>1
      <4> QED
        BY <1>1, <4>1, FS_Singleton
    <3> QED
      BY <3>1 DEF Greatest
  <2> QED
    BY <2>1
<1>3. ASSUME NEW n \in G PROVE n + 1 \in G
  <2>1. ASSUME NEW T \in SUBSET S, Cardinality(T) = (n + 1) + 1 PROVE Good(T)
    <3>1. PICK x : x \in T
      BY <2>1, FS_EmptySet
    <3>2. Cardinality(T \ {x}) = n + 1 /\ T \ {x} \in SUBSET S
      BY <1>1, <2>1, <3>1, FS_RemoveElement
    <3>3. PICK m : Greatest(R, T \ {x}, m)
      BY <3>2
    <3>4. CASE <<m, x>> \in R
      <4>1. Greatest(R, T, x)
        BY <3>1, <3>3, <3>4 DEF Greatest, TotalOrder
      <4> QED
        BY <4>1
    <3>5. CASE <<m, x>> \notin R
      <4>1. Greatest(R, T, m)
        BY <3>1, <3>3, <3>5 DEF Greatest, TotalOrder
      <4> QED
        BY <4>1
    <3> QED
      BY <3>4, <3>5
  <2> QED
    BY <2>1
<1>4. \A n \in Nat : n \in G
  <2> HIDE DEF G
  <2>1. G \in SUBSET Nat
    BY DEF G
  <2> QED
    BY <1>2, <1>3, <2>1, NatSetInduction
<1>5. PICK n \in Nat : Cardinality(S) = n + 1
  <2>1. Cardinality(S) \in Nat /\ Cardinality(S) # 0
    BY FS_EmptySet, FS_CardinalityType
  <2>2. Cardinality(S) - 1 \in Nat /\ Cardinality(S) = (Cardinality(S) - 1) + 1
    BY <2>1
  <2> QED
    BY <2>2
<1>6. \A T \in SUBSET S : Cardinality(T) = n + 1 => Good(T)
  BY <1>4
<1> QED
  BY <1>5, <1>6

LEMMA OrderedListExists ==
  ASSUME NEW S, IsFiniteSet(S), NEW R, TotalOrder(R, S)
  PROVE  \E s \in SetToSeqs(S) : Ordered(s, R)
<1> DEFINE Good(T) == \E s : Lists(s, T) /\ Ordered(s, R)
           G == {n \in Nat : \A T \in SUBSET S : Cardinality(T) = n => Good(T)}
<1>1. ASSUME NEW T \in SUBSET S PROVE IsFiniteSet(T) /\ Cardinality(T) \in Nat
  BY <1>1, FS_Subset, FS_CardinalityType
<1>2. 0 \in G
  <2>1. ASSUME NEW T \in SUBSET S, Cardinality(T) = 0 PROVE Good(T)
    <3>1. T = {}
      BY <1>1, <2>1, FS_EmptySet
    <3>2. Lists(<<>>, {}) /\ Ordered(<<>>, R)
      BY EmptySeq DEF Lists, IsInjective, ToSet, Ordered
    <3> QED
      BY <3>1, <3>2
  <2> QED
    BY <2>1
<1>3. ASSUME NEW n \in G PROVE n + 1 \in G
  <2>1. ASSUME NEW T \in SUBSET S, Cardinality(T) = n + 1 PROVE Good(T)
    <3>1. T # {} /\ TotalOrder(R, T)
      BY <2>1, FS_EmptySet DEF TotalOrder
    <3>2. PICK m : Greatest(R, T, m)
      BY <1>1, <3>1, GreatestExists
    <3>3. m \in T /\ Cardinality(T \ {m}) = n /\ T \ {m} \in SUBSET S
      BY <1>1, <2>1, <3>2, FS_RemoveElement DEF Greatest
    <3>4. PICK s : Lists(s, T \ {m}) /\ Ordered(s, R)
      BY <3>3
    <3> DEFINE t == Append(s, m)
    <3>5. /\ s \in Seq(T) /\ Len(s) \in Nat /\ DOMAIN s = 1..Len(s)
          /\ \A i \in 1..Len(s) : s[i] \in T \ {m}
          /\ \A i, j \in 1..Len(s) : s[i] = s[j] => i = j
          /\ \A x \in T \ {m} : \E i \in 1..Len(s) : s[i] = x
      BY <3>4, ListsIndex, SeqMonotonic DEF Lists
    <3>6. /\ t \in [1..(Len(s) + 1) -> T] /\ t[Len(s) + 1] = m
          /\ \A i \in 1..Len(s) : t[i] = s[i]
      <4>1. s \in Seq(T) /\ m \in T
        BY <3>3, <3>5
      <4>2. /\ t \in Seq(T) /\ Len(t) = Len(s) + 1
            /\ \A i \in 1..Len(s) : t[i] = s[i]
            /\ t[Len(s) + 1] = m
        BY <4>1, AppendProperties
      <4> HIDE DEF t
      <4> QED
        BY <4>2, LenProperties
    <3> HIDE DEF t
    <3>7. Lists(t, T)
      <4>1. \A i, j \in 1..(Len(s) + 1) : t[i] = t[j] => i = j
        BY <3>5, <3>6
      <4>2. \A x \in T : \E i \in 1..(Len(s) + 1) : t[i] = x
        BY <3>5, <3>6
      <4> QED
        BY <3>5, <3>6, <4>1, <4>2, IndexLists
    <3>8. Ordered(t, R)
      BY <3>2, <3>4, <3>5, <3>6 DEF Ordered, Greatest
    <3> QED
      BY <3>7, <3>8
  <2> QED
    BY <2>1
<1>4. \A n \in Nat : n \in G
  <2> HIDE DEF G
  <2>1. G \in SUBSET Nat
    BY DEF G
  <2> QED
    BY <1>2, <1>3, <2>1, NatSetInduction
<1>5. Good(S)
  BY <1>1, <1>4
<1> QED
  BY <1>5, SetToSeqsLists
----------------------------------------------------------------------------------
(* What the router does to a list keeps it one.                                       *)
LEMMA RotationLists ==
  ASSUME NEW S, NEW s, Lists(s, S), NEW k \in 0..Len(s)
  PROVE  Lists(SubSeq(s, k + 1, Len(s)) \o SubSeq(s, 1, k), S)
<1> DEFINE a == SubSeq(s, k + 1, Len(s))
           b == SubSeq(s, 1, k)
           n == Len(s)
           t == a \o b
<1>1. /\ n \in Nat /\ \A i \in 1..n : s[i] \in S
      /\ \A i, j \in 1..n : s[i] = s[j] => i = j
      /\ \A x \in S : \E i \in 1..n : s[i] = x
  BY ListsIndex
<1>2. /\ a \in Seq(S) /\ Len(a) = n - k
      /\ \A i \in 1..(n - k) : a[i] = s[k + i]
  BY <1>1, SubSeqProperties
<1>3. /\ b \in Seq(S) /\ Len(b) = k
      /\ \A i \in 1..k : b[i] = s[i]
  BY <1>1, SubSeqProperties
<1> HIDE DEF a, b, n
<1>4. k \in 0..n
  BY DEF n
<1>5. /\ t \in Seq(S) /\ Len(t) = n
      /\ \A i \in 1..n : t[i] = IF i <= n - k THEN s[k + i] ELSE s[i - (n - k)]
  <2>1. /\ t \in Seq(S) /\ Len(t) = Len(a) + Len(b)
        /\ \A i \in 1..Len(a) + Len(b) : t[i] = IF i <= Len(a) THEN a[i] ELSE b[i - Len(a)]
    BY <1>2, <1>3, ConcatProperties
  <2> HIDE DEF t
  <2>2. n \in Nat /\ k \in Nat /\ k <= n /\ Len(a) + Len(b) = n
    BY <1>1, <1>2, <1>3, <1>4
  <2>3. ASSUME NEW i \in 1..n PROVE t[i] = IF i <= n - k THEN s[k + i] ELSE s[i - (n - k)]
    <3>1. t[i] = IF i <= n - k THEN a[i] ELSE b[i - (n - k)]
      BY <1>2, <2>1, <2>2
    <3>2. CASE i <= n - k
      BY <1>2, <2>2, <3>1, <3>2
    <3>3. CASE ~(i <= n - k)
      <4>1. i - (n - k) \in 1..k
        BY <2>2, <3>3
      <4> QED
        BY <1>3, <3>1, <3>3, <4>1
    <3> QED
      BY <3>2, <3>3
  <2> QED
    BY <2>1, <2>2, <2>3
<1> HIDE DEF t
<1>6. t \in [1..n -> S]
  BY <1>5, LenProperties
<1>7. \A i, j \in 1..n : t[i] = t[j] => i = j
  <2>1. ASSUME NEW i \in 1..n, NEW j \in 1..n, t[i] = t[j] PROVE i = j
    <3> DEFINE at(x) == IF x <= n - k THEN k + x ELSE x - (n - k)
    <3>1. at(i) \in 1..n /\ at(j) \in 1..n /\ (at(i) = at(j) => i = j)
      BY <1>1, <1>4
    <3>2. t[i] = s[at(i)] /\ t[j] = s[at(j)]
      BY <1>5
    <3> HIDE DEF at
    <3> QED
      BY <1>1, <2>1, <3>1, <3>2
  <2> QED
    BY <2>1
<1>8. ASSUME NEW x \in S PROVE \E i \in 1..n : t[i] = x
  <2>1. PICK i \in 1..n : s[i] = x
    BY <1>1
  <2>2. CASE i > k
    <3>1. i - k \in 1..n /\ t[i - k] = s[i]
      BY <1>1, <1>4, <1>5, <2>2
    <3> QED
      BY <2>1, <3>1
  <2>3. CASE i <= k
    <3>1. i + (n - k) \in 1..n /\ t[i + (n - k)] = s[i]
      BY <1>1, <1>4, <1>5, <2>3, SMTT(60)
    <3> QED
      BY <2>1, <3>1
  <2> QED
    BY <1>1, <1>4, <2>2, <2>3
<1>9. Lists(t, S)
  BY <1>1, <1>6, <1>7, <1>8, IndexLists
<1> QED
  BY <1>9 DEF t, a, b, n

(* One element moved to the front.                                                    *)
Moved(t, s, k) ==
    /\ Len(t) = Len(s)
    /\ t[1] = s[k]
    /\ \A i \in 2..k : t[i] = s[i - 1]
    /\ \A i \in (k + 1)..Len(s) : t[i] = s[i]

LEMMA FirstLists ==
  ASSUME NEW S, NEW s, Lists(s, S), NEW k \in 1..Len(s)
  PROVE  /\ Lists(<<s[k]>> \o RemoveAt(s, k), S)
         /\ Moved(<<s[k]>> \o RemoveAt(s, k), s, k)
<1> DEFINE t == <<s[k]>> \o RemoveAt(s, k)
<1> DEFINE a == SubSeq(s, 1, k - 1)
           b == SubSeq(s, k + 1, Len(s))
           c == a \o b
           n == Len(s)
           e == <<s[k]>>
<1>1. /\ n \in Nat /\ \A i \in 1..n : s[i] \in S
      /\ \A i, j \in 1..n : s[i] = s[j] => i = j
      /\ \A x \in S : \E i \in 1..n : s[i] = x
  BY ListsIndex
<1>2. k \in 1..n
  OBVIOUS
<1>3. /\ a \in Seq(S) /\ Len(a) = k - 1
      /\ \A i \in 1..(k - 1) : a[i] = s[i]
  BY <1>1, SubSeqProperties
<1>4. /\ b \in Seq(S) /\ Len(b) = n - k
      /\ \A i \in 1..(n - k) : b[i] = s[k + i]
  BY <1>1, SubSeqProperties
<1>5. e \in Seq(S) /\ Len(e) = 1 /\ e[1] = s[k]
  BY <1>1, <1>2
<1>6. t = e \o c
  BY DEF RemoveAt
<1> HIDE DEF a, b, n, e, t
<1>7. /\ c \in Seq(S) /\ Len(c) = n - 1
      /\ \A i \in 1..(n - 1) : c[i] = IF i <= k - 1 THEN s[i] ELSE s[i + 1]
  <2>1. /\ c \in Seq(S) /\ Len(c) = Len(a) + Len(b)
        /\ \A i \in 1..Len(a) + Len(b) : c[i] = IF i <= Len(a) THEN a[i] ELSE b[i - Len(a)]
    BY <1>3, <1>4, ConcatProperties
  <2> HIDE DEF c
  <2>2. Len(a) + Len(b) = n - 1
    BY <1>1, <1>2, <1>3, <1>4
  <2>3. ASSUME NEW i \in 1..(n - 1) PROVE c[i] = IF i <= k - 1 THEN s[i] ELSE s[i + 1]
    <3>1. c[i] = IF i <= k - 1 THEN a[i] ELSE b[i - (k - 1)]
      BY <1>3, <2>1, <2>2
    <3>2. CASE i <= k - 1
      BY <1>2, <1>3, <3>1, <3>2
    <3>3. CASE ~(i <= k - 1)
      <4>1. i - (k - 1) \in 1..(n - k) /\ k + (i - (k - 1)) = i + 1
        BY <1>1, <1>2, <3>3
      <4> QED
        BY <1>4, <3>1, <3>3, <4>1
    <3> QED
      BY <3>2, <3>3
  <2> QED
    BY <2>1, <2>2, <2>3
<1> HIDE DEF c
<1>8. /\ t \in Seq(S) /\ Len(t) = n
      /\ \A i \in 1..n : t[i] = IF i = 1 THEN s[k] ELSE IF i <= k THEN s[i - 1] ELSE s[i]
  <2>1. /\ t \in Seq(S) /\ Len(t) = Len(e) + Len(c)
        /\ \A i \in 1..Len(e) + Len(c) : t[i] = IF i <= Len(e) THEN e[i] ELSE c[i - Len(e)]
    <3>1. e \in Seq(S) /\ c \in Seq(S)
      BY <1>5, <1>7
    <3>2. /\ e \o c \in Seq(S) /\ Len(e \o c) = Len(e) + Len(c)
          /\ \A i \in 1..Len(e) + Len(c) : (e \o c)[i] = IF i <= Len(e) THEN e[i] ELSE c[i - Len(e)]
      BY <3>1, ConcatProperties
    <3> QED
      BY <1>6, <3>2, Zenon
  <2>2. Len(e) + Len(c) = n
    BY <1>1, <1>5, <1>7
  <2>3. ASSUME NEW i \in 1..n, i # 1 PROVE t[i] = IF i <= k THEN s[i - 1] ELSE s[i]
    <3>1. t[i] = c[i - 1] /\ i - 1 \in 1..(n - 1)
      BY <1>1, <1>5, <2>1, <2>2, <2>3
    <3>2. c[i - 1] = IF i - 1 <= k - 1 THEN s[i - 1] ELSE s[(i - 1) + 1]
      BY <1>7, <3>1
    <3>3. (i - 1) + 1 = i /\ (i - 1 <= k - 1 <=> i <= k)
      BY <1>2
    <3> QED
      BY <3>1, <3>2, <3>3
  <2>4. ASSUME 1 \in 1..n PROVE t[1] = s[k]
    BY <1>5, <2>1, <2>2, <2>4
  <2> QED
    BY <2>1, <2>2, <2>3, <2>4
<1>9. t \in [1..n -> S]
  BY <1>8, LenProperties
<1>10. \A i, j \in 1..n : t[i] = t[j] => i = j
  <2>1. ASSUME NEW i \in 1..n, NEW j \in 1..n, t[i] = t[j] PROVE i = j
    <3> DEFINE at(x) == IF x = 1 THEN k ELSE IF x <= k THEN x - 1 ELSE x
    <3>1. at(i) \in 1..n /\ at(j) \in 1..n /\ (at(i) = at(j) => i = j)
      BY <1>1, <1>2
    <3>2. t[i] = s[at(i)] /\ t[j] = s[at(j)]
      BY <1>8
    <3> HIDE DEF at
    <3> QED
      BY <1>1, <2>1, <3>1, <3>2
  <2> QED
    BY <2>1
<1>11. ASSUME NEW x \in S PROVE \E i \in 1..n : t[i] = x
  <2>1. PICK i \in 1..n : s[i] = x
    BY <1>1
  <2>2. CASE i = k
    BY <1>1, <1>2, <1>8, <2>1, <2>2
  <2>3. CASE i < k
    <3>1. i + 1 \in 1..n /\ t[i + 1] = s[i]
      BY <1>1, <1>2, <1>8, <2>3, SMTT(60)
    <3> QED
      BY <2>1, <3>1
  <2>4. CASE i > k
    <3>1. i # 1 /\ ~(i <= k)
      BY <1>2, <2>4
    <3>2. t[i] = s[i]
      BY <1>8, <3>1
    <3> QED
      BY <2>1, <3>2
  <2>5. i = k \/ i < k \/ i > k
    BY <1>2
  <2> QED
    BY <2>2, <2>3, <2>4, <2>5
<1>12. Lists(t, S)
  BY <1>1, <1>9, <1>10, <1>11, IndexLists
<1>13. 1 \in 1..n /\ \A i \in 2..k : i \in 1..n /\ i # 1 /\ i <= k
  BY <1>1, <1>2
<1>14. \A i \in (k + 1)..n : i \in 1..n /\ i # 1 /\ ~(i <= k)
  BY <1>1, <1>2
<1>15. Moved(t, s, k)
  BY <1>8, <1>13, <1>14 DEF n, Moved
<1> QED
  BY <1>12, <1>15 DEF t

(* Lists of disjoint sets, one after the other.                                       *)
Joined(t, a, b) ==
    /\ Len(t) = Len(a) + Len(b)
    /\ \A i \in 1..Len(a) : t[i] = a[i]
    /\ \A i \in (Len(a) + 1)..(Len(a) + Len(b)) : t[i] = b[i - Len(a)]

LEMMA ConcatLists ==
  ASSUME NEW A, NEW B, A \cap B = {}, NEW a, NEW b, Lists(a, A), Lists(b, B)
  PROVE  Lists(a \o b, A \cup B) /\ Joined(a \o b, a, b)
<1> DEFINE t == a \o b
           m == Len(a)
           n == Len(b)
<1>1. /\ m \in Nat /\ \A i \in 1..m : a[i] \in A
      /\ \A i, j \in 1..m : a[i] = a[j] => i = j
      /\ \A x \in A : \E i \in 1..m : a[i] = x
  BY ListsIndex
<1>2. /\ n \in Nat /\ \A i \in 1..n : b[i] \in B
      /\ \A i, j \in 1..n : b[i] = b[j] => i = j
      /\ \A x \in B : \E i \in 1..n : b[i] = x
  BY ListsIndex
<1>3. /\ t \in Seq(A \cup B) /\ Len(t) = m + n
      /\ \A i \in 1..(m + n) : t[i] = IF i <= m THEN a[i] ELSE b[i - m]
  <2>1. a \in Seq(A \cup B) /\ b \in Seq(A \cup B)
    BY SeqMonotonic DEF Lists
  <2> QED
    BY <2>1, ConcatProperties
<1> HIDE DEF t, m, n
<1>4. t \in [1..(m + n) -> A \cup B]
  BY <1>3, LenProperties
<1>5. \A i \in 1..m : i \in 1..(m + n) /\ t[i] = a[i]
  BY <1>1, <1>2, <1>3
<1>6. \A i \in 1..n : i + m \in 1..(m + n) /\ t[i + m] = b[i]
  BY <1>1, <1>2, <1>3
<1>7. ASSUME NEW i \in 1..(m + n), NEW j \in 1..(m + n), t[i] = t[j] PROVE i = j
  <2>1. CASE i <= m /\ j <= m
    BY <1>1, <1>2, <1>3, <1>7, <2>1
  <2>2. CASE i > m /\ j > m
    <3>1. i - m \in 1..n /\ j - m \in 1..n /\ t[i] = b[i - m] /\ t[j] = b[j - m]
      BY <1>1, <1>2, <1>3, <2>2
    <3>2. i - m = j - m
      BY <1>2, <1>7, <3>1
    <3> QED
      BY <1>1, <3>2
  <2>3. CASE i <= m /\ j > m
    <3>1. i \in 1..m /\ j - m \in 1..n /\ t[i] = a[i] /\ t[j] = b[j - m]
      BY <1>1, <1>2, <1>3, <2>3
    <3> QED
      BY <1>1, <1>2, <1>7, <3>1
  <2>4. CASE i > m /\ j <= m
    <3>1. i - m \in 1..n /\ j \in 1..m /\ t[i] = b[i - m] /\ t[j] = a[j]
      BY <1>1, <1>2, <1>3, <2>4
    <3> QED
      BY <1>1, <1>2, <1>7, <3>1
  <2> QED
    BY <1>1, <1>2, <2>1, <2>2, <2>3, <2>4
<1>8. ASSUME NEW x \in A \cup B PROVE \E i \in 1..(m + n) : t[i] = x
  BY <1>1, <1>2, <1>5, <1>6
<1>9. Lists(t, A \cup B)
  <2>1. m + n \in Nat
    BY <1>1, <1>2
  <2> QED
    BY <1>4, <1>7, <1>8, <2>1, IndexLists
<1>10. \A i \in (m + 1)..(m + n) : t[i] = b[i - m]
  BY <1>1, <1>2, <1>3
<1> QED
  BY <1>3, <1>5, <1>9, <1>10 DEF t, m, n, Joined
----------------------------------------------------------------------------------
(* SumFunctionOnSet, the sum of a function over a finite set.                         *)
Some(T) == CHOOSE x \in T : TRUE

Sums(g, w, S) ==
    g = [T \in SUBSET S |-> IF T = {} THEN 0 ELSE w[Some(T)] + g[T \ {Some(T)}]]

LEMMA SomeIn ==
  ASSUME NEW T, T # {}
  PROVE  Some(T) \in T
  BY DEF Some

LEMMA SumsExists ==
  ASSUME NEW S, IsFiniteSet(S), NEW w
  PROVE  \E g : Sums(g, w, S)
<1> DEFINE Small(n) == {T \in SUBSET S : Cardinality(T) <= n}
           Up(g, n) == g = [T \in Small(n) |-> IF T = {} THEN 0 ELSE w[Some(T)] + g[T \ {Some(T)}]]
           G == {n \in Nat : \E g : Up(g, n)}
<1>1. ASSUME NEW T \in SUBSET S
      PROVE  /\ IsFiniteSet(T) /\ Cardinality(T) \in Nat
             /\ T # {} => /\ T \ {Some(T)} \in SUBSET S
                          /\ Cardinality(T \ {Some(T)}) = Cardinality(T) - 1
                          /\ Cardinality(T) > 0
  <2>1. IsFiniteSet(T) /\ Cardinality(T) \in Nat
    BY <1>1, FS_Subset, FS_CardinalityType
  <2>2. ASSUME T # {} PROVE Cardinality(T \ {Some(T)}) = Cardinality(T) - 1
    BY <2>1, <2>2, SomeIn, FS_RemoveElement, ZenonT(60)
  <2>3. ASSUME T # {} PROVE Cardinality(T) > 0
    BY <2>1, <2>3, FS_EmptySet
  <2> QED
    BY <2>1, <2>2, <2>3
<1>2. 0 \in G
  <2> DEFINE g == [T \in Small(0) |-> 0]
  <2>1. ASSUME NEW T \in Small(0) PROVE T = {}
    <3>1. IsFiniteSet(T) /\ Cardinality(T) \in Nat /\ Cardinality(T) <= 0
      BY <1>1
    <3>2. Cardinality(T) = 0
      BY <3>1
    <3> QED
      BY <3>1, <3>2, FS_EmptySet
  <2>2. Up(g, 0)
    BY <2>1
  <2> QED
    BY <2>2
<1>3. ASSUME NEW n \in G PROVE n + 1 \in G
  <2>1. n \in Nat
    BY <1>3
  <2>2. PICK g : Up(g, n)
    BY <1>3
  <2> DEFINE rest(T) == T \ {Some(T)}
             h == [T \in Small(n + 1) |-> IF T = {} THEN 0 ELSE w[Some(T)] + g[rest(T)]]
  <2>3. ASSUME NEW T \in Small(n + 1), T # {} PROVE rest(T) \in Small(n) /\ rest(T) \in Small(n + 1)
    BY <1>1, <2>1, <2>3
  <2> HIDE DEF rest, Small
  <2>4. ASSUME NEW T \in Small(n) PROVE T \in Small(n + 1)
    <3>1. T \in SUBSET S /\ Cardinality(T) <= n
      BY DEF Small
    <3>2. Cardinality(T) \in Nat
      BY <1>1, <3>1
    <3>3. Cardinality(T) <= n + 1
      BY <2>1, <3>1, <3>2
    <3> QED
      BY <3>1, <3>3 DEF Small
  <2>5. \A T \in Small(n) : g[T] = IF T = {} THEN 0 ELSE w[Some(T)] + g[rest(T)]
    BY <2>2 DEF rest
  <2>6. \A T \in Small(n) : h[T] = g[T]
    BY <2>4, <2>5
  <2>7. \A T \in Small(n + 1) : h[T] = IF T = {} THEN 0 ELSE w[Some(T)] + h[rest(T)]
    BY <2>3, <2>6
  <2>8. h = [T \in Small(n + 1) |-> h[T]]
    OBVIOUS
  <2>9. Up(h, n + 1)
    <3> HIDE DEF h
    <3>1. [T \in Small(n + 1) |-> h[T]]
            = [T \in Small(n + 1) |-> IF T = {} THEN 0 ELSE w[Some(T)] + h[rest(T)]]
      BY <2>7
    <3> QED
      BY <2>8, <3>1 DEF rest
  <2> HIDE DEF h, Up
  <2> QED
    BY <2>1, <2>9
<1>4. \A n \in Nat : n \in G
  <2> HIDE DEF G
  <2>1. G \in SUBSET Nat
    BY DEF G
  <2> QED
    BY <1>2, <1>3, <2>1, NatSetInduction
<1>5. Cardinality(S) \in Nat /\ Small(Cardinality(S)) = SUBSET S
  BY FS_CardinalityType, FS_Subset
<1>6. PICK g : Up(g, Cardinality(S))
  BY <1>4, <1>5
<1>7. Sums(g, w, S)
  BY <1>5, <1>6 DEF Sums
<1> QED
  BY <1>7

LEMMA SumUnfolds ==
  ASSUME NEW S, IsFiniteSet(S), NEW w
  PROVE  \E g : Sums(g, w, S) /\ SumFunctionOnSet(w, S) = g[S]
<1> DEFINE g == CHOOSE f : f = [T \in SUBSET S |->
                                  IF T = {} THEN 0
                                  ELSE w[CHOOSE x \in T : TRUE] + f[T \ {CHOOSE x \in T : TRUE}]]
<1>1. SumFunctionOnSet(w, S) = g[S]
  BY DEF SumFunctionOnSet, FoldFunctionOnSet, MapThenFoldSet
<1>2. \E h : h = [T \in SUBSET S |->
                    IF T = {} THEN 0
                    ELSE w[CHOOSE x \in T : TRUE] + h[T \ {CHOOSE x \in T : TRUE}]]
  <2>1. PICK h : Sums(h, w, S)
    BY SumsExists
  <2>2. h = [T \in SUBSET S |->
                    IF T = {} THEN 0
                    ELSE w[CHOOSE x \in T : TRUE] + h[T \ {CHOOSE x \in T : TRUE}]]
    BY <2>1 DEF Sums, Some
  <2> HIDE DEF g
  <2> QED
    BY <2>2
<1>3. g = [T \in SUBSET S |->
                    IF T = {} THEN 0
                    ELSE w[CHOOSE x \in T : TRUE] + g[T \ {CHOOSE x \in T : TRUE}]]
  BY <1>2
<1> HIDE DEF g
<1>4. Sums(g, w, S)
  BY <1>3 DEF Sums, Some
<1> QED
  BY <1>1, <1>4

LEMMA SumsAgree ==
  ASSUME NEW S, IsFiniteSet(S), NEW R \in SUBSET S, NEW w, NEW g, Sums(g, w, S), NEW h, Sums(h, w, R)
  PROVE  g[R] = h[R]
<1> DEFINE G == {n \in Nat : \A T \in SUBSET R : Cardinality(T) = n => g[T] = h[T]}
<1>1. ASSUME NEW T \in SUBSET R PROVE IsFiniteSet(T) /\ Cardinality(T) \in Nat
  BY <1>1, FS_Subset, FS_CardinalityType
<1>2. ASSUME NEW T \in SUBSET R
      PROVE  /\ g[T] = IF T = {} THEN 0 ELSE w[Some(T)] + g[T \ {Some(T)}]
             /\ h[T] = IF T = {} THEN 0 ELSE w[Some(T)] + h[T \ {Some(T)}]
  <2>1. T \in SUBSET S
    OBVIOUS
  <2> QED
    BY <2>1 DEF Sums
<1>3. 0 \in G
  <2>1. ASSUME NEW T \in SUBSET R, Cardinality(T) = 0 PROVE g[T] = h[T]
    <3>1. T = {}
      BY <1>1, <2>1, FS_EmptySet
    <3> QED
      BY <1>2, <3>1
  <2> QED
    BY <2>1
<1>4. ASSUME NEW n \in G PROVE n + 1 \in G
  <2>1. ASSUME NEW T \in SUBSET R, Cardinality(T) = n + 1 PROVE g[T] = h[T]
    <3>0. n \in Nat /\ n + 1 # 0
      BY <1>4
    <3>1. T # {} /\ Some(T) \in T
      BY <2>1, <3>0, FS_EmptySet, SomeIn
    <3>2. T \ {Some(T)} \in SUBSET R /\ Cardinality(T \ {Some(T)}) = n
      <4>1. IsFiniteSet(T)
        BY <1>1
      <4>2. Cardinality(T \ {Some(T)}) = Cardinality(T) - 1
        BY <3>1, <4>1, FS_RemoveElement
      <4>3. (n + 1) - 1 = n
        BY <3>0
      <4> QED
        BY <2>1, <4>2, <4>3
    <3>3. g[T \ {Some(T)}] = h[T \ {Some(T)}]
      BY <3>2
    <3> QED
      BY <1>2, <3>1, <3>3
  <2> QED
    BY <2>1
<1>5. \A n \in Nat : n \in G
  <2> HIDE DEF G
  <2>1. G \in SUBSET Nat
    BY DEF G
  <2> QED
    BY <1>3, <1>4, <2>1, NatSetInduction
<1>6. R \in SUBSET R
  OBVIOUS
<1> QED
  BY <1>1, <1>5, <1>6

LEMMA SumStep ==
  ASSUME NEW S, IsFiniteSet(S), NEW w
  PROVE  SumFunctionOnSet(w, S) =
            IF S = {} THEN 0 ELSE w[Some(S)] + SumFunctionOnSet(w, S \ {Some(S)})
<1>1. PICK g : Sums(g, w, S) /\ SumFunctionOnSet(w, S) = g[S]
  BY SumUnfolds
<1>2. g[S] = IF S = {} THEN 0 ELSE w[Some(S)] + g[S \ {Some(S)}]
  BY <1>1 DEF Sums
<1>3. IsFiniteSet(S \ {Some(S)})
  BY FS_Subset
<1>4. PICK h : Sums(h, w, S \ {Some(S)}) /\ SumFunctionOnSet(w, S \ {Some(S)}) = h[S \ {Some(S)}]
  BY <1>3, SumUnfolds
<1>5. g[S \ {Some(S)}] = h[S \ {Some(S)}]
  <2>1. S \ {Some(S)} \in SUBSET S
    OBVIOUS
  <2> QED
    BY <1>1, <1>4, <2>1, SumsAgree
<1> QED
  BY <1>1, <1>2, <1>4, <1>5

LEMMA SumEmpty ==
  ASSUME NEW w
  PROVE  SumFunctionOnSet(w, {}) = 0
  BY SumStep, FS_EmptySet

LEMMA SumType ==
  ASSUME NEW D, NEW w \in [D -> Nat], NEW S \in SUBSET D, IsFiniteSet(S)
  PROVE  SumFunctionOnSet(w, S) \in Nat
<1> DEFINE G == {n \in Nat : \A T \in SUBSET S : Cardinality(T) = n => SumFunctionOnSet(w, T) \in Nat}
<1>1. ASSUME NEW T \in SUBSET S PROVE IsFiniteSet(T) /\ Cardinality(T) \in Nat
  BY <1>1, FS_Subset, FS_CardinalityType
<1>2. 0 \in G
  <2>1. ASSUME NEW T \in SUBSET S, Cardinality(T) = 0 PROVE SumFunctionOnSet(w, T) \in Nat
    <3>1. T = {}
      BY <1>1, <2>1, FS_EmptySet
    <3> QED
      BY <3>1, SumEmpty
  <2> QED
    BY <2>1
<1>3. ASSUME NEW n \in G PROVE n + 1 \in G
  <2>1. ASSUME NEW T \in SUBSET S, Cardinality(T) = n + 1 PROVE SumFunctionOnSet(w, T) \in Nat
    <3>1. T # {} /\ Some(T) \in T
      BY <2>1, FS_EmptySet, SomeIn
    <3>2. T \ {Some(T)} \in SUBSET S /\ Cardinality(T \ {Some(T)}) = n
      BY <1>1, <2>1, <3>1, FS_RemoveElement
    <3>3. SumFunctionOnSet(w, T \ {Some(T)}) \in Nat /\ w[Some(T)] \in Nat
      BY <3>1, <3>2
    <3>4. SumFunctionOnSet(w, T) = w[Some(T)] + SumFunctionOnSet(w, T \ {Some(T)})
      BY <1>1, <3>1, SumStep
    <3> QED
      BY <3>3, <3>4
  <2> QED
    BY <2>1
<1>4. \A n \in Nat : n \in G
  <2> HIDE DEF G
  <2>1. G \in SUBSET Nat
    BY DEF G
  <2> QED
    BY <1>2, <1>3, <2>1, NatSetInduction
<1>5. S \in SUBSET S
  OBVIOUS
<1> QED
  BY <1>1, <1>4, <1>5

(* Any element can be the one that is added last.                                     *)
LEMMA SumRemove ==
  ASSUME NEW D, NEW w \in [D -> Nat], NEW S \in SUBSET D, IsFiniteSet(S), NEW x \in S
  PROVE  SumFunctionOnSet(w, S) = w[x] + SumFunctionOnSet(w, S \ {x})
<1> DEFINE sum(T) == SumFunctionOnSet(w, T)
           G == {n \in Nat : \A T \in SUBSET S : \A y \in T :
                                Cardinality(T) = n => sum(T) = w[y] + sum(T \ {y})}
<1>1. ASSUME NEW T \in SUBSET S
      PROVE  /\ IsFiniteSet(T) /\ Cardinality(T) \in Nat /\ sum(T) \in Nat
             /\ \A y \in T : w[y] \in Nat /\ Cardinality(T \ {y}) = Cardinality(T) - 1
  <2>1. IsFiniteSet(T) /\ Cardinality(T) \in Nat
    BY FS_Subset, FS_CardinalityType
  <2>2. sum(T) \in Nat
    BY <2>1, SumType
  <2> QED
    BY <2>1, <2>2, FS_RemoveElement
<1>2. \A T \in SUBSET S : T # {} => Some(T) \in T /\ sum(T) = w[Some(T)] + sum(T \ {Some(T)})
  BY <1>1, SumStep, SomeIn
<1> HIDE DEF sum
<1>3. 0 \in G
  <2>1. \A T \in SUBSET S : Cardinality(T) = 0 => T = {}
    BY <1>1, FS_EmptySet
  <2> QED
    BY <2>1
<1>4. ASSUME NEW n \in G PROVE n + 1 \in G
  <2>1. ASSUME NEW T \in SUBSET S, NEW y \in T, Cardinality(T) = n + 1
        PROVE  sum(T) = w[y] + sum(T \ {y})
    <3> DEFINE c == Some(T)
    <3>1. c \in T /\ sum(T) = w[c] + sum(T \ {c})
      BY <1>2
    <3> HIDE DEF c
    <3>2. CASE c = y
      BY <3>1, <3>2
    <3>3. CASE c # y
      <4>1. /\ T \ {c} \in SUBSET S /\ y \in T \ {c} /\ Cardinality(T \ {c}) = n
            /\ T \ {y} \in SUBSET S /\ c \in T \ {y} /\ Cardinality(T \ {y}) = n
        BY <1>1, <2>1, <3>1, <3>3
      <4>2. sum(T \ {c}) = w[y] + sum((T \ {c}) \ {y})
        BY <4>1
      <4>3. sum(T \ {y}) = w[c] + sum((T \ {y}) \ {c})
        BY <4>1
      <4>4. (T \ {c}) \ {y} = (T \ {y}) \ {c} /\ (T \ {c}) \ {y} \in SUBSET S
        OBVIOUS
      <4>5. sum((T \ {c}) \ {y}) \in Nat /\ w[c] \in Nat /\ w[y] \in Nat
        BY <1>1, <3>1, <4>4
      <4> QED
        BY <3>1, <4>2, <4>3, <4>4, <4>5
    <3> QED
      BY <3>2, <3>3
  <2> QED
    BY <2>1
<1>5. \A n \in Nat : n \in G
  <2> HIDE DEF G
  <2>1. G \in SUBSET Nat
    BY DEF G
  <2> QED
    BY <1>3, <1>4, <2>1, NatSetInduction
<1>6. S \in SUBSET S
  OBVIOUS
<1> QED
  BY <1>1, <1>5, <1>6 DEF sum
----------------------------------------------------------------------------------
(* FlattenSeq, the concatenation of a sequence of sequences.                          *)
LEMMA FlattenSteps ==
  ASSUME NEW T, NEW ss \in Seq(Seq(T)), Len(ss) # 0
  PROVE  \E f \in [1..Len(ss) -> Seq(T)] :
            /\ f[1] = ss[1]
            /\ \A i \in 2..Len(ss) : f[i] = f[i - 1] \o ss[i]
            /\ FlattenSeq(ss) = f[Len(ss)]
<1>0. PICK n \in Nat \ {0} : n = Len(ss)
  BY LenProperties
<1> DEFINE Steps(f, m) == f = [i \in 1..m |-> IF i = 1 THEN ss[i] ELSE f[i - 1] \o ss[i]]
           G == {m \in Nat : \E f : Steps(f, m)}
<1>1. 0 \in G
  <2>1. Steps([i \in 1..0 |-> <<>>], 0)
    OBVIOUS
  <2> QED
    BY <2>1
<1>2. ASSUME NEW m \in G PROVE m + 1 \in G
  <2>1. m \in Nat
    BY <1>2
  <2>2. PICK f : Steps(f, m)
    BY <1>2
  <2> DEFINE h == [i \in 1..(m + 1) |-> IF i = 1 THEN ss[i] ELSE f[i - 1] \o ss[i]]
  <2>3. ASSUME NEW i \in 1..m PROVE i \in 1..(m + 1) /\ f[i] = h[i]
    <3>1. i \in 1..(m + 1)
      BY <2>1
    <3>2. f[i] = IF i = 1 THEN ss[i] ELSE f[i - 1] \o ss[i]
      BY <2>2
    <3>3. h[i] = IF i = 1 THEN ss[i] ELSE f[i - 1] \o ss[i]
      BY <3>1
    <3> QED
      BY <3>1, <3>2, <3>3
  <2>4. ASSUME NEW i \in 1..(m + 1) PROVE h[i] = IF i = 1 THEN ss[i] ELSE h[i - 1] \o ss[i]
    <3>1. i # 1 => i - 1 \in 1..m
      BY <2>1
    <3> QED
      BY <2>3, <3>1
  <2>5. Steps(h, m + 1)
    <3>1. h = [i \in 1..(m + 1) |-> h[i]]
      OBVIOUS
    <3> HIDE DEF h
    <3>2. [i \in 1..(m + 1) |-> h[i]]
            = [i \in 1..(m + 1) |-> IF i = 1 THEN ss[i] ELSE h[i - 1] \o ss[i]]
      BY <2>4
    <3> QED
      BY <3>1, <3>2
  <2> HIDE DEF h, Steps
  <2> QED
    BY <2>1, <2>5
<1>3. \A m \in Nat : m \in G
  <2> HIDE DEF G
  <2>1. G \in SUBSET Nat
    BY DEF G
  <2> QED
    BY <1>1, <1>2, <2>1, NatSetInduction
<1> DEFINE fl == CHOOSE f : f = [i \in 1..n |-> IF i = 1 THEN ss[i] ELSE f[i - 1] \o ss[i]]
<1>4. FlattenSeq(ss) = fl[n]
  BY <1>0 DEF FlattenSeq
<1>5. fl = [i \in 1..n |-> IF i = 1 THEN ss[i] ELSE fl[i - 1] \o ss[i]]
  <2>1. PICK f : Steps(f, n)
    BY <1>3
  <2> QED
    BY <2>1
<1> HIDE DEF fl
<1>6. /\ fl[1] = ss[1]
      /\ \A i \in 2..n : fl[i] = fl[i - 1] \o ss[i]
  <2>1. 1 \in 1..n /\ \A i \in 2..n : i \in 1..n /\ i # 1
    OBVIOUS
  <2> QED
    BY <1>5, <2>1
<1>7. \A i \in 1..n : ss[i] \in Seq(T)
  <2>1. DOMAIN ss = 1..n
    BY <1>0, LenProperties
  <2> QED
    BY <2>1, ElementOfSeq
<1> DEFINE H == {m \in Nat : m + 1 <= n => fl[m + 1] \in Seq(T)}
<1>8. 0 \in H
  BY <1>6, <1>7
<1>9. ASSUME NEW m \in H PROVE m + 1 \in H
  <2>1. m \in Nat
    BY <1>9
  <2>2. ASSUME (m + 1) + 1 <= n PROVE fl[(m + 1) + 1] \in Seq(T)
    <3>1. (m + 1) + 1 \in 2..n /\ ((m + 1) + 1) - 1 = m + 1 /\ (m + 1) + 1 \in 1..n /\ m + 1 <= n
      BY <2>1, <2>2
    <3>2. fl[m + 1] \in Seq(T)
      BY <1>9, <3>1
    <3>3. fl[(m + 1) + 1] = fl[m + 1] \o ss[(m + 1) + 1]
      BY <1>6, <3>1
    <3> QED
      BY <1>7, <3>1, <3>2, <3>3, ConcatProperties
  <2> QED
    BY <2>1, <2>2
<1>10. \A m \in Nat : m \in H
  <2> HIDE DEF H
  <2>1. H \in SUBSET Nat
    BY DEF H
  <2> QED
    BY <1>8, <1>9, <2>1, NatSetInduction
<1>11. \A i \in 1..n : fl[i] \in Seq(T)
  <2>1. ASSUME NEW i \in 1..n PROVE fl[i] \in Seq(T)
    <3>1. i - 1 \in Nat /\ (i - 1) + 1 = i /\ i <= n
      OBVIOUS
    <3>2. i - 1 \in H
      BY <1>10, <3>1
    <3> QED
      BY <3>1, <3>2
  <2> QED
    BY <2>1
<1>12. fl \in [1..n -> Seq(T)]
  <2>1. fl = [i \in 1..n |-> fl[i]]
    BY <1>5
  <2> QED
    BY <1>11, <2>1
<1> QED
  BY <1>0, <1>4, <1>6, <1>12

(* A list in which each element stands as often as its weight says.                   *)
Repeated(h, w) == FlattenSeq([i \in 1..Len(h) |-> [j \in 1..w[h[i]] |-> h[i]]])

Places(s, x) == {i \in 1..Len(s) : s[i] = x}

Repeats(e, T, w) ==
    /\ e \in Seq(T)
    /\ Len(e) = SumFunctionOnSet(w, T)
    /\ \A x \in T : IsFiniteSet(Places(e, x)) /\ Cardinality(Places(e, x)) = w[x]

LEMMA RepeatedCounts ==
  ASSUME NEW D, NEW T \in SUBSET D, T # {}, NEW h, Lists(h, T), NEW w \in [D -> Nat \ {0}]
  PROVE  Repeats(Repeated(h, w), T, w)
<1> DEFINE n == Len(h)
           block(i) == [j \in 1..w[h[i]] |-> h[i]]
           ss == [i \in 1..n |-> block(i)]
           upto(m) == {h[i] : i \in 1..m}
<1>1. /\ n \in Nat /\ \A i \in 1..n : h[i] \in T
      /\ \A i, j \in 1..n : h[i] = h[j] => i = j
      /\ \A x \in T : \E i \in 1..n : h[i] = x
  BY ListsIndex
<1>2. n \in Nat \ {0}
  BY <1>1
<1>3. IsFiniteSet(T)
  BY ListsFinite
<1> HIDE DEF n
<1>4. ASSUME NEW i \in 1..n
      PROVE  /\ w[h[i]] \in Nat \ {0}
             /\ block(i) \in Seq({h[i]}) /\ block(i) \in Seq(T) /\ Len(block(i)) = w[h[i]]
             /\ \A j \in 1..w[h[i]] : block(i)[j] = h[i]
  <2>1. h[i] \in T /\ w[h[i]] \in Nat \ {0}
    BY <1>1
  <2>2. block(i) \in Seq({h[i]})
    BY <2>1, SeqDef
  <2>3. block(i) \in Seq(T)
    BY <2>1, SeqDef
  <2> QED
    BY <2>1, <2>2, <2>3, LenProperties
<1> HIDE DEF block
<1>5. /\ ss \in Seq(Seq(T)) /\ Len(ss) = n
      /\ \A i \in 1..n : ss[i] = block(i)
  <2>1. ss \in [1..n -> Seq(T)]
    BY <1>4
  <2>2. ss \in Seq(Seq(T))
    BY <1>2, <2>1, SeqDef
  <2> QED
    BY <1>2, <2>1, <2>2, LenProperties
<1>6. Repeated(h, w) = FlattenSeq(ss)
  BY DEF Repeated, n, block
<1> HIDE DEF ss
<1>7. PICK f \in [1..n -> Seq(T)] :
        /\ f[1] = ss[1]
        /\ \A i \in 2..n : f[i] = f[i - 1] \o ss[i]
        /\ FlattenSeq(ss) = f[n]
  <2>1. n = Len(ss) /\ ss \in Seq(Seq(T)) /\ Len(ss) # 0
    BY <1>2, <1>5
  <2>2. \E f \in [1..Len(ss) -> Seq(T)] :
            /\ f[1] = ss[1]
            /\ \A i \in 2..Len(ss) : f[i] = f[i - 1] \o ss[i]
            /\ FlattenSeq(ss) = f[Len(ss)]
    BY <2>1, FlattenSteps
  <2> QED
    BY <2>1, <2>2, Zenon
<1> DEFINE P(m) == /\ f[m] \in Seq(upto(m))
                   /\ Len(f[m]) = SumFunctionOnSet(w, upto(m))
                   /\ \A x \in upto(m) : /\ IsFiniteSet(Places(f[m], x))
                                         /\ Cardinality(Places(f[m], x)) = w[x]
           G == {m \in Nat : m + 1 <= n => P(m + 1)}
<1>8. ASSUME NEW m \in 1..n PROVE upto(m) \in SUBSET T /\ IsFiniteSet(upto(m))
  <2>1. upto(m) \in SUBSET T
    BY <1>1, <1>2
  <2> QED
    BY <1>3, <2>1, FS_Subset
<1>9. w \in [D -> Nat] /\ T \in SUBSET D
  OBVIOUS
<1>10. 0 \in G
  <2> DEFINE x == h[1]
             k == w[x]
  <2>1. 1 \in 1..n /\ upto(1) = {x}
    BY <1>2
  <2>2. /\ k \in Nat \ {0} /\ f[1] \in Seq({x}) /\ Len(f[1]) = k
        /\ \A j \in 1..k : f[1][j] = x
    <3>1. f[1] = block(1)
      BY <1>5, <1>7, <2>1
    <3> HIDE DEF upto
    <3> QED
      BY <1>4, <2>1, <3>1
  <2>9. k = w[x]
    OBVIOUS
  <2> HIDE DEF x, k
  <2>3. SumFunctionOnSet(w, {x}) = k
    <3>1. {x} \in SUBSET T /\ IsFiniteSet({x}) /\ {x} \ {x} = {}
      BY <1>8, <2>1
    <3>2. SumFunctionOnSet(w, {x}) = w[x] + SumFunctionOnSet(w, {x} \ {x})
      BY <1>9, <3>1, SumRemove
    <3> QED
      <4>1. SumFunctionOnSet(w, {x} \ {x}) = 0
        BY <3>1, SumEmpty, Zenon
      <4> HIDE DEF P, G
      <4> QED
        BY <2>2, <2>9, <3>2, <4>1
  <2>4. IsFiniteSet(Places(f[1], x)) /\ Cardinality(Places(f[1], x)) = k
    <3>1. Places(f[1], x) = 1..k
      BY <2>2 DEF Places
    <3> QED
      BY <2>2, <3>1, FS_Interval
  <2>5. P(1)
    <3> HIDE DEF upto
    <3> QED
      BY <2>1, <2>2, <2>3, <2>4, <2>9
  <2> HIDE DEF P
  <2> QED
    BY <2>5
<1>11. ASSUME NEW m0 \in G PROVE m0 + 1 \in G
  <2> DEFINE m == m0 + 1
  <2>1. m0 \in Nat /\ m \in Nat
    BY <1>11
  <2>2. ASSUME m + 1 <= n PROVE P(m + 1)
    <3> DEFINE y == h[m + 1]
               k == w[y]
               g == f[m]
               L == Len(g)
               b == block(m + 1)
               U == upto(m)
    <3>1. P(m)
      <4> HIDE DEF P
      <4> QED
        BY <1>1, <1>11, <2>1, <2>2
    <3>2. m \in 1..n /\ m + 1 \in 1..n /\ m + 1 \in 2..n /\ (m + 1) - 1 = m
      BY <1>1, <2>1, <2>2
    <3>12. w[y] = k
      OBVIOUS
    <3> HIDE DEF m
    <3>3. y \notin U /\ upto(m + 1) = U \cup {y} /\ y \in T
      <4>1. \A i \in 1..m : i \in 1..n /\ i # m + 1
        BY <1>2, <3>2
      <4>2. y \notin U
        <5>1. \A i \in 1..m : h[i] # h[m + 1]
          BY <1>1, <3>2, <4>1
        <5> QED
          BY <5>1, Zenon
      <4>3. 1..(m + 1) = (1..m) \cup {m + 1}
        BY <3>2
      <4> QED
        <5>1. upto(m + 1) = U \cup {y}
          BY <4>3
        <5>2. y \in T
          BY <1>1, <3>2
        <5> QED
          BY <4>2, <5>1, <5>2
    <3>4. /\ k \in Nat \ {0} /\ b \in Seq({y}) /\ Len(b) = k
          /\ \A j \in 1..k : b[j] = y
      BY <1>4, <3>2
    <3>5. f[m + 1] = g \o b
      BY <1>5, <1>7, <3>2
    <3>6. /\ g \in Seq(U) /\ L = SumFunctionOnSet(w, U)
          /\ \A x \in U : IsFiniteSet(Places(g, x)) /\ Cardinality(Places(g, x)) = w[x]
      BY <3>1
    <3> HIDE DEF y, k, g, b, U, upto
    <3>7. /\ g \o b \in Seq(U \cup {y}) /\ Len(g \o b) = L + k
          /\ \A i \in 1..(L + k) : (g \o b)[i] = IF i <= L THEN g[i] ELSE b[i - L]
      <4>1. g \in Seq(U \cup {y}) /\ b \in Seq(U \cup {y})
        BY <3>4, <3>6, SeqMonotonic
      <4>2. /\ g \o b \in Seq(U \cup {y}) /\ Len(g \o b) = Len(g) + Len(b)
            /\ \A i \in 1..(Len(g) + Len(b)) :
                  (g \o b)[i] = IF i <= Len(g) THEN g[i] ELSE b[i - Len(g)]
        BY <4>1, ConcatProperties
      <4>3. L = Len(g) /\ k = Len(b)
        BY <3>4
      <4> QED
        BY <4>2, <4>3, Zenon
    <3>8. L \in Nat /\ \A i \in 1..L : g[i] \in U
      <4>1. L \in Nat /\ DOMAIN g = 1..L
        BY <3>6, LenProperties
      <4> QED
        BY <3>6, <4>1, ElementOfSeq
    <3>9. L + k = SumFunctionOnSet(w, U \cup {y})
      <4>1. (U \cup {y}) \in SUBSET T /\ IsFiniteSet(U \cup {y}) /\ (U \cup {y}) \ {y} = U
        BY <1>8, <3>2, <3>3
      <4>2. SumFunctionOnSet(w, U \cup {y}) = w[y] + SumFunctionOnSet(w, (U \cup {y}) \ {y})
        BY <1>9, <4>1, SumRemove
      <4> QED
        <5>1. SumFunctionOnSet(w, (U \cup {y}) \ {y}) = L
          BY <3>6, <4>1, Zenon
        <5> HIDE DEF P, G, L
        <5> QED
          BY <3>4, <3>8, <3>12, <4>2, <5>1
    <3> HIDE DEF L
    <3>10. ASSUME NEW x \in U PROVE Places(g \o b, x) = Places(g, x)
      <4>1. x # y
        BY <3>3
      <4>2. ASSUME NEW i \in 1..(L + k), (g \o b)[i] = x PROVE i \in 1..L /\ g[i] = x
        <5>1. CASE i <= L
          BY <3>7, <3>8, <4>2, <5>1
        <5>2. CASE ~(i <= L)
          <6>1. i - L \in 1..k /\ (g \o b)[i] = b[i - L]
            BY <3>4, <3>7, <3>8, <5>2
          <6> QED
            BY <3>4, <4>1, <4>2, <6>1
        <5> QED
          BY <5>1, <5>2
      <4>3. \A i \in 1..L : i \in 1..(L + k) /\ (g \o b)[i] = g[i]
        BY <3>4, <3>7, <3>8
      <4>4. Places(g \o b, x) = {i \in 1..(L + k) : (g \o b)[i] = x}
        BY <3>7 DEF Places
      <4>5. Places(g, x) = {i \in 1..L : g[i] = x}
        BY DEF Places, L
      <4> QED
        BY <4>2, <4>3, <4>4, <4>5
    <3>11. IsFiniteSet(Places(g \o b, y)) /\ Cardinality(Places(g \o b, y)) = k
      <4>1. Places(g \o b, y) = (L + 1)..(L + k)
        <5>1. ASSUME NEW i \in 1..(L + k), (g \o b)[i] = y PROVE i \in (L + 1)..(L + k)
          BY <3>3, <3>4, <3>7, <3>8, <5>1
        <5>2. ASSUME NEW i \in (L + 1)..(L + k) PROVE i \in 1..(L + k) /\ (g \o b)[i] = y
          <6>1. i \in 1..(L + k) /\ ~(i <= L) /\ i - L \in 1..k
            BY <3>4, <3>8
          <6> QED
            BY <3>4, <3>7, <6>1
        <5>3. Places(g \o b, y) = {i \in 1..(L + k) : (g \o b)[i] = y}
          BY <3>7 DEF Places
        <5> QED
          BY <5>1, <5>2, <5>3
      <4>2. (L + k) - (L + 1) + 1 = k /\ L + 1 \in Int /\ L + k \in Int /\ L + 1 <= L + k
        BY <3>4, <3>8
      <4> QED
        BY <4>1, <4>2, FS_Interval
    <3> QED
      BY <3>3, <3>5, <3>6, <3>7, <3>9, <3>10, <3>11, <3>12
  <2> HIDE DEF P
  <2> QED
    BY <2>1, <2>2
<1>12. \A m \in Nat : m \in G
  <2> HIDE DEF G
  <2>1. G \in SUBSET Nat
    BY DEF G
  <2> QED
    BY <1>10, <1>11, <2>1, NatSetInduction
<1>13. P(n)
  <2>1. n - 1 \in Nat /\ (n - 1) + 1 = n /\ n <= n
    BY <1>2
  <2>2. n - 1 \in G
    BY <1>12, <2>1
  <2> HIDE DEF P
  <2> QED
    BY <2>1, <2>2
<1>14. upto(n) = T
  <2>1. \A i \in 1..n : h[i] \in T
    BY <1>1
  <2>2. \A x \in T : \E i \in 1..n : h[i] = x
    BY <1>1
  <2> QED
    BY <2>1, <2>2
<1> QED
  BY <1>6, <1>7, <1>13, <1>14 DEF Repeats
----------------------------------------------------------------------------------
(* Remainders.                                                                        *)
LEMMA DivMod ==
  ASSUME NEW a \in Int, NEW L \in Nat \ {0}
  PROVE  /\ (a % L) \in 0..(L - 1) /\ (a \div L) \in Int
         /\ a = (L * (a \div L)) + (a % L)
  OBVIOUS

LEMMA ModUnique ==
  ASSUME NEW L \in Nat \ {0}, NEW q \in Int, NEW r \in 0..(L - 1)
  PROVE  ((L * q) + r) % L = r
  OBVIOUS

LEMMA ModShift ==
  ASSUME NEW a \in Int, NEW m \in Int, NEW L \in Nat \ {0}
  PROVE  (a + (L * m)) % L = a % L
<1>1. PICK q \in Int, r \in 0..(L - 1) : a = (L * q) + r
  BY DivMod
<1>2. a + (L * m) = (L * (q + m)) + r
  BY <1>1
<1> QED
  BY <1>1, <1>2, ModUnique

(* A counter kept modulo a multiple of L is as good as the counter itself.            *)
LEMMA ModOfMod ==
  ASSUME NEW a \in Int, NEW x \in Int, NEW C \in Nat \ {0}, NEW L \in Nat \ {0}, C % L = 0
  PROVE  ((a % C) + x) % L = (a + x) % L
<1>1. PICK q \in Int, r \in 0..(C - 1) : a = (C * q) + r /\ a % C = r
  BY DivMod
<1>2. PICK m \in Int : C = (L * m) + 0
  BY DivMod
<1>3. PICK z \in Int : z = m * q
  BY <1>1, <1>2
<1>4. C * q = L * z
  BY <1>1, <1>2, <1>3
<1>5. a + x = (r + x) + (L * z)
  BY <1>1, <1>4
<1>6. r + x \in Int
  BY <1>1
<1>7. ((r + x) + (L * z)) % L = (r + x) % L
  BY <1>3, <1>6, ModShift, ZenonT(60)
<1>8. (a % C) + x = r + x
  BY <1>1
<1> QED
  BY <1>5, <1>7, <1>8, Zenon

(* L numbers in a row have different remainders.                                      *)
LEMMA ModDistinct ==
  ASSUME NEW a \in Int, NEW b \in Int, NEW L \in Nat \ {0}, a % L = b % L, a <= b, b < a + L
  PROVE  a = b
<1>1. PICK p \in Int, q \in Int, r \in 0..(L - 1) : a = (L * p) + r /\ b = (L * q) + r
  <2>1. PICK p \in Int : p = a \div L
    BY DivMod
  <2>2. PICK q \in Int : q = b \div L
    BY DivMod
  <2>3. PICK r \in 0..(L - 1) : r = a % L /\ r = b % L
    BY DivMod
  <2>4. a = (L * p) + r
    <3>1. a = (L * (a \div L)) + (a % L)
      BY DivMod
    <3> QED
      BY <2>1, <2>3, <3>1, Zenon
  <2>5. b = (L * q) + r
    <3>1. b = (L * (b \div L)) + (b % L)
      BY DivMod
    <3> QED
      BY <2>2, <2>3, <3>1, Zenon
  <2> QED
    BY <2>4, <2>5
<1>2. PICK d \in Int : d = q - p
  BY <1>1
<1>3. b - a = L * d
  BY <1>1, <1>2
<1>4. d = 0
  <2>1. CASE d >= 1
    <3>1. L * d >= L
      BY <1>2, <2>1
    <3> QED
      BY <1>3, <3>1
  <2>2. CASE d <= -1
    <3>1. L * d < 0
      BY <1>2, <2>2
    <3> QED
      BY <1>3, <3>1
  <2> QED
    BY <1>2, <2>1, <2>2
<1> QED
  BY <1>3, <1>4
----------------------------------------
(* FoldLeft goes down the sets of indices by their maximum.                           *)
LEMMA MaxIn ==
  ASSUME NEW n \in Nat, NEW s \in SUBSET (1..n), s # {}
  PROVE  Max(s) \in s /\ \A y \in s : y <= Max(s)
<1> DEFINE G == {m \in Nat : \A t \in SUBSET (1..m) : t # {} => \E x \in t : \A y \in t : x >= y}
<1>1. 0 \in G
  <2>1. ASSUME NEW t \in SUBSET (1..0) PROVE t = {}
    OBVIOUS
  <2> QED
    BY <2>1
<1>2. ASSUME NEW m \in G PROVE m + 1 \in G
  <2>1. m \in Nat
    BY <1>2
  <2>2. ASSUME NEW t \in SUBSET (1..(m + 1)), t # {} PROVE \E x \in t : \A y \in t : x >= y
    <3>1. CASE m + 1 \in t
      <4>1. \A y \in t : m + 1 >= y
        BY <2>1, <2>2
      <4> QED
        BY <3>1, <4>1
    <3>2. CASE m + 1 \notin t
      <4>1. t \in SUBSET (1..m)
        BY <2>1, <2>2, <3>2
      <4> QED
        BY <1>2, <2>2, <4>1
    <3> QED
      BY <3>1, <3>2
  <2> QED
    BY <2>1, <2>2
<1>3. \A m \in Nat : m \in G
  <2> HIDE DEF G
  <2>1. G \in SUBSET Nat
    BY DEF G
  <2> QED
    BY <1>1, <1>2, <2>1, NatSetInduction
<1>4. \E x \in s : \A y \in s : x >= y
  BY <1>3
<1>5. Max(s) \in s /\ \A y \in s : Max(s) >= y
  BY <1>4 DEF Max
<1> QED
  BY <1>5

LEMMA MaxFirst ==
  ASSUME NEW n \in Nat, NEW m \in 1..n
  PROVE  /\ 1..m \in SUBSET (1..n) /\ 1..m # {} /\ Max(1..m) = m
         /\ (1..m) \ {m} = 1..(m - 1)
<1>1. 1..m \in SUBSET (1..n) /\ m \in 1..m /\ (1..m) \ {m} = 1..(m - 1)
  OBVIOUS
<1>2. Max(1..m) \in 1..m /\ m <= Max(1..m)
  BY <1>1, MaxIn
<1> QED
  BY <1>1, <1>2

(* The table a fold fills in: one entry for each set of indices.                      *)
Below(s) == s \ {Max(s)}

LEMMA BelowSmaller ==
  ASSUME NEW n \in Nat, NEW s \in SUBSET (1..(n + 1)), s # {}
  PROVE  Below(s) \in SUBSET (1..n) /\ Max(s) \in 1..(n + 1)
<1>1. n + 1 \in Nat
  OBVIOUS
<1>2. Max(s) \in s /\ \A y \in s : y <= Max(s)
  BY <1>1, MaxIn
<1>3. ASSUME NEW y \in s \ {Max(s)} PROVE y \in 1..n
  <2>1. y \in 1..(n + 1) /\ Max(s) \in 1..(n + 1) /\ y <= Max(s) /\ y # Max(s)
    BY <1>2, <1>3
  <2> QED
    BY <2>1
<1> QED
  BY <1>2, <1>3 DEF Below

Table(g, X, base, F, n) ==
    /\ g \in [SUBSET (1..n) -> X]
    /\ \A s \in SUBSET (1..n) : g[s] = IF s = {} THEN base ELSE F[Max(s)][g[Below(s)]]

LEMMA FoldExists ==
  ASSUME NEW X, NEW base \in X, NEW n \in Nat, NEW F \in [1..n -> [X -> X]]
  PROVE  \E g : Table(g, X, base, F, n)
<1> DEFINE Right(g, m) == \A s \in SUBSET (1..m) : g[s] = IF s = {} THEN base ELSE F[Max(s)][g[Below(s)]]
           G == {m \in Nat : m <= n => \E g \in [SUBSET (1..m) -> X] : Right(g, m)}
<1>1. 0 \in G
  <2> DEFINE g == [s \in SUBSET (1..0) |-> base]
  <2>1. g \in [SUBSET (1..0) -> X]
    OBVIOUS
  <2>2. ASSUME NEW s \in SUBSET (1..0) PROVE s = {} /\ g[s] = base
    OBVIOUS
  <2> HIDE DEF g
  <2>3. Right(g, 0)
    BY <2>2
  <2> QED
    BY <2>1, <2>3
<1>2. ASSUME NEW m \in G PROVE m + 1 \in G
  <2>1. m \in Nat /\ m + 1 \in Nat
    BY <1>2
  <2>2. ASSUME m + 1 <= n PROVE \E g \in [SUBSET (1..(m + 1)) -> X] : Right(g, m + 1)
    <3>1. m <= n
      BY <2>1, <2>2
    <3>2. PICK f \in [SUBSET (1..m) -> X] : Right(f, m)
      BY <1>2, <3>1
    <3> DEFINE D == SUBSET (1..(m + 1))
               g == [s \in D |-> IF s = {} THEN base ELSE F[Max(s)][f[Below(s)]]]
    <3>3. ASSUME NEW s \in D, s # {} PROVE Below(s) \in SUBSET (1..m) /\ Max(s) \in 1..n
      <4>1. Below(s) \in SUBSET (1..m) /\ Max(s) \in 1..(m + 1)
        BY <2>1, <3>3, BelowSmaller
      <4>2. 1..(m + 1) \subseteq 1..n
        BY <2>1, <2>2
      <4> QED
        BY <4>1, <4>2
    <3>4. SUBSET (1..m) \subseteq D
      BY <2>1
    <3>5. ASSUME NEW s \in D PROVE (IF s = {} THEN base ELSE F[Max(s)][f[Below(s)]]) \in X
      <4>1. CASE s = {}
        BY <4>1
      <4>2. CASE s # {}
        <5>1. f[Below(s)] \in X /\ Max(s) \in 1..n
          BY <3>2, <3>3, <4>2
        <5>2. F[Max(s)][f[Below(s)]] \in X
          BY <5>1
        <5> QED
          BY <4>2, <5>2
      <4> QED
        BY <4>1, <4>2
    <3> HIDE DEF D
    <3>6. g \in [D -> X]
      BY <3>5
    <3>7. \A s \in D : g[s] = IF s = {} THEN base ELSE F[Max(s)][f[Below(s)]]
      OBVIOUS
    <3> HIDE DEF g
    <3>8. ASSUME NEW s \in SUBSET (1..m) PROVE g[s] = f[s]
      <4>1. f[s] = IF s = {} THEN base ELSE F[Max(s)][f[Below(s)]]
        BY <3>2, <3>8
      <4>2. s \in D
        BY <3>4, <3>8
      <4> QED
        BY <3>7, <4>1, <4>2
    <3>9. ASSUME NEW s \in D PROVE g[s] = IF s = {} THEN base ELSE F[Max(s)][g[Below(s)]]
      <4>1. s # {} => g[Below(s)] = f[Below(s)]
        BY <3>3, <3>8
      <4> QED
        BY <3>7, <4>1
    <3> QED
      BY <3>6, <3>9 DEF D
  <2> HIDE DEF Right
  <2> QED
    BY <2>1, <2>2
<1>3. \A m \in Nat : m \in G
  <2> HIDE DEF G
  <2>1. G \in SUBSET Nat
    BY DEF G
  <2> QED
    BY <1>1, <1>2, <2>1, NatSetInduction
<1>4. n \in G /\ n <= n
  <2> HIDE DEF G
  <2> QED
    BY <1>3
<1>5. \E g \in [SUBSET (1..n) -> X] : Right(g, n)
  <2> HIDE DEF Right
  <2> QED
    BY <1>4
<1> QED
  BY <1>5 DEF Table

(* What holds first and is kept by every step of a list of steps.                     *)
LEMMA StepsKeep ==
  ASSUME NEW n \in Nat, NEW X, NEW c, c[0] \in X,
         \A m \in 1..n : c[m - 1] \in X => c[m] \in X
  PROVE  \A m \in 0..n : c[m] \in X
<1> DEFINE G == {m \in Nat : m <= n => c[m] \in X}
<1>1. 0 \in G
  OBVIOUS
<1>2. ASSUME NEW m \in G PROVE m + 1 \in G
  <2>1. m \in Nat /\ m + 1 \in Nat
    BY <1>2
  <2>2. ASSUME m + 1 <= n PROVE c[m + 1] \in X
    <3>1. m + 1 \in 1..n /\ (m + 1) - 1 = m /\ m <= n
      BY <2>1, <2>2
    <3>2. c[m] \in X
      BY <1>2, <3>1
    <3>3. c[(m + 1) - 1] \in X => c[m + 1] \in X
      BY <3>1
    <3> QED
      BY <3>1, <3>2, <3>3
  <2> QED
    BY <2>1, <2>2
<1>3. \A m \in Nat : m \in G
  <2> HIDE DEF G
  <2>1. G \in SUBSET Nat
    BY DEF G
  <2> QED
    BY <1>1, <1>2, <2>1, NatSetInduction
<1> QED
  BY <1>3

(* Induction up to n.                                                                 *)
LEMMA CountingUp ==
  ASSUME NEW n \in Nat, NEW G, 0 \in G, \A m \in 1..n : m - 1 \in G => m \in G
  PROVE  \A m \in 0..n : m \in G
<1> DEFINE c == [m \in 0..n |-> m]
<1>1. c[0] \in G
  OBVIOUS
<1>2. ASSUME NEW m \in 1..n, c[m - 1] \in G PROVE c[m] \in G
  <2>1. m - 1 \in 0..n /\ m \in 0..n
    OBVIOUS
  <2> QED
    BY <1>2, <2>1
<1>3. \A m \in 0..n : c[m] = m
  OBVIOUS
<1> HIDE DEF c
<1>4. \A m \in 0..n : c[m] \in G
  BY <1>1, <1>2, StepsKeep
<1> QED
  BY <1>3, <1>4

(* The steps of a fold, one after the other; its table has the value after the first  *)
(* m of them at 1..m.                                                                 *)
Steps(c, X, base, F, n) ==
    /\ c \in [0..n -> X]
    /\ c[0] = base
    /\ \A m \in 1..n : c[m] = F[m][c[m - 1]]

LEMMA BelowIn ==
  ASSUME NEW n \in Nat, NEW s \in SUBSET (1..n), s # {}
  PROVE  Below(s) \in SUBSET (1..n) /\ Max(s) \in 1..n
  BY MaxIn DEF Below

Follows(table, X, base, F, n) ==
    /\ table[{}] = base
    /\ \A s \in SUBSET (1..n) :
          s # {} /\ table[Below(s)] \in X => table[s] = F[Max(s)][table[Below(s)]]

LEMMA TableSteps ==
  ASSUME NEW X, NEW base \in X, NEW n \in Nat, NEW F \in [1..n -> [X -> X]], NEW table,
         Follows(table, X, base, F, n)
  PROVE  \E c : Steps(c, X, base, F, n) /\ table[1..n] = c[n]
<1> DEFINE c == [m \in 0..n |-> table[1..m]]
<1>1. c[0] = base
  <2>1. 1..0 = {} /\ 0 \in 0..n
    OBVIOUS
  <2> QED
    BY <2>1 DEF Follows
<1>2. ASSUME NEW m \in 1..n, c[m - 1] \in X PROVE c[m] = F[m][c[m - 1]] /\ c[m] \in X
  <2>1. /\ 1..m \in SUBSET (1..n) /\ 1..m # {} /\ Max(1..m) = m /\ Below(1..m) = 1..(m - 1)
    BY MaxFirst DEF Below
  <2>2. c[m] = table[1..m] /\ c[m - 1] = table[1..(m - 1)]
    OBVIOUS
  <2> HIDE DEF c
  <2>3. c[m] = F[m][c[m - 1]]
    BY <1>2, <2>1, <2>2 DEF Follows
  <2> QED
    BY <1>2, <2>3
<1>3. c[n] = table[1..n] /\ c = [m \in 0..n |-> c[m]]
  OBVIOUS
<1> HIDE DEF c
<1>4. \A m \in 0..n : c[m] \in X
  BY <1>1, <1>2, StepsKeep
<1>5. c \in [0..n -> X]
  BY <1>3, <1>4
<1>6. \A m \in 1..n : c[m] = F[m][c[m - 1]]
  <2>1. \A m \in 1..n : m - 1 \in 0..n
    OBVIOUS
  <2> QED
    BY <1>2, <1>4, <2>1
<1> QED
  BY <1>1, <1>3, <1>5, <1>6 DEF Steps

LEMMA MinIn ==
  ASSUME NEW n \in Nat, NEW s \in SUBSET (1..n), s # {}
  PROVE  Min(s) \in s /\ \A y \in s : Min(s) <= y
<1> DEFINE G == {m \in Nat : \A k \in 0..m : k \notin s}
<1>1. SUFFICES ASSUME ~ \E x \in s : \A y \in s : x <= y PROVE FALSE
  BY DEF Min
<1>2. 0 \in G
  OBVIOUS
<1>3. ASSUME NEW m \in G PROVE m + 1 \in G
  <2>1. m \in Nat /\ \A k \in 0..m : k \notin s
    BY <1>3
  <2>2. ASSUME m + 1 \in s PROVE FALSE
    <3>1. \A y \in s : y \in Nat /\ y \notin 0..m
      BY <2>1
    <3>2. \A y \in s : m + 1 <= y
      BY <2>1, <3>1
    <3> QED
      BY <1>1, <2>2, <3>2
  <2>3. \A k \in 0..(m + 1) : k \in 0..m \/ k = m + 1
    BY <2>1
  <2> QED
    BY <2>1, <2>2, <2>3
<1>4. \A m \in Nat : m \in G
  <2> HIDE DEF G
  <2>1. G \in SUBSET Nat
    BY DEF G
  <2> QED
    BY <1>2, <1>3, <2>1, NatSetInduction
<1>5. \A m \in Nat : m \notin s
  <2>1. \A m \in Nat : m \in 0..m
    OBVIOUS
  <2> QED
    BY <1>4, <2>1
<1>6. PICK x : x \in s
  OBVIOUS
<1>7. x \in Nat
  BY <1>6
<1> QED
  BY <1>5, <1>6, <1>7

(* A function on 1..n is a list of its values.                                        *)
LEMMA TypedList ==
  ASSUME NEW S, NEW n \in Nat, NEW f, f = [i \in 1..n |-> f[i]], \A i \in 1..n : f[i] \in S
  PROVE  f \in Seq(S) /\ Len(f) = n
  OBVIOUS

(* Lists of a type concatenate to a list of it.                                       *)
LEMMA FlattenType ==
  ASSUME NEW T, NEW ss \in Seq(Seq(T))
  PROVE  FlattenSeq(ss) \in Seq(T)
<1>1. CASE Len(ss) = 0
  <2>1. ss = <<>>
    BY <1>1
  <2> QED
    BY <1>1, <2>1 DEF FlattenSeq
<1>2. CASE Len(ss) # 0
  <2>1. PICK f \in [1..Len(ss) -> Seq(T)] : FlattenSeq(ss) = f[Len(ss)]
    BY <1>2, FlattenSteps
  <2>2. Len(ss) \in 1..Len(ss)
    BY <1>2
  <2> QED
    BY <2>1, <2>2
<1> QED
  BY <1>1, <1>2
------------------------------------------------------------------------------------
(* Induction over lists: a set with the empty list and every longer list of one of    *)
(* its lists is the set of all.                                                       *)
LEMMA ListInduction ==
  ASSUME NEW S, NEW P \in SUBSET Seq(S), <<>> \in P, \A s \in P, x \in S : Append(s, x) \in P
  PROVE  \A s \in Seq(S) : s \in P
<1> DEFINE G == {n \in Nat : \A s \in Seq(S) : Len(s) = n => s \in P}
<1>1. 0 \in G
  <2>1. \A s \in Seq(S) : Len(s) = 0 => s = <<>>
    BY EmptySeq
  <2> QED
    BY <2>1
<1>2. ASSUME NEW n \in Nat, n \in G PROVE n + 1 \in G
  <2> SUFFICES ASSUME NEW s \in Seq(S), Len(s) = n + 1 PROVE s \in P
    OBVIOUS
  <2>1. \A r \in Seq(S) : Len(r) = n => r \in P
    BY <1>2
  <2> HIDE DEF G
  <2>2. PICK r \in Seq(S), x \in S : Len(r) = n /\ s = Append(r, x)
    <3>1. s[n + 1] \in S
      OBVIOUS
    <3>2. /\ SubSeq(s, 1, n) \in Seq(S) /\ Len(SubSeq(s, 1, n)) = n
          /\ \A i \in 1..n : SubSeq(s, 1, n)[i] = s[i]
      OBVIOUS
    <3>3. PICK r \in Seq(S), x \in S : /\ r = SubSeq(s, 1, n) /\ x = s[n + 1] /\ Len(r) = n
                                        /\ \A i \in 1..n : r[i] = s[i]
      BY <3>1, <3>2
    <3>4. PICK t \in Seq(S) : /\ t = Append(r, x) /\ Len(t) = n + 1 /\ t[n + 1] = x
                              /\ \A i \in 1..n : t[i] = r[i]
      <4>1. /\ Append(r, x) \in Seq(S) /\ Len(Append(r, x)) = n + 1 /\ Append(r, x)[n + 1] = x
            /\ \A i \in 1..n : Append(r, x)[i] = r[i]
        <5>1. Len(r) = n
          BY <3>3
        <5>2. /\ Append(r, x) \in Seq(S) /\ Len(Append(r, x)) = Len(r) + 1
              /\ \A i \in 1..Len(r) : Append(r, x)[i] = r[i]
              /\ Append(r, x)[Len(r) + 1] = x
          BY AppendProperties
        <5> QED
          BY <5>1, <5>2
      <4> QED
        BY <4>1
    <3>5. \A i \in 1..(n + 1) : i \in 1..n \/ i = n + 1
      OBVIOUS
    <3>6. \A i \in 1..(n + 1) : t[i] = s[i]
      BY <3>3, <3>4, <3>5
    <3>7. t = s
      BY <3>4, <3>6, SeqEqual
    <3> QED
      BY <3>3, <3>4, <3>7
  <2> QED
    BY <2>1, <2>2
<1>3. \A n \in Nat : n \in G
  <2> HIDE DEF G
  <2>1. G \in SUBSET Nat
    BY DEF G
  <2> QED
    BY <1>1, <1>2, <2>1, NatSetInduction
<1>4. \A s \in Seq(S) : Len(s) \in Nat
  OBVIOUS
<1> QED
  BY <1>3, <1>4

(* The concatenation of what f makes of the elements of s.                            *)
Flat(f, s) == FlattenSeq([i \in 1..Len(s) |-> f[s[i]]])

(* Nothing to concatenate.                                                            *)
LEMMA FlattenEmpty == FlattenSeq(<<>>) = <<>>
  BY DEF FlattenSeq

(* FlattenSeq, one sequence later.                                                    *)
LEMMA FlattenAppend ==
  ASSUME NEW T, NEW ss \in Seq(Seq(T)), NEW s \in Seq(T)
  PROVE  FlattenSeq(Append(ss, s)) = FlattenSeq(ss) \o s
<1>1. PICK n \in Nat, tt \in Seq(Seq(T)) : n = Len(ss) /\ tt = Append(ss, s)
  <2>1. Len(ss) \in Nat /\ Append(ss, s) \in Seq(Seq(T))
    OBVIOUS
  <2> QED
    BY <2>1
<1>2. Len(tt) = n + 1 /\ (\A i \in 1..n : tt[i] = ss[i]) /\ tt[n + 1] = s
  BY <1>1
<1>3. PICK g \in [1..Len(tt) -> Seq(T)] : /\ g[1] = tt[1]
                                          /\ \A i \in 2..Len(tt) : g[i] = g[i - 1] \o tt[i]
                                          /\ FlattenSeq(tt) = g[Len(tt)]
  <2>1. Len(tt) # 0
    BY <1>2
  <2> QED
    BY <2>1, FlattenSteps
<1>4. CASE n = 0
  <2>1. ss = <<>>
    BY <1>1, <1>4, EmptySeq
  <2>2. FlattenSeq(ss) = <<>>
    BY <2>1, FlattenEmpty
  <2>3. FlattenSeq(tt) = s
    BY <1>2, <1>3, <1>4
  <2>4. <<>> \o s = s
    BY ConcatEmptySeq
  <2> QED
    BY <1>1, <2>2, <2>3, <2>4
<1>5. CASE n # 0
  <2>1. PICK f \in [1..Len(ss) -> Seq(T)] : /\ f[1] = ss[1]
                                            /\ \A i \in 2..Len(ss) : f[i] = f[i - 1] \o ss[i]
                                            /\ FlattenSeq(ss) = f[Len(ss)]
    BY <1>1, <1>5, FlattenSteps
  <2> DEFINE G == {m \in 0..(n - 1) : g[m + 1] = f[m + 1]}
  <2>2. \A m \in Nat : m <= n - 1 => m \in G
    <3>1. 0 \in G
      BY <1>1, <1>2, <1>3, <1>5, <2>1
    <3>2. ASSUME NEW m \in G, m + 1 <= n - 1 PROVE m + 1 \in G
      <4>1. m \in Nat /\ (m + 1) + 1 \in 2..Len(ss) /\ (m + 1) + 1 \in 2..Len(tt) /\ ((m + 1) + 1) - 1 = m + 1
            /\ (m + 1) + 1 \in 1..n
        BY <1>1, <1>2, <3>2
      <4>2. g[(m + 1) + 1] = g[m + 1] \o tt[(m + 1) + 1]
        BY <1>3, <4>1
      <4>3. f[(m + 1) + 1] = f[m + 1] \o ss[(m + 1) + 1]
        BY <2>1, <4>1
      <4>4. tt[(m + 1) + 1] = ss[(m + 1) + 1] /\ g[m + 1] = f[m + 1]
        BY <1>2, <4>1
      <4>5. m + 1 \in 0..(n - 1) /\ g[(m + 1) + 1] = f[(m + 1) + 1]
        BY <3>2, <4>1, <4>2, <4>3, <4>4
      <4> QED
        BY <4>5
    <3> DEFINE H == {m \in Nat : m <= n - 1 => m \in G}
    <3>3. 0 \in H
      BY <3>1
    <3>4. ASSUME NEW m \in H PROVE m + 1 \in H
      <4>1. m \in Nat /\ m + 1 \in Nat /\ (m + 1 <= n - 1 => m <= n - 1) /\ (m <= n - 1 => m \in G)
        BY <1>1
      <4> HIDE DEF G
      <4> QED
        BY <3>2, <4>1
    <3>5. \A m \in Nat : m \in H
      <4> HIDE DEF H
      <4>1. H \in SUBSET Nat
        BY DEF H
      <4> QED
        BY <3>3, <3>4, <4>1, NatSetInduction
    <3> QED
      BY <3>5
  <2>3. g[n] = f[n]
    <3>1. n - 1 \in Nat /\ n - 1 <= n - 1 /\ (n - 1) + 1 = n
      BY <1>5
    <3> QED
      BY <2>2, <3>1
  <2>4. g[n + 1] = g[n] \o tt[n + 1]
    <3>1. n + 1 \in 2..Len(tt) /\ (n + 1) - 1 = n
      BY <1>2, <1>5
    <3> QED
      BY <1>3, <3>1
  <2> QED
    BY <1>1, <1>2, <1>3, <2>1, <2>3, <2>4
<1> QED
  BY <1>4, <1>5
------------------------------------------------------------------------------------
(* f makes a list over T of every element of S.                                       *)
Makes(f, S, T) == f \in [S -> Seq(T)]

(* What f makes of the elements of s, as a list of lists.                             *)
LEMMA ImageType ==
  ASSUME NEW S, NEW T, NEW f, Makes(f, S, T), NEW s \in Seq(S)
  PROVE  [i \in 1..Len(s) |-> f[s[i]]] \in Seq(Seq(T))
<1>1. Len(s) \in Nat /\ \A i \in 1..Len(s) : f[s[i]] \in Seq(T)
  BY ElementOfSeq DEF Makes
<1> QED
  BY <1>1, TypedList

(* What is made of a list is a list of what is made.                                  *)
LEMMA FlatType ==
  ASSUME NEW S, NEW T, NEW f, Makes(f, S, T), NEW s \in Seq(S)
  PROVE  Flat(f, s) \in Seq(T)
<1>1. PICK ss \in Seq(Seq(T)) : ss = [i \in 1..Len(s) |-> f[s[i]]]
  BY ImageType
<1> QED
  BY <1>1, FlattenType DEF Flat

(* Nothing is made of the empty list.                                                 *)
LEMMA FlatEmpty == \A f : Flat(f, <<>>) = <<>>
<1>1. \A f : [i \in 1..Len(<<>>) |-> f[<<>>[i]]] = <<>>
  OBVIOUS
<1> QED
  BY <1>1, FlattenEmpty DEF Flat

(* One element more: what is made of it comes last.                                   *)
LEMMA FlatAppend ==
  ASSUME NEW S, NEW T, NEW f, Makes(f, S, T), NEW s \in Seq(S), NEW x \in S
  PROVE  Flat(f, Append(s, x)) = Flat(f, s) \o f[x]
<1>1. PICK n \in Nat, t \in Seq(S) : n = Len(s) /\ t = Append(s, x)
  <2>1. Len(s) \in Nat /\ Append(s, x) \in Seq(S)
    OBVIOUS
  <2> QED
    BY <2>1
<1>2. Len(t) = n + 1 /\ (\A i \in 1..n : t[i] = s[i]) /\ t[n + 1] = x
  BY <1>1
<1>3. PICK ss \in Seq(Seq(T)) : ss = [i \in 1..n |-> f[s[i]]]
  BY <1>1, ImageType
<1>4. [i \in 1..(n + 1) |-> f[t[i]]] = Append(ss, f[x])
  BY <1>2, <1>3
<1>5. f[x] \in Seq(T)
  BY DEF Makes
<1>6. FlattenSeq(Append(ss, f[x])) = FlattenSeq(ss) \o f[x]
  BY <1>5, FlattenAppend
<1> QED
  BY <1>1, <1>2, <1>3, <1>4, <1>6 DEF Flat

(* Of a list of one element.                                                          *)
LEMMA FlatOne ==
  ASSUME NEW S, NEW T, NEW f, Makes(f, S, T), NEW x \in S
  PROVE  Flat(f, <<x>>) = f[x]
<1>1. PICK none \in Seq(S) : none = <<>> /\ Append(none, x) = <<x>>
  <2>1. <<>> \in Seq(S) /\ Append(<<>>, x) = <<x>>
    BY AppendIsConcat, ConcatEmptySeq
  <2> QED
    BY <2>1
<1>2. Flat(f, Append(none, x)) = Flat(f, none) \o f[x]
  BY FlatAppend
<1>3. Flat(f, none) = <<>> /\ f[x] \in Seq(T)
  BY <1>1, FlatEmpty DEF Makes
<1> QED
  BY <1>1, <1>2, <1>3, ConcatEmptySeq

(* Of one list after another: what the whole module of conversations rests on.        *)
LEMMA FlatJoins ==
  ASSUME NEW S, NEW T, NEW f, Makes(f, S, T), NEW s \in Seq(S), NEW t \in Seq(S)
  PROVE  Flat(f, s \o t) = Flat(f, s) \o Flat(f, t)
<1> DEFINE P == {r \in Seq(S) : Flat(f, s \o r) = Flat(f, s) \o Flat(f, r)}
<1>1. <<>> \in P
  <2>1. <<>> \in Seq(S) /\ s \o <<>> = s /\ Flat(f, s) \o <<>> = Flat(f, s)
    BY FlatType, ConcatEmptySeq
  <2> QED
    BY <2>1, FlatEmpty
<1>2. ASSUME NEW r \in P, NEW x \in S PROVE Append(r, x) \in P
  <2>1. r \in Seq(S) /\ s \o r \in Seq(S) /\ Append(r, x) \in Seq(S) /\ f[x] \in Seq(T)
    BY ConcatProperties DEF Makes
  <2>2. s \o Append(r, x) = Append(s \o r, x)
    <3>1. Append(r, x) = r \o <<x>> /\ Append(s \o r, x) = (s \o r) \o <<x>> /\ <<x>> \in Seq(S)
      BY <2>1, AppendIsConcat
    <3>2. PICK one \in Seq(S) : one = <<x>>
      BY <3>1
    <3>3. (s \o r) \o one = s \o (r \o one)
      <4>1. r \in Seq(S)
        BY <2>1
      <4> HIDE DEF P
      <4> QED
        BY <4>1, SMT
    <3> QED
      BY <3>1, <3>2, <3>3
  <2>3. Flat(f, s \o Append(r, x)) = Flat(f, s \o r) \o f[x]
    <3>1. PICK q \in Seq(S) : q = s \o r
      BY <2>1
    <3>2. Flat(f, Append(q, x)) = Flat(f, q) \o f[x]
      <4> HIDE DEF P
      <4> QED
        BY FlatAppend
    <3> QED
      BY <2>2, <3>1, <3>2
  <2>4. Flat(f, Append(r, x)) = Flat(f, r) \o f[x]
    BY <2>1, FlatAppend
  <2>5. PICK a \in Seq(T), b \in Seq(T), c \in Seq(T) : a = Flat(f, s) /\ b = Flat(f, r) /\ c = f[x]
    BY <2>1, FlatType
  <2>7. Flat(f, s \o r) = a \o b
    BY <2>5
  <2>6. (a \o b) \o c = a \o (b \o c)
    <3> HIDE DEF P
    <3> QED
      BY ConcatAssociative
  <2> QED
    BY <2>1, <2>3, <2>4, <2>5, <2>6, <2>7
<1>3. \A r \in Seq(S) : r \in P
  <2> HIDE DEF P
  <2>1. P \in SUBSET Seq(S)
    BY DEF P
  <2> QED
    BY <1>1, <1>2, <2>1, ListInduction
<1> QED
  BY <1>3

(* f and g make the same of the elements of s.                                        *)
LEMMA FlatSame ==
  ASSUME NEW s, NEW f, NEW g, \A i \in 1..Len(s) : f[s[i]] = g[s[i]]
  PROVE  Flat(f, s) = Flat(g, s)
<1>1. [i \in 1..Len(s) |-> f[s[i]]] = [i \in 1..Len(s) |-> g[s[i]]]
  OBVIOUS
<1> QED
  BY <1>1 DEF Flat

(* One after the other.                                                               *)
LEMMA FlatFlat ==
  ASSUME NEW S, NEW T, NEW U, NEW f, Makes(f, S, T), NEW g, Makes(g, T, U), NEW s \in Seq(S)
  PROVE  Flat(g, Flat(f, s)) = Flat([x \in S |-> Flat(g, f[x])], s)
<1>1. PICK h : h = [x \in S |-> Flat(g, f[x])] /\ Makes(h, S, U)
  <2>1. \A x \in S : f[x] \in Seq(T)
    BY DEF Makes
  <2>2. \A x \in S : Flat(g, f[x]) \in Seq(U)
    BY <2>1, FlatType
  <2>3. PICK h : h = [x \in S |-> Flat(g, f[x])]
    OBVIOUS
  <2>4. h \in [S -> Seq(U)]
    BY <2>2, <2>3
  <2> QED
    BY <2>3, <2>4 DEF Makes
<1> DEFINE P == {r \in Seq(S) : Flat(g, Flat(f, r)) = Flat(h, r)}
<1>2. <<>> \in P
  BY FlatEmpty
<1>3. ASSUME NEW r \in P, NEW x \in S PROVE Append(r, x) \in P
  <2>0. r \in Seq(S) /\ Append(r, x) \in Seq(S) /\ f[x] \in Seq(T)
    BY DEF Makes
  <2>1. Flat(f, r) \in Seq(T)
    BY <2>0, FlatType
  <2>2. Flat(f, Append(r, x)) = Flat(f, r) \o f[x]
    BY <2>0, FlatAppend
  <2>3. \A a, b \in Seq(T) : Flat(g, a \o b) = Flat(g, a) \o Flat(g, b)
    <3> HIDE DEF P
    <3> TAKE a, b \in Seq(T)
    <3> QED
      BY FlatJoins
  <2>4. Flat(h, Append(r, x)) = Flat(h, r) \o h[x]
    <3> HIDE DEF P
    <3>1. Makes(h, S, U) /\ r \in Seq(S)
      BY <1>1, <2>0
    <3> QED
      BY <3>1, FlatAppend
  <2>5. h[x] = Flat(g, f[x]) /\ Flat(g, Flat(f, r)) = Flat(h, r)
    BY <1>1
  <2> QED
    BY <2>0, <2>1, <2>2, <2>3, <2>4, <2>5
<1>4. \A r \in Seq(S) : r \in P
  <2> HIDE DEF P
  <2>1. P \in SUBSET Seq(S)
    BY DEF P
  <2> QED
    BY <1>2, <1>3, <2>1, ListInduction
<1> QED
  BY <1>1, <1>4

(* Nothing of any element, and every element itself.                                  *)
LEMMA FlatNothing ==
  ASSUME NEW S, NEW s \in Seq(S), NEW f, \A i \in 1..Len(s) : f[s[i]] = <<>>
  PROVE  Flat(f, s) = <<>>
<1> DEFINE none == [x \in S |-> <<>>]
           P == {r \in Seq(S) : Flat(none, r) = <<>>}
<1>1. <<>> \in P
  BY FlatEmpty
<1>2. ASSUME NEW r \in P, NEW x \in S PROVE Append(r, x) \in P
  <2>1. none \in [S -> Seq(S)] /\ r \in Seq(S) /\ none[x] = <<>> /\ Append(r, x) \in Seq(S)
    OBVIOUS
  <2>3. Flat(none, r) = <<>> /\ <<>> \o <<>> = <<>>
    OBVIOUS
  <2> HIDE DEF none
  <2>4. PICK k : k = none /\ Makes(k, S, S)
    BY <2>1 DEF Makes
  <2>2. Flat(k, Append(r, x)) = Flat(k, r) \o k[x]
    BY <2>1, <2>4, FlatAppend
  <2> QED
    BY <2>1, <2>2, <2>3, <2>4
<1>3. \A r \in Seq(S) : r \in P
  <2> HIDE DEF P
  <2>1. P \in SUBSET Seq(S)
    BY DEF P
  <2> QED
    BY <1>1, <1>2, <2>1, ListInduction
<1>4. \A i \in 1..Len(s) : f[s[i]] = none[s[i]]
  BY ElementOfSeq
<1>5. Flat(none, s) = <<>>
  BY <1>3
<1> HIDE DEF none
<1> QED
  BY <1>4, <1>5, FlatSame

(* The elements of s, each through m.                                                 *)
Mapped(m, s) == [i \in 1..Len(s) |-> m[s[i]]]

OneEach(f, m, s) == \A i \in 1..Len(s) : f[s[i]] = <<m[s[i]]>>

(* If f makes one element of every element, the list is mapped.                       *)
LEMMA FlatMapped ==
  ASSUME NEW S, NEW T, NEW s \in Seq(S), NEW m \in [S -> T], NEW f, OneEach(f, m, s)
  PROVE  Flat(f, s) = Mapped(m, s)
<1> DEFINE ones == [x \in S |-> <<m[x]>>]
           P == {r \in Seq(S) : Flat(ones, r) = [i \in 1..Len(r) |-> m[r[i]]]}
<1>1. <<>> \in P
  <2>1. [i \in 1..Len(<<>>) |-> m[<<>>[i]]] = <<>>
    OBVIOUS
  <2> QED
    BY <2>1, FlatEmpty
<1>0. ones \in [S -> Seq(T)]
  OBVIOUS
<1>2. ASSUME NEW r \in P, NEW x \in S PROVE Append(r, x) \in P
  <2>1. r \in Seq(S) /\ ones[x] = <<m[x]>> /\ Append(r, x) \in Seq(S) /\ m[x] \in T
    OBVIOUS
  <2>2. Flat(ones, r) = [i \in 1..Len(r) |-> m[r[i]]]
    OBVIOUS
  <2> HIDE DEF ones
  <2>8. PICK k : k = ones /\ Makes(k, S, T)
    BY <1>0 DEF Makes
  <2>9. Flat(k, Append(r, x)) = Flat(k, r) \o k[x]
    <3>1. Makes(k, S, T) /\ r \in Seq(S)
      BY <2>1, <2>8
    <3> HIDE DEF P
    <3> QED
      BY <3>1, FlatAppend
  <2>3. Flat(ones, Append(r, x)) = Flat(ones, r) \o ones[x]
    BY <2>8, <2>9
  <2>4. PICK n \in Nat, t \in Seq(S) : n = Len(r) /\ t = Append(r, x)
    <3>1. Len(r) \in Nat
      BY <2>1
    <3> QED
      BY <2>1, <3>1
  <2>5. Len(t) = n + 1 /\ (\A i \in 1..n : t[i] = r[i]) /\ t[n + 1] = x
    BY <2>1, <2>4
  <2>6. PICK q \in Seq(T) : q = [i \in 1..n |-> m[r[i]]] /\ Len(q) = n
    <3>1. \A i \in 1..n : m[r[i]] \in T
      BY <2>1, <2>4, ElementOfSeq
    <3>2. PICK q : q = [i \in 1..n |-> m[r[i]]]
      OBVIOUS
    <3>3. q \in Seq(T) /\ Len(q) = n
      <4> HIDE DEF P
      <4>1. q = [i \in 1..n |-> q[i]] /\ \A i \in 1..n : q[i] \in T
        BY <3>1, <3>2
      <4> QED
        BY <4>1, TypedList
    <3> QED
      BY <3>2, <3>3
  <2>7. [i \in 1..(n + 1) |-> m[t[i]]] = q \o <<m[x]>>
    BY <2>1, <2>5, <2>6
  <2> QED
    BY <2>1, <2>2, <2>3, <2>4, <2>5, <2>6, <2>7
<1>3. \A r \in Seq(S) : r \in P
  <2> HIDE DEF P
  <2>1. P \in SUBSET Seq(S)
    BY DEF P
  <2> QED
    BY <1>1, <1>2, <2>1, ListInduction
<1>4. \A i \in 1..Len(s) : f[s[i]] = ones[s[i]]
  BY ElementOfSeq DEF OneEach
<1>5. Flat(ones, s) = [i \in 1..Len(s) |-> m[s[i]]] /\ Flat(ones, s) \in Seq(T)
  <2>1. Flat(ones, s) \in Seq(T)
    <3> HIDE DEF ones
    <3> QED
      BY <1>0, FlatType DEF Makes
  <2> QED
    BY <1>3, <2>1
<1> HIDE DEF ones
<1> QED
  BY <1>4, <1>5, FlatSame DEF Mapped

(* The same, of a mapping of which only the values on the list are known.             *)
LEMMA FlatMaps ==
  ASSUME NEW S, NEW s \in Seq(S), NEW f, NEW m, OneEach(f, m, s)
  PROVE  Flat(f, s) = Mapped(m, s)
<1>1. PICK T, k : T = {m[x] : x \in S} /\ k = [x \in S |-> m[x]]
  OBVIOUS
<1>2. k \in [S -> T]
  BY <1>1
<1>3. \A i \in 1..Len(s) : k[s[i]] = m[s[i]]
  BY <1>1, ElementOfSeq
<1>4. OneEach(f, k, s)
  BY <1>3 DEF OneEach
<1>5. Mapped(k, s) = Mapped(m, s)
  BY <1>3 DEF Mapped
<1>6. Flat(f, s) = Mapped(k, s)
  BY <1>2, <1>4, FlatMapped
<1> QED
  BY <1>5, <1>6
==================================================================================
