------------------------------ MODULE Routing_proofs -----------------------------
(* The router for every set of configurations and names: what resolve_providers       *)
(* returns in any state, and that its counters rotate.  A candidate order is a list   *)
(* (SequenceFacts) of the candidates, so the lemmas follow the list through the       *)
(* steps of the code: sorted, rotated or drawn, the tail appended, the pinned         *)
(* provider moved to the front.                                                       *)
EXTENDS Routing, SequenceFacts

(* What the measured strategies sort by has a value for each provider.                *)
Measured(cfg, mm) == \A p \in DOMAIN cfg : mm[p] \in Int

LEMMA AscendingLists ==
  ASSUME NEW S \in SUBSET Nat, IsFiniteSet(S), NEW key, \A p \in S : key[p] \in Int
  PROVE  /\ Lists(Ascending(S, key), S)
         /\ \A i, j \in 1..Len(Ascending(S, key)) :
               i < j => key[Ascending(S, key)[i]] <= key[Ascending(S, key)[j]]
<1> DEFINE R == Before(key, S)
           s == Ascending(S, key)
<1>0. \A x, y \in S : <<x, y>> \in R <=> key[x] < key[y] \/ (key[x] = key[y] /\ x < y)
  BY DEF Before
<1> HIDE DEF R
<1>1. TotalOrder(R, S)
  <2>1. \A x, y \in S : <<x, y>> \in R <=> key[x] < key[y] \/ (key[x] = key[y] /\ x < y)
    BY <1>0
  <2>2. \A x, y \in S : x # y => <<x, y>> \in R \/ <<y, x>> \in R
    BY <2>1
  <2>3. \A x \in S : <<x, x>> \notin R
    BY <2>1
  <2>4. \A x, y, z \in S : <<x, y>> \in R /\ <<y, z>> \in R => <<x, z>> \in R
    BY <2>1
  <2> QED
    BY <2>2, <2>3, <2>4 DEF TotalOrder
<1>2. s \in SetToSeqs(S) /\ \A i, j \in DOMAIN s : i < j => <<s[i], s[j]>> \in R
  <2>1. \E t \in SetToSeqs(S) : \A i, j \in DOMAIN t : i < j => <<t[i], t[j]>> \in R
    BY <1>1, OrderedListExists DEF Ordered
  <2> QED
    BY <2>1 DEF Ascending, R
<1> HIDE DEF s
<1>3. Lists(s, S)
  BY <1>2, SetToSeqsLists
<1>4. ASSUME NEW i \in 1..Len(s), NEW j \in 1..Len(s), i < j PROVE key[s[i]] <= key[s[j]]
  <2>1. DOMAIN s = 1..Len(s) /\ s[i] \in S /\ s[j] \in S
    BY <1>3, ListsIndex
  <2>2. <<s[i], s[j]>> \in R
    BY <1>2, <1>4, <2>1
  <2>3. key[s[i]] < key[s[j]] \/ key[s[i]] = key[s[j]]
    BY <1>0, <2>1, <2>2
  <2>4. key[s[i]] \in Int /\ key[s[j]] \in Int
    BY <2>1
  <2> QED
    BY <2>3, <2>4
<1> QED
  BY <1>3, <1>4 DEF s
----------------------------------------------------------------------------------
LEMMA PrioritiesType ==
  ASSUME NEW cfg, Configuration(cfg)
  PROVE  \A p \in DOMAIN cfg : Priorities(cfg)[p] = cfg[p].priority /\ Priorities(cfg)[p] \in Int
  BY DEF Configuration, Priorities

LEMMA SubsetsFinite ==
  ASSUME NEW cfg, Configuration(cfg), NEW T \in SUBSET DOMAIN cfg
  PROVE  IsFiniteSet(T) /\ T \in SUBSET Nat
  BY FS_Subset DEF Configuration

(* The best tier: not empty, of one priority, and better than the rest.               *)
LEMMA TierFacts ==
  ASSUME NEW cfg, Configuration(cfg), NEW cands \in SUBSET DOMAIN cfg, cands # {}
  PROVE  /\ Tier(cfg, cands) \in SUBSET cands /\ Tier(cfg, cands) # {}
         /\ \A p, q \in Tier(cfg, cands) : cfg[p].priority = cfg[q].priority
         /\ \A p \in Tier(cfg, cands), q \in cands : cfg[p].priority <= cfg[q].priority
<1> DEFINE s == Ascending(cands, Priorities(cfg))
<1>1. \A p \in cands : p \in DOMAIN cfg /\ Priorities(cfg)[p] = cfg[p].priority /\ cfg[p].priority \in Int
  BY PrioritiesType
<1>2. /\ Lists(s, cands)
      /\ \A i, j \in 1..Len(s) : i < j => Priorities(cfg)[s[i]] <= Priorities(cfg)[s[j]]
  BY <1>1, SubsetsFinite, AscendingLists
<1> HIDE DEF s
<1>3. /\ Len(s) \in Nat /\ \A i \in 1..Len(s) : s[i] \in cands
      /\ \A x \in cands : \E i \in 1..Len(s) : s[i] = x
  BY <1>2, ListsIndex
<1>4. 1 \in 1..Len(s)
  BY <1>3
<1>5. ASSUME NEW q \in cands PROVE cfg[s[1]].priority <= cfg[q].priority
  <2>1. PICK i \in 1..Len(s) : s[i] = q
    BY <1>3
  <2>2. CASE i = 1
    BY <1>1, <2>1, <2>2
  <2>3. CASE i # 1
    <3>1. Priorities(cfg)[s[1]] <= Priorities(cfg)[s[i]]
      BY <1>2, <1>4, <2>3
    <3> QED
      BY <1>1, <1>3, <1>4, <2>1, <3>1
  <2> QED
    BY <2>2, <2>3
<1>6. s[1] \in Tier(cfg, cands)
  BY <1>3, <1>4, <1>5 DEF Tier
<1>7. \A p, q \in Tier(cfg, cands) : cfg[p].priority = cfg[q].priority
  BY <1>1 DEF Tier
<1> QED
  BY <1>6, <1>7 DEF Tier

(* Where the n-th request of a counted strategy goes first: round the wheel.          *)
Wheel(cfg, tier, strategy) ==
    LET best == Ascending(tier, Priorities(cfg))
    IN  IF strategy = "weighted" THEN Expanded(cfg, best) ELSE best

Turn(cfg, tier, strategy) ==
    IF strategy = "weighted" THEN SumFunctionOnSet(Weights(cfg), tier) ELSE Cardinality(tier)

(* The wheel has each provider of the tier as often as its share.                     *)
LEMMA WheelFacts ==
  ASSUME NEW cfg, Configuration(cfg), NEW T \in SUBSET DOMAIN cfg, T # {}, NEW strategy \in Counted
  PROVE  /\ Wheel(cfg, T, strategy) \in Seq(T)
         /\ Len(Wheel(cfg, T, strategy)) = Turn(cfg, T, strategy)
         /\ Turn(cfg, T, strategy) \in Nat \ {0}
         /\ \A p \in T :
               /\ IsFiniteSet(Places(Wheel(cfg, T, strategy), p))
               /\ Cardinality(Places(Wheel(cfg, T, strategy), p)) =
                     IF strategy = "weighted" THEN cfg[p].weight ELSE 1
<1> DEFINE best == Ascending(T, Priorities(cfg))
<1>1. Lists(best, T)
  BY PrioritiesType, SubsetsFinite, AscendingLists
<1> HIDE DEF best
<1>2. /\ Len(best) \in Nat /\ \A i \in 1..Len(best) : best[i] \in T
      /\ \A i, j \in 1..Len(best) : best[i] = best[j] => i = j
      /\ \A x \in T : \E i \in 1..Len(best) : best[i] = x
  BY <1>1, ListsIndex
<1>3. CASE strategy = "weighted"
  <2> DEFINE w == Weights(cfg)
             e == Expanded(cfg, best)
  <2>1. w \in [DOMAIN cfg -> Nat \ {0}]
    BY DEF Weights, Configuration
  <2>2. \A p \in T : w[p] = cfg[p].weight
    BY DEF Weights
  <2>3. e = Repeated(best, w)
    <3>1. \A i \in 1..Len(best) : w[best[i]] = cfg[best[i]].weight
      BY <1>2, <2>2
    <3> HIDE DEF w
    <3>2. [i \in 1..Len(best) |-> [j \in 1..cfg[best[i]].weight |-> best[i]]]
            = [i \in 1..Len(best) |-> [j \in 1..w[best[i]] |-> best[i]]]
      BY <3>1
    <3> QED
      BY <3>2 DEF Expanded, Repeated
  <2> HIDE DEF w, e
  <2>4. /\ e \in Seq(T)
        /\ Len(e) = SumFunctionOnSet(w, T)
        /\ \A x \in T : IsFiniteSet(Places(e, x)) /\ Cardinality(Places(e, x)) = w[x]
    <3>1. Repeats(e, T, w)
      BY <1>1, <2>1, <2>3, RepeatedCounts
    <3> QED
      BY <3>1 DEF Repeats
  <2>5. Len(e) \in Nat /\ Len(e) # 0
    <3>1. PICK p \in T : TRUE
      OBVIOUS
    <3>2. w[p] \in Nat \ {0}
      BY <2>1
    <3>3. Len(e) # 0
      <4>1. SUFFICES ASSUME Len(e) = 0 PROVE FALSE
        OBVIOUS
      <4>2. Places(e, p) = {}
        BY <4>1 DEF Places
      <4> QED
        BY <2>4, <3>1, <3>2, <4>2, FS_EmptySet
    <3> QED
      BY <2>4, <3>3, LenProperties
  <2>6. Wheel(cfg, T, strategy) = e /\ Turn(cfg, T, strategy) = SumFunctionOnSet(w, T)
    BY <1>3 DEF Wheel, Turn, e, w, best
  <2> QED
    BY <1>3, <2>2, <2>4, <2>5, <2>6
<1>4. CASE strategy # "weighted"
  <2>1. Wheel(cfg, T, strategy) = best /\ Turn(cfg, T, strategy) = Cardinality(T)
    BY <1>4 DEF Wheel, Turn, best
  <2>2. best \in Seq(T) /\ Len(best) = Cardinality(T)
    BY <1>1, ListsFinite DEF Lists
  <2>3. Len(best) # 0
    BY <1>2
  <2>4. ASSUME NEW p \in T PROVE IsFiniteSet(Places(best, p)) /\ Cardinality(Places(best, p)) = 1
    <3>1. PICK i \in 1..Len(best) : best[i] = p
      BY <1>2
    <3>2. Places(best, p) = {i}
      BY <1>2, <3>1 DEF Places
    <3> QED
      BY <3>2, FS_Singleton
  <2> QED
    BY <1>2, <1>4, <2>1, <2>2, <2>3, <2>4
<1> QED
  BY <1>3, <1>4

(* First, for an element of the list.                                                 *)
LEMMA FirstFacts ==
  ASSUME NEW S, NEW s, Lists(s, S), NEW p \in S
  PROVE  /\ Lists(First(p, s), S)
         /\ \E k \in 1..Len(s) : s[k] = p /\ Moved(First(p, s), s, k)
<1> DEFINE k == CHOOSE i \in 1..Len(s) : s[i] = p
<1>1. k \in 1..Len(s) /\ s[k] = p
  <2>1. \E i \in 1..Len(s) : s[i] = p
    BY ListsIndex
  <2> QED
    BY <2>1
<1>2. First(p, s) = <<s[k]>> \o RemoveAt(s, k)
  BY DEF First
<1> HIDE DEF k
<1> HIDE DEF First
<1>3. Lists(First(p, s), S) /\ Moved(First(p, s), s, k)
  BY <1>1, <1>2, FirstLists
<1> QED
  BY <1>1, <1>3

(* The order of the best tier lists it, and its first follows the wheel.              *)
LEMMA TierOrderFacts ==
  ASSUME NEW cfg, Configuration(cfg), NEW T \in SUBSET DOMAIN cfg, T # {},
         NEW strategy \in Strategies, NEW n \in Nat, NEW mm, Measured(cfg, mm)
  PROVE  /\ Lists(TierOrder(cfg, T, strategy, n, mm), T)
         /\ strategy \in Counted =>
               TierOrder(cfg, T, strategy, n, mm)[1] =
                  Wheel(cfg, T, strategy)[(n % Turn(cfg, T, strategy)) + 1]
<1> DEFINE best == Ascending(T, Priorities(cfg))
           t == TierOrder(cfg, T, strategy, n, mm)
<1>1. Lists(best, T)
  BY PrioritiesType, SubsetsFinite, AscendingLists
<1> HIDE DEF best
<1>2. /\ Len(best) \in Nat /\ \A i \in 1..Len(best) : best[i] \in T
      /\ \A x \in T : \E i \in 1..Len(best) : best[i] = x
      /\ Len(best) = Cardinality(T)
  BY <1>1, ListsIndex, ListsFinite
<1>3. Len(best) # 0
  BY <1>2
<1>4. CASE strategy = "priority"
  <2>1. t = best
    BY <1>4 DEF TierOrder, best
  <2> QED
    BY <1>1, <1>4, <2>1 DEF Counted
<1>5. CASE strategy = "measured"
  <2>1. t = Ascending(T, mm)
    BY <1>5 DEF TierOrder
  <2>2. \A p \in T : mm[p] \in Int
    BY DEF Measured
  <2>3. Lists(Ascending(T, mm), T)
    BY <2>2, SubsetsFinite, AscendingLists
  <2> QED
    BY <1>5, <2>1, <2>3 DEF Counted
<1>6. CASE strategy = "round_robin"
  <2> DEFINE k == n % Len(best)
             a == SubSeq(best, k + 1, Len(best))
             b == SubSeq(best, 1, k)
  <2>1. t = Rotated(best, n)
    BY <1>6 DEF TierOrder, best
  <2>2. t = a \o b
    BY <2>1 DEF Rotated
  <2>3. k \in 0..(Len(best) - 1) /\ k \in 0..Len(best) /\ k + 1 \in 1..Len(best)
    <3>1. Len(best) \in Nat \ {0} /\ n \in Int
      BY <1>2, <1>3
    <3>2. k \in 0..(Len(best) - 1)
      BY <3>1, DivMod
    <3> HIDE DEF k
    <3> QED
      BY <3>1, <3>2
  <2> HIDE DEF k
  <2>4. Lists(a \o b, T)
    BY <1>1, <2>3, RotationLists
  <2>5. (a \o b)[1] = best[k + 1]
    <3>1. best \in Seq(T)
      BY <1>1 DEF Lists
    <3>2. /\ a \in Seq(T) /\ Len(a) = Len(best) - k
          /\ \A i \in 1..(Len(best) - k) : a[i] = best[k + i]
      BY <1>2, <2>3, <3>1, SubSeqProperties
    <3>3. b \in Seq(T) /\ Len(b) \in Nat
      BY <1>2, <2>3, <3>1, SubSeqProperties, LenProperties
    <3> HIDE DEF a, b
    <3>4. Len(a) \in Nat /\ 1 \in 1..Len(a) /\ 1 \in 1..(Len(best) - k)
      BY <1>2, <2>3, <3>2
    <3>5. (a \o b)[1] = a[1]
      BY <3>2, <3>3, <3>4, ConcatProperties
    <3> QED
      BY <3>2, <3>4, <3>5
  <2>6. Wheel(cfg, T, strategy) = best /\ Turn(cfg, T, strategy) = Len(best)
    BY <1>2, <1>6 DEF Wheel, Turn, best
  <2> QED
    BY <2>2, <2>4, <2>5, <2>6 DEF k
<1>7. CASE strategy = "weighted"
  <2> DEFINE wheel == Wheel(cfg, T, strategy)
             L == Turn(cfg, T, strategy)
             p == wheel[(n % L) + 1]
  <2>1. strategy \in Counted
    BY <1>7 DEF Counted
  <2>2. wheel \in Seq(T) /\ Len(wheel) = L /\ L \in Nat \ {0}
    BY <2>1, WheelFacts
  <2>3. wheel = Expanded(cfg, best)
    BY <1>7 DEF Wheel, best
  <2>4. t = First(Drawn(cfg, best, n), best)
    BY <1>7 DEF TierOrder, best
  <2> HIDE DEF wheel, L
  <2>5. Drawn(cfg, best, n) = p
    <3>1. Drawn(cfg, best, n) = Expanded(cfg, best)[(n % Len(Expanded(cfg, best))) + 1]
      BY DEF Drawn
    <3> QED
      BY <2>2, <2>3, <3>1, Zenon
  <2>6. p \in T
    <3>1. (n % L) + 1 \in 1..L
      <4>1. n \in Int
        OBVIOUS
      <4>2. (n % L) \in 0..(L - 1)
        BY <2>2, <4>1, DivMod
      <4> QED
        BY <2>2, <4>2
    <3>2. DOMAIN wheel = 1..L
      BY <2>2, LenProperties
    <3> QED
      BY <2>2, <3>1, <3>2, ElementOfSeq
  <2> HIDE DEF p
  <2>7. Lists(t, T) /\ t[1] = p
    <3>1. t = First(p, best)
      BY <2>4, <2>5
    <3> HIDE DEF t
    <3>2. Lists(First(p, best), T)
      BY <1>1, <2>6, FirstFacts
    <3>3. PICK k \in 1..Len(best) : best[k] = p /\ Moved(First(p, best), best, k)
      BY <1>1, <2>6, FirstFacts
    <3> QED
      BY <3>1, <3>2, <3>3 DEF Moved
  <2> QED
    BY <2>7 DEF p, wheel, L
<1> QED
  BY <1>4, <1>5, <1>6, <1>7 DEF Strategies, Counted
----------------------------------------------------------------------------------
(* A list in which no worse priority goes before a better one.                        *)
InTiers(cfg, s) ==
    \A i, j \in 1..Len(s) : i < j => cfg[s[i]].priority <= cfg[s[j]].priority

(* _order lists the candidates in tiers, and begins as the best tier does.            *)
LEMMA OrderFacts ==
  ASSUME NEW cfg, Configuration(cfg), NEW cands \in SUBSET DOMAIN cfg, cands # {},
         NEW strategy \in Strategies, NEW n \in Nat, NEW mm, Measured(cfg, mm)
  PROVE  /\ Lists(Order(cfg, cands, strategy, n, mm), cands)
         /\ InTiers(cfg, Order(cfg, cands, strategy, n, mm))
         /\ Order(cfg, cands, strategy, n, mm)[1] =
               TierOrder(cfg, Tier(cfg, cands), strategy, n, mm)[1]
<1> DEFINE T == Tier(cfg, cands)
           rest == cands \ T
           a == TierOrder(cfg, T, strategy, n, mm)
           b == Ascending(rest, Priorities(cfg))
           s == a \o b
<1>1. /\ T \in SUBSET cands /\ T # {}
      /\ \A p, q \in T : cfg[p].priority = cfg[q].priority
      /\ \A p \in T, q \in cands : cfg[p].priority <= cfg[q].priority
  BY TierFacts
<1>2. Order(cfg, cands, strategy, n, mm) = s
  BY DEF Order
<1> HIDE DEF T
<1>3. T \in SUBSET DOMAIN cfg /\ rest \in SUBSET DOMAIN cfg /\ T \cup rest = cands /\ T \cap rest = {}
  BY <1>1
<1>4. \A p \in cands : Priorities(cfg)[p] = cfg[p].priority /\ cfg[p].priority \in Int
  BY PrioritiesType
<1>5. Lists(a, T)
  BY <1>1, <1>3, TierOrderFacts
<1>6. /\ Lists(b, rest)
      /\ \A i, j \in 1..Len(b) : i < j => Priorities(cfg)[b[i]] <= Priorities(cfg)[b[j]]
  BY <1>3, <1>4, SubsetsFinite, AscendingLists
<1> HIDE DEF a, b
<1>7. /\ Lists(s, T \cup rest) /\ Len(s) = Len(a) + Len(b)
      /\ \A i \in 1..Len(a) : s[i] = a[i]
      /\ \A i \in (Len(a) + 1)..(Len(a) + Len(b)) : s[i] = b[i - Len(a)]
  <2>1. Lists(a \o b, T \cup rest) /\ Joined(a \o b, a, b)
    BY <1>3, <1>5, <1>6, ConcatLists
  <2> QED
    BY <2>1 DEF Joined
<1> HIDE DEF s, rest
<1>8. /\ Len(a) \in Nat /\ \A i \in 1..Len(a) : a[i] \in T
      /\ \A x \in T : \E i \in 1..Len(a) : a[i] = x
  BY <1>5, ListsIndex
<1>9. Len(b) \in Nat /\ \A i \in 1..Len(b) : b[i] \in rest
  BY <1>6, ListsIndex
<1>10. ASSUME NEW i \in 1..Len(s), NEW j \in 1..Len(s), i < j
       PROVE  cfg[s[i]].priority <= cfg[s[j]].priority
  <2>1. CASE j <= Len(a)
    <3>1. i \in 1..Len(a) /\ j \in 1..Len(a)
      BY <1>8, <1>10, <2>1
    <3>2. s[i] \in T /\ s[j] \in T
      BY <1>7, <1>8, <3>1
    <3> QED
      BY <1>1, <3>2
  <2>2. CASE i <= Len(a) /\ j > Len(a)
    <3>1. i \in 1..Len(a) /\ j - Len(a) \in 1..Len(b) /\ j \in (Len(a) + 1)..(Len(a) + Len(b))
      BY <1>7, <1>8, <1>9, <2>2
    <3>2. s[i] \in T /\ s[j] \in rest
      BY <1>7, <1>8, <1>9, <3>1
    <3> QED
      BY <1>1, <1>3, <3>2
  <2>3. CASE i > Len(a)
    <3> DEFINE x == i - Len(a)
               y == j - Len(a)
    <3>1. /\ i \in (Len(a) + 1)..(Len(a) + Len(b)) /\ j \in (Len(a) + 1)..(Len(a) + Len(b))
          /\ x \in 1..Len(b) /\ y \in 1..Len(b) /\ x < y
      BY <1>7, <1>8, <1>9, <1>10, <2>3
    <3>2. s[i] = b[x] /\ s[j] = b[y]
      BY <1>7, <3>1
    <3> HIDE DEF x, y
    <3>3. Priorities(cfg)[b[x]] <= Priorities(cfg)[b[y]] /\ b[x] \in cands /\ b[y] \in cands
      BY <1>3, <1>6, <1>9, <3>1
    <3> QED
      BY <1>4, <3>2, <3>3
  <2> QED
    BY <1>8, <2>1, <2>2, <2>3
<1>11. s[1] = a[1]
  BY <1>1, <1>7, <1>8
<1> QED
  BY <1>2, <1>3, <1>7, <1>10, <1>11 DEF InTiers, a, T

(* The pinned provider goes to the front, the others keep their places.               *)
Pins(name, t) == Len(name) > 1 /\ Head(name) = t[1]

InTiersButFor(cfg, name, t) ==
    \A i, j \in 1..Len(t) :
        i < j /\ cfg[t[i]].priority > cfg[t[j]].priority => i = 1 /\ Pins(name, t)

LEMMA PinnedFacts ==
  ASSUME NEW cfg, Configuration(cfg), NEW cands \in SUBSET DOMAIN cfg,
         NEW s, Lists(s, cands), InTiers(cfg, s), NEW name
  PROVE  /\ Lists(PinnedFirst(s, name), cands)
         /\ InTiersButFor(cfg, name, PinnedFirst(s, name))
         /\ Len(name) > 1 /\ Head(name) \in cands => PinnedFirst(s, name)[1] = Head(name)
         /\ ~(Len(name) > 1) => PinnedFirst(s, name) = s
<1> DEFINE p == Head(name)
           t == PinnedFirst(s, name)
<1>1. /\ Len(s) \in Nat /\ \A i \in 1..Len(s) : s[i] \in cands
      /\ ToSet(s) = cands
  BY ListsIndex DEF Lists
<1>2. \A q \in cands : cfg[q].priority \in Int
  BY DEF Configuration
<1>3. CASE Len(name) > 1 /\ p \in cands
  <2>1. t = First(p, s)
    BY <1>1, <1>3 DEF PinnedFirst
  <2> HIDE DEF t
  <2>2. Lists(t, cands)
    BY <1>3, <2>1, FirstFacts
  <2>3. PICK k \in 1..Len(s) : s[k] = p /\ Moved(t, s, k)
    BY <1>3, <2>1, FirstFacts
  <2>4. /\ Len(t) = Len(s) /\ t[1] = p
        /\ \A i \in 2..k : t[i] = s[i - 1]
        /\ \A i \in (k + 1)..Len(s) : t[i] = s[i]
    BY <2>3 DEF Moved
  <2>5. ASSUME NEW i \in 2..Len(s), NEW j \in 2..Len(s), i < j
        PROVE  cfg[t[i]].priority <= cfg[t[j]].priority
    <3> DEFINE at(x) == IF x <= k THEN x - 1 ELSE x
    <3>1. at(i) \in 1..Len(s) /\ at(j) \in 1..Len(s) /\ at(i) < at(j)
      BY <1>1, <2>3, <2>5
    <3>2. t[i] = s[at(i)] /\ t[j] = s[at(j)]
      BY <1>1, <2>3, <2>4
    <3> HIDE DEF at
    <3> QED
      BY <3>1, <3>2 DEF InTiers
  <2>6. ASSUME NEW i \in 1..Len(t), NEW j \in 1..Len(t),
               i < j, cfg[t[i]].priority > cfg[t[j]].priority
        PROVE  i = 1
    <3>1. SUFFICES ASSUME i # 1 PROVE FALSE
      OBVIOUS
    <3>2. i \in 2..Len(s) /\ j \in 2..Len(s) /\ i \in 1..Len(t) /\ j \in 1..Len(t)
      BY <1>1, <2>4, <2>6, <3>1
    <3>3. cfg[t[i]].priority <= cfg[t[j]].priority
      BY <2>5, <2>6, <3>2
    <3>4. t[i] \in cands /\ t[j] \in cands
      BY <2>2, <3>2, ListsIndex
    <3> QED
      BY <1>2, <2>6, <3>3, <3>4
  <2>7. InTiersButFor(cfg, name, t)
    BY <1>3, <2>4, <2>6 DEF InTiersButFor, Pins
  <2> QED
    BY <1>3, <2>2, <2>4, <2>7 DEF t
<1>4. CASE ~(Len(name) > 1 /\ p \in cands)
  <2>1. t = s
    BY <1>1, <1>4 DEF PinnedFirst
  <2>2. InTiersButFor(cfg, name, s)
    BY <1>1, <1>2 DEF InTiers, InTiersButFor
  <2> QED
    BY <1>4, <2>1, <2>2
<1> QED
  BY <1>3, <1>4
----------------------------------------------------------------------------------
Candidates(cfg, name, S) == FilterCircuit(MatchProviders(cfg, name), S)

LEMMA CandidatesFacts ==
  ASSUME NEW cfg, NEW name, NEW S
  PROVE  /\ Candidates(cfg, name, S) \in SUBSET MatchProviders(cfg, name)
         /\ MatchProviders(cfg, name) \in SUBSET Enabled(cfg)
         /\ Candidates(cfg, name, S) = {} <=> MatchProviders(cfg, name) = {}
         /\ \A p \in MatchProviders(cfg, name) \ S : p \in Candidates(cfg, name, S)
         /\ Candidates(cfg, name, S) \cap S # {} => MatchProviders(cfg, name) \in SUBSET S
<1>1. MatchProviders(cfg, name) \in SUBSET Enabled(cfg)
  BY DEF MatchProviders, Serving
<1> QED
  BY <1>1 DEF Candidates, FilterCircuit

(* What a request for a name gets, in a word: an order of candidates, all of them     *)
(* with failover, in tiers but for a pinned provider, which comes first.              *)
Answers(cfg, srv, name, cands, s) ==
    /\ s \in Seq(cands) /\ s # <<>> /\ s[1] \in cands
    /\ IsInjective(s)
    /\ ToSet(s) \in SUBSET cands
    /\ srv.failover = TRUE => ToSet(s) = cands
    /\ InTiersButFor(cfg, name, s)
    /\ Len(name) > 1 /\ Head(name) \in cands => s[1] = Head(name)

(* resolve_providers, for any counter: with candidates it answers so, and without a   *)
(* prefix a counted strategy goes round the wheel.                                    *)
LEMMA ResolvedFacts ==
  ASSUME NEW cfg, Configuration(cfg), NEW srv \in Servers, NEW name, NEW S,
         NEW n \in Nat, NEW mm, Measured(cfg, mm), Candidates(cfg, name, S) # {}
  PROVE  /\ Answers(cfg, srv, name, Candidates(cfg, name, S), Resolved(cfg, srv, name, S, n, mm))
         /\ ~(Len(name) > 1) /\ srv.strategy \in Counted =>
               Resolved(cfg, srv, name, S, n, mm)[1] =
                  Wheel(cfg, Tier(cfg, Candidates(cfg, name, S)), srv.strategy)
                     [(n % Turn(cfg, Tier(cfg, Candidates(cfg, name, S)), srv.strategy)) + 1]
<1> DEFINE cands == Candidates(cfg, name, S)
           T == Tier(cfg, cands)
           o == Order(cfg, cands, srv.strategy, n, mm)
           t == PinnedFirst(o, name)
           s == Resolved(cfg, srv, name, S, n, mm)
<1>1. cands \in SUBSET DOMAIN cfg /\ cands # {}
  BY CandidatesFacts DEF Enabled
<1>2. srv.strategy \in Strategies /\ srv.failover \in BOOLEAN
  BY DEF Servers
<1>3. s = IF srv.failover \/ t = <<>> THEN t ELSE <<t[1]>>
  BY DEF Resolved, Candidates
<1> HIDE DEF cands, s
<1>4. Lists(o, cands) /\ InTiers(cfg, o) /\ o[1] = TierOrder(cfg, T, srv.strategy, n, mm)[1]
  BY <1>1, <1>2, OrderFacts
<1> HIDE DEF o
<1>5. /\ Lists(t, cands) /\ InTiersButFor(cfg, name, t)
      /\ Len(name) > 1 /\ Head(name) \in cands => t[1] = Head(name)
      /\ ~(Len(name) > 1) => t = o
  BY <1>1, <1>4, PinnedFacts
<1> HIDE DEF t
<1>6. /\ Len(t) \in Nat /\ \A i \in 1..Len(t) : t[i] \in cands
      /\ \A x \in cands : \E i \in 1..Len(t) : t[i] = x
  BY <1>5, ListsIndex
<1>7. 1 \in 1..Len(t) /\ t # <<>> /\ t[1] \in cands
  BY <1>1, <1>6
<1>8. Answers(cfg, srv, name, cands, s) /\ s[1] = t[1]
  <2>1. CASE srv.failover = TRUE
    <3>1. s = t
      BY <1>3, <2>1
    <3> QED
      BY <1>5, <1>7, <2>1, <3>1 DEF Answers, Lists
  <2>2. CASE srv.failover = FALSE
    <3> DEFINE x == t[1]
    <3>1. s = <<x>>
      BY <1>3, <1>7, <2>2
    <3>2. x \in cands /\ (Len(name) > 1 /\ Head(name) \in cands => x = Head(name))
      BY <1>5, <1>7
    <3> HIDE DEF x
    <3>3. s \in Seq(cands) /\ Len(s) = 1 /\ s[1] = x /\ DOMAIN s = {1} /\ s # <<>>
      BY <3>1, <3>2
    <3>4. ToSet(s) = {x}
      BY <3>3 DEF ToSet
    <3>5. IsInjective(s)
      BY <3>3 DEF IsInjective
    <3>6. InTiersButFor(cfg, name, s)
      BY <3>3 DEF InTiersButFor
    <3>7. Answers(cfg, srv, name, cands, s)
      BY <2>2, <3>2, <3>3, <3>4, <3>5, <3>6 DEF Answers
    <3> QED
      BY <3>3, <3>7 DEF x
  <2> QED
    BY <1>2, <2>1, <2>2
<1>9. ASSUME ~(Len(name) > 1), srv.strategy \in Counted
      PROVE  s[1] = Wheel(cfg, T, srv.strategy)[(n % Turn(cfg, T, srv.strategy)) + 1]
  <2>1. T \in SUBSET DOMAIN cfg /\ T # {}
    BY <1>1, TierFacts
  <2> HIDE DEF T
  <2>2. TierOrder(cfg, T, srv.strategy, n, mm)[1] =
          Wheel(cfg, T, srv.strategy)[(n % Turn(cfg, T, srv.strategy)) + 1]
    BY <1>2, <1>9, <2>1, TierOrderFacts
  <2> QED
    BY <1>4, <1>5, <1>8, <1>9, <2>2
<1> QED
  BY <1>8, <1>9 DEF cands, s

LEMMA ResolvedNothing ==
  ASSUME NEW cfg, NEW srv, NEW name, NEW S, NEW n, NEW mm, Candidates(cfg, name, S) = {}
  PROVE  Resolved(cfg, srv, name, S, n, mm) = <<>>
<1>1. Order(cfg, {}, srv.strategy, n, mm) = <<>>
  BY DEF Order
<1>2. PinnedFirst(<<>>, name) = <<>>
  <2>1. ToSet(<<>>) = {}
    BY DEF ToSet
  <2> QED
    BY <2>1 DEF PinnedFirst
<1> QED
  BY <1>1, <1>2 DEF Resolved, Candidates
----------------------------------------------------------------------------------
(* The last n of a sequence, counted from its end.                                    *)
Ends(r, q, L) ==
    /\ Len(r) = IF Len(q) <= L THEN Len(q) ELSE L
    /\ \A k \in 0..(Len(r) - 1) : r[Len(r) - k] = q[Len(q) - k]

LEMMA LastOfFacts ==
  ASSUME NEW E, NEW q \in Seq(E), NEW L \in Nat
  PROVE  LastOf(q, L) \in Seq(E) /\ Ends(LastOf(q, L), q, L)
<1> DEFINE n == Len(q)
           r == LastOf(q, L)
<1>1. n \in Nat
  BY LenProperties
<1>2. CASE n <= L
  <2>1. r = q
    BY <1>2 DEF LastOf
  <2> QED
    BY <1>2, <2>1 DEF Ends
<1>3. CASE ~(n <= L)
  <2> DEFINE m == n - L + 1
  <2>1. r = SubSeq(q, m, n)
    BY <1>3 DEF LastOf
  <2>2. m \in 1..(n + 1) /\ n \in m - 1..n /\ n - m + 1 = L
    BY <1>1, <1>3
  <2> HIDE DEF n, m
  <2>3. SubSeq(q, m, n) \in Seq(E)
    BY <1>1, <2>2, SubSeqProperties DEF n
  <2>4. Len(SubSeq(q, m, n)) = L
    BY <1>1, <2>2, SubSeqProperties DEF n
  <2>5. \A i \in 1..L : SubSeq(q, m, n)[i] = q[m + i - 1]
    BY <1>1, <2>2, SubSeqProperties DEF n
  <2>6. ASSUME NEW k \in 0..(L - 1) PROVE SubSeq(q, m, n)[L - k] = q[n - k]
    <3>1. L - k \in 1..L /\ m + (L - k) - 1 = n - k
      BY <1>1, <2>2 DEF m
    <3> QED
      BY <2>5, <3>1
  <2> QED
    BY <1>3, <2>1, <2>3, <2>4, <2>6 DEF n, Ends
<1> QED
  BY <1>2, <1>3

(* A window as long as the wheel, laid round it, holds each provider as often.        *)
Laid(ps, wheel, L, c) ==
    /\ Len(wheel) = L /\ Len(ps) = L
    /\ \A k \in 0..(L - 1) : ps[L - k] = wheel[((c - 1 - k) % L) + 1]

LEMMA RoundCounts ==
  ASSUME NEW L \in Nat \ {0}, NEW wheel, NEW ps, NEW c \in Int, Laid(ps, wheel, L, c), NEW p
  PROVE  Cardinality(Places(ps, p)) = Cardinality(Places(wheel, p))
<1> DEFINE at(i) == ((c - 1 - (L - i)) % L) + 1
           f == [i \in 1..L |-> at(i)]
           A == Places(ps, p)
           B == Places(wheel, p)
<1>0. /\ Len(wheel) = L /\ Len(ps) = L
      /\ \A k \in 0..(L - 1) : ps[L - k] = wheel[((c - 1 - k) % L) + 1]
  BY DEF Laid
<1>1. ASSUME NEW i \in 1..L PROVE at(i) \in 1..L /\ ps[i] = wheel[at(i)]
  <2>1. L - i \in 0..(L - 1) /\ L - (L - i) = i /\ c - 1 - (L - i) \in Int
    OBVIOUS
  <2>2. ((c - 1 - (L - i)) % L) \in 0..(L - 1)
    BY <2>1, DivMod
  <2>3. ps[L - (L - i)] = wheel[at(i)]
    BY <1>0, <2>1
  <2> HIDE DEF f
  <2> QED
    BY <2>1, <2>2, <2>3
<1>2. ASSUME NEW i \in 1..L, NEW j \in 1..L, at(i) = at(j), i <= j PROVE i = j
  <2> DEFINE a == c - 1 - (L - i)
             b == c - 1 - (L - j)
  <2>1. a \in Int /\ b \in Int /\ a <= b /\ b < a + L
    BY <1>2
  <2>2. a % L = b % L
    <3>1. (a % L) \in 0..(L - 1) /\ (b % L) \in 0..(L - 1)
      BY <2>1, DivMod
    <3>2. (a % L) + 1 = (b % L) + 1
      BY <1>2
    <3> HIDE DEF a, b
    <3> QED
      BY <3>1, <3>2
  <2>3. a = b
    <3> HIDE DEF a, b
    <3> QED
      BY <2>1, <2>2, ModDistinct
  <2> QED
    BY <2>3
<1>3. \A i, j \in 1..L : at(i) = at(j) => i = j
  <2>1. ASSUME NEW i \in 1..L, NEW j \in 1..L, at(i) = at(j) PROVE i = j
    <3>1. i <= j \/ j <= i
      OBVIOUS
    <3> HIDE DEF at
    <3> QED
      BY <1>2, <2>1, <3>1
  <2> QED
    BY <2>1
<1> HIDE DEF at
<1>4. f \in Injection(1..L, 1..L)
  BY <1>1, <1>3 DEF Injection, IsInjective
<1>5. \A x \in 1..L : \E i \in 1..L : at(i) = x
  <2>1. IsFiniteSet(1..L)
    BY FS_Interval
  <2>2. f \in Surjection(1..L, 1..L)
    BY <1>4, <2>1, FS_Injection
  <2> QED
    BY <2>2 DEF Surjection
<1>6. A = {i \in 1..L : ps[i] = p} /\ B = {i \in 1..L : wheel[i] = p}
  BY <1>0 DEF Places
<1> HIDE DEF A, B
<1> DEFINE g == [i \in A |-> at(i)]
<1>7. g \in Bijection(A, B)
  <2>1. \A i \in A : at(i) \in B
    BY <1>1, <1>6
  <2>2. \A i, j \in A : at(i) = at(j) => i = j
    BY <1>3, <1>6
  <2>3. \A x \in B : \E i \in A : at(i) = x
    BY <1>1, <1>5, <1>6
  <2> QED
    BY <2>1, <2>2, <2>3 DEF Bijection, Injection, Surjection, IsInjective
<1>8. IsFiniteSet(A)
  <2>1. IsFiniteSet(1..L)
    BY FS_Interval
  <2> QED
    BY <1>6, <2>1, FS_Subset
<1>9. ExistsBijection(A, B)
  BY <1>7 DEF ExistsBijection
<1>10. Cardinality(A) = Cardinality(B)
  BY <1>8, <1>9, FS_Bijection
<1> QED
  BY <1>10 DEF A, B
----------------------------------------------------------------------------------
(* What a counter that was increased modulo Cycle says of an earlier one.             *)
LEMMA CounterMod ==
  ASSUME NEW c \in Nat, NEW k \in Nat, NEW C \in Nat \ {0}, NEW L \in Nat \ {0}, C % L = 0
  PROVE  (((c + 1) % C) - 1 - k) % L = (c - k) % L
<1>1. PICK z \in Int : z = -1 - k
  OBVIOUS
<1>2. PICK a \in Int : a = c + 1
  OBVIOUS
<1>3. ((a % C) + z) % L = (a + z) % L
  BY ModOfMod, ZenonT(60)
<1>4. (a % C) \in Int
  BY DivMod
<1>5. (a % C) + z = (a % C) - 1 - k /\ a + z = c - k
  BY <1>1, <1>2, <1>4
<1> QED
  BY <1>2, <1>3, <1>5, Zenon

(* The invariant.  The picks of a name are the places of the wheel that its counter   *)
(* has just passed; the counter is known only modulo Cycle.                           *)
Around(cfg, srv, S, name) == Turn(cfg, Tier(cfg, Candidates(cfg, name, S)), srv.strategy)

OnWheel(cfg, srv, S, c, ps, name) ==
    \A k \in 0..(Len(ps) - 1) :
        ps[Len(ps) - k] =
            Wheel(cfg, Tier(cfg, Candidates(cfg, name, S)), srv.strategy)
               [((c - 1 - k) % Around(cfg, srv, S, name)) + 1]

Record(cfg, srv, S, c, ps, name) ==
    /\ ps \in Seq(Enabled(cfg))
    /\ Len(ps) <= Around(cfg, srv, S, name)
    /\ srv.strategy \in Counted /\ ~(Len(name) > 1) /\ Candidates(cfg, name, S) # {} =>
          OnWheel(cfg, srv, S, c, ps, name)

Known == UNION {Providers(cfg) : cfg \in Configs}

IInv ==
    /\ config \in Configs /\ server \in Servers
    /\ refused \subseteq Known /\ measure \in Measures
    /\ rr \in [Names -> 0..(Cycle - 1)]
    /\ picks \in [Names -> Seq(Enabled(config))]
    /\ \A name \in Names : Record(config, server, refused, rr[name], picks[name], name)

LEMMA ConfigsShape ==
  ASSUME NEW cfg \in Configs, NEW mm \in Measures
  PROVE  Configuration(cfg) /\ Measured(cfg, mm)
  BY RoutingAssumption DEF Measured

LEMMA AroundType ==
  ASSUME NEW cfg \in Configs, NEW srv \in Servers, NEW S, NEW name
  PROVE  /\ Around(cfg, srv, S, name) \in Nat
         /\ Candidates(cfg, name, S) # {} /\ srv.strategy \in Counted =>
               /\ Around(cfg, srv, S, name) \in Nat \ {0}
               /\ Cycle % Around(cfg, srv, S, name) = 0
<1> DEFINE cands == Candidates(cfg, name, S)
           T == Tier(cfg, cands)
<1>1. Configuration(cfg)
  BY RoutingAssumption
<1>2. cands \in SUBSET DOMAIN cfg
  BY CandidatesFacts DEF Enabled
<1>3. Around(cfg, srv, S, name) = Turn(cfg, T, srv.strategy)
  BY DEF Around
<1> HIDE DEF cands
<1>4. CASE cands = {}
  <2>1. T = {}
    BY <1>4 DEF Tier
  <2>2. Turn(cfg, T, srv.strategy) = 0
    BY <2>1, SumEmpty, FS_EmptySet DEF Turn
  <2> QED
    BY <1>3, <1>4, <2>2 DEF cands
<1>5. CASE cands # {}
  <2>1. T \in SUBSET DOMAIN cfg /\ T # {}
    BY <1>1, <1>2, <1>5, TierFacts
  <2>2. Cycle % Cardinality(T) = 0 /\ Cycle % SumFunctionOnSet(Weights(cfg), T) = 0
    BY <1>2, <1>5, RoutingAssumption
  <2> HIDE DEF T
  <2>3. CASE srv.strategy \in Counted
    <3>1. Turn(cfg, T, srv.strategy) \in Nat \ {0}
      BY <1>1, <2>1, <2>3, WheelFacts
    <3>2. Cycle % Turn(cfg, T, srv.strategy) = 0
      BY <2>2 DEF Turn
    <3> QED
      BY <1>3, <3>1, <3>2
  <2>4. CASE srv.strategy \notin Counted
    <3>1. Turn(cfg, T, srv.strategy) = Cardinality(T)
      BY <2>4 DEF Turn, Counted
    <3>2. Cardinality(T) \in Nat
      BY <1>1, <2>1, SubsetsFinite, FS_CardinalityType
    <3> QED
      BY <1>3, <2>4, <3>1, <3>2
  <2> QED
    BY <2>3, <2>4
<1> QED
  BY <1>4, <1>5

(* When the router's inputs change the record starts afresh.                          *)
LEMMA RecordEmpty ==
  ASSUME NEW cfg \in Configs, NEW srv \in Servers, NEW S, NEW name, NEW c
  PROVE  Record(cfg, srv, S, c, <<>>, name)
<1>1. Around(cfg, srv, S, name) \in Nat
  BY AroundType
<1>2. <<>> \in Seq(Enabled(cfg)) /\ Len(<<>>) = 0
  OBVIOUS
<1>3. OnWheel(cfg, srv, S, c, <<>>, name)
  BY <1>2 DEF OnWheel
<1> QED
  BY <1>1, <1>2, <1>3 DEF Record

(* A request adds the place of the wheel its counter points to.                       *)
LEMMA RecordAsked ==
  ASSUME NEW cfg \in Configs, NEW srv \in Servers, NEW S, NEW name, NEW c \in 0..(Cycle - 1),
         NEW mm \in Measures, NEW ps, Record(cfg, srv, S, c, ps, name),
         srv.strategy \in Counted, Candidates(cfg, name, S) # {},
         NEW s, s = Resolved(cfg, srv, name, S, c, mm),
         NEW r, r = LastOf(Append(ps, s[1]), Around(cfg, srv, S, name))
  PROVE  Record(cfg, srv, S, (c + 1) % Cycle, r, name)
<1> DEFINE L == Around(cfg, srv, S, name)
           E == Enabled(cfg)
           x == s[1]
           q == Append(ps, x)
           m == Len(ps)
           wheel == Wheel(cfg, Tier(cfg, Candidates(cfg, name, S)), srv.strategy)
<1>1. L \in Nat \ {0} /\ Cycle % L = 0
  BY AroundType
<1>2. c \in Nat /\ Cycle \in Nat \ {0}
  BY RoutingAssumption
<1>3. /\ Answers(cfg, srv, name, Candidates(cfg, name, S), s)
      /\ ~(Len(name) > 1) => x = wheel[(c % L) + 1]
  BY <1>2, ConfigsShape, ResolvedFacts DEF Around
<1>4. x \in E
  BY <1>3, CandidatesFacts DEF Answers
<1>5. ps \in Seq(E) /\ m \in Nat
  BY LenProperties DEF Record
<1>6. ~(Len(name) > 1) => \A k \in 0..(m - 1) : ps[m - k] = wheel[((c - 1 - k) % L) + 1]
  BY DEF Record, OnWheel
<1>7. r = LastOf(q, L)
  OBVIOUS
<1> HIDE DEF L, E, x, m, wheel
<1>8. /\ q \in Seq(E) /\ Len(q) = m + 1 /\ q[m + 1] = x
      /\ \A i \in 1..m : q[i] = ps[i]
  BY <1>4, <1>5, AppendProperties DEF m
<1> HIDE DEF q
<1>9. /\ r \in Seq(E) /\ Len(r) = IF m + 1 <= L THEN m + 1 ELSE L
      /\ \A k \in 0..(Len(r) - 1) : r[Len(r) - k] = q[m + 1 - k]
  <2>1. r \in Seq(E) /\ Ends(r, q, L)
    BY <1>1, <1>7, <1>8, LastOfFacts
  <2>2. /\ Len(r) = IF Len(q) <= L THEN Len(q) ELSE L
        /\ \A k \in 0..(Len(r) - 1) : r[Len(r) - k] = q[Len(q) - k]
    BY <2>1 DEF Ends
  <2>3. Len(q) = m + 1
    BY <1>8
  <2> QED
    <3>1. Len(r) = IF m + 1 <= L THEN m + 1 ELSE L
      BY <2>2, <2>3
    <3>2. \A k \in 0..(Len(r) - 1) : q[Len(q) - k] = q[m + 1 - k]
      BY <1>5, <2>3
    <3> QED
      BY <2>1, <2>2, <3>1, <3>2
<1>10. Len(r) <= L /\ Len(r) <= m + 1 /\ Len(r) \in Nat
  <2>1. L \in Nat /\ m + 1 \in Nat
    BY <1>1, <1>5
  <2>2. CASE m + 1 <= L
    BY <1>9, <2>1, <2>2
  <2>3. CASE ~(m + 1 <= L)
    BY <1>9, <2>1, <2>3
  <2> QED
    BY <2>2, <2>3
<1>11. ASSUME ~(Len(name) > 1), NEW k \in 0..(Len(r) - 1)
       PROVE  r[Len(r) - k] = wheel[((((c + 1) % Cycle) - 1 - k) % L) + 1]
  <2> DEFINE d == (c + 1) % Cycle
  <2>3. k \in Nat
    BY <1>10
  <2>4. (((c + 1) % Cycle) - 1 - k) % L = (c - k) % L
    BY <1>1, <1>2, <2>3, CounterMod
  <2> HIDE DEF d
  <2>5. (d - 1 - k) % L = (c - k) % L
    BY <2>4 DEF d
  <2>6. r[Len(r) - k] = q[m + 1 - k]
    BY <1>9
  <2>7. CASE k = 0
    <3>1. c - k = c /\ m + 1 - k = m + 1
      BY <1>2, <1>5, <2>7
    <3>2. x = wheel[(c % L) + 1]
      BY <1>3, <1>11
    <3> QED
      BY <1>8, <2>5, <2>6, <3>1, <3>2 DEF d
  <2>8. CASE k # 0
    <3>1. k - 1 \in 0..(m - 1) /\ m - (k - 1) = m + 1 - k /\ c - 1 - (k - 1) = c - k
      BY <1>2, <1>5, <1>10, <2>3, <2>8
    <3>2. m + 1 - k \in 1..m
      BY <1>5, <1>10, <2>3, <2>8
    <3>3. ps[m - (k - 1)] = wheel[((c - 1 - (k - 1)) % L) + 1]
      BY <1>6, <1>11, <3>1
    <3>4. q[m + 1 - k] = ps[m + 1 - k]
      BY <1>8, <3>2
    <3> QED
      BY <2>5, <2>6, <3>1, <3>3, <3>4 DEF d
  <2> QED
    BY <2>7, <2>8
<1>12. ASSUME ~(Len(name) > 1) PROVE OnWheel(cfg, srv, S, (c + 1) % Cycle, r, name)
  BY <1>11, <1>12 DEF OnWheel, L, wheel
<1> QED
  BY <1>9, <1>10, <1>12 DEF Record, L, E
----------------------------------------------------------------------------------
LEMMA IInvInit ==
  ASSUME Init
  PROVE  IInv
<1>1. /\ config \in Configs /\ server \in Servers /\ refused \subseteq Known /\ measure \in Measures
      /\ rr = [name \in Names |-> 0] /\ picks = [name \in Names |-> <<>>]
  BY DEF Init
<1>2. 0 \in 0..(Cycle - 1)
  BY RoutingAssumption
<1>3. rr \in [Names -> 0..(Cycle - 1)] /\ picks \in [Names -> Seq(Enabled(config))]
  BY <1>1, <1>2
<1>4. \A name \in Names : Record(config, server, refused, rr[name], picks[name], name)
  BY <1>1, RecordEmpty
<1> QED
  BY <1>1, <1>3, <1>4 DEF IInv

(* After any step that changes the router's inputs.                                   *)
LEMMA FreshKeeps ==
  ASSUME config' \in Configs, server' \in Servers, refused' \subseteq Known, measure' \in Measures,
         rr' \in [Names -> 0..(Cycle - 1)], Fresh
  PROVE  IInv'
<1>1. picks' = [name \in Names |-> <<>>]
  BY DEF Fresh
<1>2. picks' \in [Names -> Seq(Enabled(config'))]
  BY <1>1
<1>3. \A name \in Names : Record(config', server', refused', rr'[name], picks'[name], name)
  BY <1>1, RecordEmpty
<1> QED
  BY <1>2, <1>3 DEF IInv

LEMMA AskKeeps ==
  ASSUME IInv, NEW name \in Names, Ask(name)
  PROVE  IInv'
<1> DEFINE cands == Candidates(config, name, refused)
           L == Around(config, server, refused, name)
           s == Resolve(name)
           c == rr[name]
           E == Enabled(config)
<1>1. /\ config \in Configs /\ server \in Servers /\ refused \subseteq Known /\ measure \in Measures
      /\ rr \in [Names -> 0..(Cycle - 1)] /\ picks \in [Names -> Seq(E)]
      /\ \A m \in Names : Record(config, server, refused, rr[m], picks[m], m)
  BY DEF IInv
<1>2. config' = config /\ server' = server /\ refused' = refused /\ measure' = measure
  BY DEF Ask
<1>3. c \in 0..(Cycle - 1) /\ c \in Nat /\ s = Resolved(config, server, name, refused, c, measure)
  BY <1>1 DEF Resolve
<1>4. Round(name) = L
  BY DEF Round, Around, Turn, Candidates
<1>5. MatchProviders(config, name) # {} <=> cands # {}
  BY CandidatesFacts
<1>6. s # <<>> <=> cands # {}
  <2>1. ASSUME cands # {} PROVE s # <<>>
    <3>1. Answers(config, server, name, cands, s)
      BY <1>1, <1>3, <2>1, ConfigsShape, ResolvedFacts
    <3> QED
      BY <3>1 DEF Answers
  <2>2. ASSUME cands = {} PROVE s = <<>>
    BY <1>3, <2>2, ResolvedNothing
  <2> QED
    BY <2>1, <2>2
<1>7. /\ picks' = IF server.strategy \in Counted /\ s # <<>>
                  THEN [picks EXCEPT ![name] = LastOf(Append(@, s[1]), L)]
                  ELSE picks
      /\ rr' = IF server.strategy \in Counted /\ MatchProviders(config, name) # {}
               THEN [rr EXCEPT ![name] = (@ + 1) % Cycle]
               ELSE rr
  BY <1>4 DEF Ask, Counter
<1> HIDE DEF cands, L, s
<1>8. CASE server.strategy \in Counted /\ cands # {}
  <2> DEFINE r == LastOf(Append(picks[name], s[1]), L)
             d == (c + 1) % Cycle
  <2>1. picks' = [picks EXCEPT ![name] = r] /\ rr' = [rr EXCEPT ![name] = d]
    BY <1>1, <1>5, <1>6, <1>7, <1>8
  <2>2. Record(config, server, refused, d, r, name)
    <3>1. Record(config, server, refused, c, picks[name], name)
      BY <1>1
    <3> HIDE DEF c, d
    <3>2. Record(config, server, refused, (c + 1) % Cycle, r, name)
      BY <1>1, <1>3, <1>8, <3>1, RecordAsked DEF cands, L
    <3> QED
      BY <3>2 DEF d
  <2>3. d \in 0..(Cycle - 1)
    <3>1. c + 1 \in Int /\ Cycle \in Nat \ {0}
      BY <1>3, RoutingAssumption
    <3> QED
      BY <3>1, DivMod
  <2> HIDE DEF d, r
  <2>4. r \in Seq(E)
    BY <2>2 DEF Record
  <2>5. rr' \in [Names -> 0..(Cycle - 1)] /\ picks' \in [Names -> Seq(E)]
    BY <1>1, <2>1, <2>3, <2>4
  <2>6. ASSUME NEW m \in Names
        PROVE  Record(config, server, refused, rr'[m], picks'[m], m)
    <3>1. CASE m = name
      <4>1. rr'[m] = d /\ picks'[m] = r
        BY <1>1, <2>1, <3>1
      <4> QED
        BY <2>2, <3>1, <4>1
    <3>2. CASE m # name
      <4>1. rr'[m] = rr[m] /\ picks'[m] = picks[m]
        BY <1>1, <2>1, <3>2
      <4> QED
        BY <1>1, <4>1
    <3> QED
      BY <3>1, <3>2
  <2> QED
    BY <1>1, <1>2, <2>5, <2>6 DEF IInv
<1>9. CASE ~(server.strategy \in Counted /\ cands # {})
  <2>1. picks' = picks /\ rr' = rr
    BY <1>5, <1>6, <1>7, <1>9
  <2> QED
    BY <1>1, <1>2, <2>1 DEF IInv
<1> QED
  BY <1>8, <1>9

LEMMA IInvNext ==
  ASSUME IInv, [Next]_vars
  PROVE  IInv'
<1>1. /\ config \in Configs /\ server \in Servers /\ refused \subseteq Known /\ measure \in Measures
      /\ rr \in [Names -> 0..(Cycle - 1)]
  BY DEF IInv
<1>2. ASSUME NEW name \in Names, Ask(name) PROVE IInv'
  BY <1>2, AskKeeps
<1>3. ASSUME NEW S \in SUBSET Providers(config), NEW mm \in Measures, Health(S, mm) PROVE IInv'
  <2>1. S \subseteq Known
    BY <1>1 DEF Known
  <2> QED
    BY <1>1, <1>3, <2>1, FreshKeeps DEF Health
<1>4. ASSUME NEW s \in Servers, UpdateServer(s) PROVE IInv'
  BY <1>1, <1>4, FreshKeeps DEF UpdateServer
<1>5. ASSUME NEW cfg \in Configs, ReplaceProviders(cfg) PROVE IInv'
  BY <1>1, <1>5, FreshKeeps DEF ReplaceProviders
<1>6. CASE Restart
  <2>1. rr' \in [Names -> 0..(Cycle - 1)]
    BY <1>6, RoutingAssumption DEF Restart
  <2> QED
    BY <1>1, <1>6, <2>1, FreshKeeps DEF Restart
<1>7. CASE UNCHANGED vars
  BY <1>7 DEF vars, IInv
<1> QED
  BY <1>2, <1>3, <1>4, <1>5, <1>6, <1>7 DEF Next

LEMMA Invariant == Spec => []IInv
<1>1. Init => IInv
  BY IInvInit
<1>2. IInv /\ [Next]_vars => IInv'
  BY IInvNext
<1> QED
  BY <1>1, <1>2, PTL DEF Spec
----------------------------------------------------------------------------------
(* In a reachable state every answer is an answer in the sense above.                 *)
LEMMA OrdersAnswer ==
  ASSUME IInv, NEW name, NEW s \in Orders(name)
  PROVE  /\ Candidates(config, name, refused) = {} => s = <<>>
         /\ Candidates(config, name, refused) # {} =>
               Answers(config, server, name, Candidates(config, name, refused), s)
<1>1. PICK n \in 0..(Cycle - 1) : s = Resolved(config, server, name, refused, n, measure)
  BY DEF Orders
<1>2. n \in Nat /\ Configuration(config) /\ Measured(config, measure) /\ server \in Servers
  BY RoutingAssumption, ConfigsShape DEF IInv
<1> QED
  BY <1>1, <1>2, ResolvedFacts, ResolvedNothing

LEMMA TypeFollows ==
  ASSUME IInv
  PROVE  TypeOK
<1>1. ASSUME NEW name \in Asked, NEW s \in Orders(name)
      PROVE  ToSet(s) \subseteq Enabled(config) /\ IsInjective(s)
  <2>1. CASE Candidates(config, name, refused) = {}
    <3>1. s = <<>>
      BY <2>1, OrdersAnswer
    <3> QED
      BY <3>1 DEF ToSet, IsInjective
  <2>2. CASE Candidates(config, name, refused) # {}
    <3>1. Answers(config, server, name, Candidates(config, name, refused), s)
      BY <2>2, OrdersAnswer
    <3> QED
      BY <3>1, CandidatesFacts DEF Answers
  <2> QED
    BY <2>1, <2>2
<1>2. ASSUME NEW name \in Names
      PROVE  picks[name] \in Seq(Enabled(config)) /\ Len(picks[name]) <= Round(name)
  <2>1. Record(config, server, refused, rr[name], picks[name], name)
    BY DEF IInv
  <2>2. Round(name) = Around(config, server, refused, name)
    BY DEF Round, Around, Turn, Candidates
  <2> QED
    BY <2>1, <2>2 DEF Record
<1> QED
  BY <1>1, <1>2 DEF IInv, TypeOK, Known

(* Types: settings, counters and recorded picks are what they should be, and every    *)
(* order resolve_providers can return now is of enabled providers, none twice.        *)
THEOREM TypeCorrect == Spec => []TypeOK
  BY Invariant, TypeFollows, PTL

LEMMA TiersFollow ==
  ASSUME IInv
  PROVE  TiersInOrder
<1> SUFFICES ASSUME NEW name \in Asked, NEW s \in Orders(name), NEW i \in 1..Len(s), NEW j \in 1..Len(s),
                    i < j, config[s[i]].priority > config[s[j]].priority
             PROVE  i = 1 /\ Head(name) = s[1] /\ Len(name) > 1
  BY DEF TiersInOrder
<1>1. CASE Candidates(config, name, refused) = {}
  <2>1. s = <<>>
    BY <1>1, OrdersAnswer
  <2> QED
    BY <2>1
<1>2. CASE Candidates(config, name, refused) # {}
  <2>1. InTiersButFor(config, name, s)
    BY <1>2, OrdersAnswer DEF Answers
  <2> QED
    BY <2>1 DEF InTiersButFor, Pins
<1> QED
  BY <1>1, <1>2

(* Whatever the strategy, the counter and the measurements: no provider of a worse    *)
(* priority is tried before a better one, unless a prefix pins it.                    *)
THEOREM TiersKept == Spec => []TiersInOrder
  BY Invariant, TiersFollow, PTL

LEMMA NoneLeftOutFollows ==
  ASSUME IInv
  PROVE  NoneLeftOut
<1> SUFFICES ASSUME NEW p \in Enabled(config), NEW id \in DOMAIN config[p].models, NEW s \in Orders(id),
                    Len(id) = 1
             PROVE  /\ s # <<>>
                    /\ server.failover => p \in ToSet(s) \cup refused
                    /\ ToSet(s) \cap refused # {} => Serving(config, id) \subseteq refused
  BY DEF NoneLeftOut
<1> DEFINE cands == Candidates(config, id, refused)
<1>1. p \in Serving(config, id)
  BY DEF Serving
<1>2. MatchProviders(config, id) = Serving(config, id)
  BY <1>1 DEF MatchProviders
<1>3. /\ cands # {}
      /\ p \notin refused => p \in cands
      /\ cands \cap refused # {} => Serving(config, id) \in SUBSET refused
  BY <1>1, <1>2, CandidatesFacts
<1> HIDE DEF cands
<1>4. Answers(config, server, id, cands, s)
  BY <1>3, OrdersAnswer DEF cands
<1>5. server.failover \in BOOLEAN
  BY DEF IInv, Servers
<1> QED
  BY <1>3, <1>4, <1>5 DEF Answers

(* Failover: a model someone serves always has a candidate, everyone who serves it    *)
(* and is not refused is tried, and the refused only when nobody else is left.        *)
THEOREM FailoverComplete == Spec => []NoneLeftOut
  BY Invariant, NoneLeftOutFollows, PTL

LEMMA PrefixedName ==
  ASSUME NEW p \in Nat, NEW id \in Seq(Nat), id # <<>>, NEW name, name = <<p>> \o id
  PROVE  Len(name) > 1 /\ Head(name) = p /\ Tail(name) = id
<1>1. Len(id) \in Nat /\ Len(id) # 0
  BY LenProperties, EmptySeq
<1>2. <<p>> \in Seq(Nat) /\ Len(<<p>>) = 1 /\ <<p>>[1] = p
  OBVIOUS
<1>3. /\ name \in Seq(Nat) /\ Len(name) = 1 + Len(id)
      /\ \A i \in 1..(1 + Len(id)) : name[i] = IF i <= 1 THEN <<p>>[i] ELSE id[i - 1]
  BY <1>2, ConcatProperties
<1>4. name # <<>> /\ Len(name) > 1
  BY <1>1, <1>3
<1>5. Head(name) = p
  BY <1>1, <1>2, <1>3, <1>4
<1>6. Tail(name) = id
  <2>1. /\ Tail(name) \in Seq(Nat) /\ Len(Tail(name)) = Len(id)
        /\ \A i \in 1..Len(id) : Tail(name)[i] = name[i + 1]
    BY <1>1, <1>3, <1>4, HeadTailProperties
  <2>2. \A i \in 1..Len(id) : Tail(name)[i] = id[i]
    <3>1. ASSUME NEW i \in 1..Len(id) PROVE name[i + 1] = id[i]
      <4>1. i + 1 \in 1..(1 + Len(id)) /\ ~(i + 1 <= 1) /\ (i + 1) - 1 = i
        BY <1>1
      <4> QED
        BY <1>3, <4>1
    <3> QED
      BY <2>1, <3>1
  <2> QED
    BY <2>1, <2>2, SeqEqual
<1> QED
  BY <1>4, <1>5, <1>6

(* A prefixed name of a model the provider serves goes to those who serve it.         *)
Routed(name, s, p, id) ==
    /\ s # <<>>
    /\ ToSet(s) \subseteq Serving(config, id)
    /\ p \notin refused => s[1] = p /\ SentName(config, p, name) = config[p].models[id]

LEMMA PrefixedRoutes ==
  ASSUME IInv, NEW p \in Enabled(config), NEW id \in DOMAIN config[p].models,
         NEW name, name = <<p>> \o id, NEW s \in Orders(name)
  PROVE  Routed(name, s, p, id)
<1> DEFINE cands == Candidates(config, name, refused)
<1>1. p \in Nat /\ id \in Seq(Nat) /\ id # <<>>
  BY RoutingAssumption DEF IInv, Configuration, Enabled
<1>2. Len(name) > 1 /\ Head(name) = p /\ Tail(name) = id
  BY <1>1, PrefixedName
<1>3. p \in Serving(config, id)
  BY DEF Serving
<1>4. MatchProviders(config, name) = Serving(config, id)
  BY <1>2, <1>3 DEF MatchProviders
<1>5. /\ cands # {} /\ cands \in SUBSET Serving(config, id)
      /\ p \notin refused => p \in cands
  BY <1>3, <1>4, CandidatesFacts
<1> HIDE DEF cands
<1>6. Answers(config, server, name, cands, s)
  BY <1>5, OrdersAnswer DEF cands
<1>7. SentName(config, p, name) = config[p].models[id]
  BY <1>2 DEF SentName, StripPrefix
<1> QED
  BY <1>2, <1>5, <1>6, <1>7 DEF Answers, Routed

LEMMA ListedFollows ==
  ASSUME IInv
  PROVE  ListedNamesRoute
<1> SUFFICES ASSUME NEW name \in AllModels(config), NEW s \in Orders(name), Len(name) = 1 \/ Prefixed(name)
             PROVE  \E p \in Enabled(config) : \E id \in DOMAIN config[p].models :
                       /\ name \in {id, <<p>> \o id}
                       /\ s # <<>>
                       /\ ToSet(s) \subseteq Serving(config, id)
                       /\ p \notin refused => s[1] = p /\ SentName(config, p, name) = config[p].models[id]
  BY DEF ListedNamesRoute
<1>1. PICK q \in Enabled(config) : \E id \in DOMAIN config[q].models :
         name \in {<<q>> \o id} \cup (IF Serving(config, id) = {q} THEN {id} ELSE {})
  <2> DEFINE N(p, id) == {<<p>> \o id} \cup (IF Serving(config, id) = {p} THEN {id} ELSE {})
             U(p) == UNION {N(p, id) : id \in DOMAIN config[p].models}
  <2>1. name \in UNION {U(p) : p \in Enabled(config)}
    BY DEF AllModels
  <2> HIDE DEF U
  <2>2. PICK q \in Enabled(config) : name \in U(q)
    BY <2>1
  <2> HIDE DEF N
  <2>3. \E id \in DOMAIN config[q].models : name \in N(q, id)
    BY <2>2 DEF U
  <2> QED
    BY <2>3 DEF N
<1>2. PICK id \in DOMAIN config[q].models :
         name = <<q>> \o id \/ (Serving(config, id) = {q} /\ name = id)
  BY <1>1
<1>3. CASE name = <<q>> \o id
  <2>1. Routed(name, s, q, id)
    BY <1>3, PrefixedRoutes
  <2> QED
    BY <1>3, <2>1 DEF Routed
<1>4. CASE name = id /\ Serving(config, id) = {q} /\ Len(name) = 1
  <2> DEFINE cands == Candidates(config, name, refused)
  <2>1. MatchProviders(config, name) = {q}
    BY <1>4 DEF MatchProviders
  <2>2. cands = {q}
    BY <2>1, CandidatesFacts
  <2> HIDE DEF cands
  <2>3. Answers(config, server, name, cands, s)
    BY <2>2, OrdersAnswer DEF cands
  <2>4. s # <<>> /\ s[1] = q /\ ToSet(s) \subseteq {q}
    BY <2>2, <2>3 DEF Answers
  <2>5. SentName(config, q, name) = config[q].models[id]
    BY <1>4 DEF SentName, StripPrefix
  <2> QED
    BY <1>4, <2>4, <2>5
<1>5. CASE name = id /\ Prefixed(name)
  <2> DEFINE p == Head(name)
             rest == Tail(name)
  <2>1. p \in Enabled(config) /\ rest \in DOMAIN config[p].models
    BY <1>5 DEF Prefixed
  <2>2. name \in Seq(Nat) /\ name # <<>>
    BY <1>5, RoutingAssumption DEF IInv, Configuration, Enabled
  <2>3. name = <<p>> \o rest
    <3>1. /\ p \in Nat /\ rest \in Seq(Nat) /\ Len(rest) = Len(name) - 1 /\ Len(name) \in Nat
          /\ p = name[1] /\ \A i \in 1..Len(rest) : rest[i] = name[i + 1]
      BY <2>2, HeadTailProperties, LenProperties
    <3> HIDE DEF p, rest
    <3>2. /\ <<p>> \in Seq(Nat) /\ Len(<<p>>) = 1 /\ <<p>>[1] = p
      BY <3>1
    <3>3. /\ <<p>> \o rest \in Seq(Nat) /\ Len(<<p>> \o rest) = 1 + Len(rest)
          /\ \A i \in 1..(1 + Len(rest)) : (<<p>> \o rest)[i] = IF i <= 1 THEN <<p>>[i] ELSE rest[i - 1]
      BY <3>1, <3>2, ConcatProperties
    <3>4. ASSUME NEW i \in 1..Len(name) PROVE (<<p>> \o rest)[i] = name[i]
      <4>1. CASE i = 1
        BY <3>1, <3>2, <3>3, <4>1
      <4>2. CASE i # 1
        <5>1. i \in 1..(1 + Len(rest)) /\ ~(i <= 1) /\ i - 1 \in 1..Len(rest) /\ (i - 1) + 1 = i
          BY <3>1, <4>2
        <5> QED
          BY <3>1, <3>3, <5>1
      <4> QED
        BY <4>1, <4>2
    <3>5. Len(<<p>> \o rest) = Len(name)
      BY <3>1, <3>3
    <3> QED
      BY <2>2, <3>3, <3>4, <3>5, SeqEqual
  <2> HIDE DEF p, rest
  <2> QED
    <3>1. Routed(name, s, p, rest)
      BY <2>1, <2>3, PrefixedRoutes
    <3> QED
      BY <2>1, <2>3, <3>1 DEF Routed
<1> QED
  BY <1>2, <1>3, <1>4, <1>5

(* Every name /v1/models lists can be used (ids with a slash of their own only behind *)
(* a prefix): the providers that serve the model get it, the pinned one first, and it *)
(* is asked for the model by its upstream's name.                                     *)
THEOREM ListedNamesUsable == Spec => []ListedNamesRoute
  BY Invariant, ListedFollows, PTL

LEMMA RotatesFollows ==
  ASSUME IInv
  PROVE  Rotates
<1> DEFINE tier(name) == Tier(config, Candidates(config, name, refused))
<1> SUFFICES ASSUME NEW name \in Names,
                    server.strategy \in Counted, Len(name) = 1, Len(picks[name]) = Round(name),
                    Candidates(config, name, refused) # {}, NEW p \in tier(name)
             PROVE  Cardinality(Places(picks[name], p)) = Share(p)
  BY DEF Rotates, Candidates, Places
<1> DEFINE cands == Candidates(config, name, refused)
           T == Tier(config, cands)
           L == Turn(config, T, server.strategy)
           wheel == Wheel(config, T, server.strategy)
           c == rr[name]
           ps == picks[name]
<1>1. config \in Configs /\ server \in Servers /\ c \in 0..(Cycle - 1) /\ Configuration(config)
  BY RoutingAssumption DEF IInv
<1>2. T \in SUBSET DOMAIN config /\ T # {} /\ p \in T
  <2>1. cands \in SUBSET DOMAIN config /\ cands # {}
    BY CandidatesFacts DEF Enabled
  <2>2. T \in SUBSET cands /\ T # {}
    BY <1>1, <2>1, TierFacts
  <2> QED
    BY <2>1, <2>2
<1>3. Len(ps) = L
  BY DEF Round, Turn, Candidates
<1>4. \A k \in 0..(Len(ps) - 1) : ps[Len(ps) - k] = wheel[((c - 1 - k) % L) + 1]
  <2>1. Record(config, server, refused, c, ps, name)
    BY DEF IInv
  <2>2. ~(Len(name) > 1)
    OBVIOUS
  <2>3. OnWheel(config, server, refused, c, ps, name)
    BY <2>1, <2>2 DEF Record
  <2> QED
    BY <2>3 DEF OnWheel, Around
<1> HIDE DEF T, L, wheel, ps, c
<1>5. /\ Len(wheel) = L /\ L \in Nat \ {0}
      /\ IsFiniteSet(Places(wheel, p)) /\ Cardinality(Places(wheel, p)) = Share(p)
  BY <1>1, <1>2, WheelFacts DEF L, wheel, Share
<1>6. c \in Int
  BY <1>1
<1>7. Laid(ps, wheel, L, c)
  BY <1>3, <1>4, <1>5 DEF Laid
<1>8. Cardinality(Places(ps, p)) = Cardinality(Places(wheel, p))
  BY <1>5, <1>6, <1>7, RoundCounts
<1> QED
  BY <1>5, <1>8 DEF ps

(* The counted strategies rotate: in any full round of requests for a name, each      *)
(* provider of the best tier was first as often as its weight says, whatever was      *)
(* asked for in between.                                                              *)
THEOREM RotationFair == Spec => []Rotates
  BY Invariant, RotatesFollows, PTL
==================================================================================
