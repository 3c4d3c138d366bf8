------------------------------ MODULE Breaker_proofs ------------------------------
(* Safety of the circuit breaker, for any set of providers, any cooldown, any         *)
(* thresholds and any set of providers that come and go.                              *)
(*                                                                                    *)
(* The inductive invariant says that every entry and row is good, and that a row      *)
(* agrees with its entry unless it could not be written or read or the entry was      *)
(* pruned: without the last conjunct nothing relates the row a restart loads to the   *)
(* memory it replaces.                                                                *)
EXTENDS Breaker, ProviderStats_proofs

IInv ==
    /\ TypeOK
    /\ \A p \in Providers : GoodEntry(stats[p]) /\ GoodRow(saved[p])
    /\ \A p \in Providers \ parted : SameCircuit(saved[p], stats[p])

LEMMA InitIInv == Init => IInv
<1> SUFFICES ASSUME Init PROVE IInv
  OBVIOUS
<1>1. TypeOK
  BY FreshGood DEF Init, TypeOK, GoodEntry, GoodRow
<1>2. \A p \in Providers : GoodEntry(stats[p]) /\ GoodRow(saved[p])
  BY FreshGood DEF Init
<1>3. \A p \in Providers : SameCircuit(saved[p], stats[p])
  BY FreshGood, SameCircuitKept DEF Init, GoodEntry
<1>4. QED
  BY <1>1, <1>2, <1>3 DEF IInv

(* A recorded result: the entry becomes s, and the row is written or not.             *)
LEMMA RecordKeeps ==
  ASSUME IInv, NEW p \in Providers, NEW s, GoodEntry(s), GoodRow(Row(s)),
         stats' = [stats EXCEPT ![p] = s], Persist(p, s),
         UNCHANGED <<configured, threshold>>
  PROVE  IInv'
<1>1. TypeOK'
  BY DEF IInv, TypeOK, GoodEntry, GoodRow, Persist
<1>2. \A q \in Providers : GoodEntry(stats'[q]) /\ GoodRow(saved'[q])
  BY DEF IInv, TypeOK, Persist
<1>3. ASSUME NEW q \in Providers \ parted'
      PROVE  SameCircuit(saved'[q], stats'[q])
  <2>1. CASE q = p
    <3>1. saved' = [saved EXCEPT ![p] = Row(s)]
      BY <2>1, <1>3 DEF Persist
    <3>2. QED
      BY <3>1, <2>1, SameCircuitKept DEF IInv, TypeOK, GoodEntry
  <2>2. CASE q # p
    BY <2>2 DEF IInv, TypeOK, Persist
  <2>3. QED
    BY <2>1, <2>2
<1>4. QED
  BY <1>1, <1>2, <1>3 DEF IInv

LEMMA NextIInv == IInv /\ [Next]_vars => IInv'
<1> SUFFICES ASSUME IInv, [Next]_vars PROVE IInv'
  OBVIOUS
<1> USE DEF IInv, TypeOK
<1>1. ASSUME NEW S \in SUBSET Providers, Filter(S) PROVE IInv'
  <2>1. \A p \in Providers :
           /\ GoodEntry(stats'[p])
           /\ SameCircuit(saved[p], stats[p]) => SameCircuit(saved[p], stats'[p])
    BY <1>1, IsAvailableGood, SameCircuitKept DEF Filter
  <2>2. QED
    BY <1>1, <2>1 DEF Filter, GoodEntry
<1>2. ASSUME NEW p \in Providers, Success(p) PROVE IInv'
  BY <1>2, RecordSuccessGood, RecordKeeps DEF Success
<1>3. ASSUME NEW p \in Providers, Failure(p) PROVE IInv'
  BY <1>3, BreakerAssumption, RecordFailureGood, RecordKeeps DEF Failure
<1>4. CASE Prune
  BY <1>4, FreshGood DEF Prune, GoodEntry
<1>5. ASSUME NEW p \in Providers, Delete(p) PROVE IInv'
  BY <1>5 DEF Delete
<1>6. ASSUME NEW p \in Providers, Create(p) PROVE IInv'
  BY <1>6 DEF Create
<1>7. ASSUME NEW t \in Thresholds, SetThreshold(t) PROVE IInv'
  BY <1>7 DEF SetThreshold
<1>8. CASE Restart
  <2>1. \A p \in Providers : GoodEntry(stats'[p]) /\ SameCircuit(saved[p], stats'[p])
    BY <1>8, LoadGood DEF Restart
  <2>2. QED
    BY <1>8, <2>1 DEF Restart, GoodEntry
<1>9. CASE RestartBlind
  BY <1>9, FreshGood DEF RestartBlind, GoodEntry
<1>10. CASE Tick
  <2>1. \A p \in Providers : GoodEntry(stats'[p]) /\ GoodRow(saved'[p])
    BY <1>10, OlderGood DEF Tick
  <2>2. \A p \in Providers \ parted : SameCircuit(saved'[p], stats'[p])
    BY <1>10, SameCircuitKept DEF Tick, GoodEntry, GoodRow
  <2>3. QED
    BY <1>10, <2>1, <2>2 DEF Tick, GoodEntry, GoodRow
<1>11. CASE UNCHANGED vars
  BY <1>11 DEF vars
<1>12. QED
  BY <1>1, <1>2, <1>3, <1>4, <1>5, <1>6, <1>7, <1>8, <1>9, <1>10, <1>11 DEF Next

LEMMA Inductive == Spec => []IInv
  BY InitIInv, NextIInv, PTL DEF Spec

(* The tables keep their types.                                                       *)
THEOREM TypeCorrect == Spec => []TypeOK
<1>1. IInv => TypeOK
  BY DEF IInv
<1>2. QED
  BY <1>1, Inductive, PTL

(* Every entry stays consistent: closed below the largest threshold and without       *)
(* opened_at, half open only after a whole cooldown, a probe only when half open.     *)
THEOREM EntriesConsistent == Spec => []StatsConsistent
<1>1. IInv => StatsConsistent
  BY DEF IInv, StatsConsistent, GoodEntry
<1>2. QED
  BY <1>1, Inductive, PTL

(* No row says half_open, and an open one has its opened_at.                          *)
THEOREM PersistedConsistent == Spec => []RowsConsistent
<1>1. IInv => RowsConsistent
  BY DEF IInv, RowsConsistent, GoodRow
<1>2. QED
  BY <1>1, Inductive, PTL

(* A restart that can read the table keeps the circuit of every provider but those    *)
(* whose row could not be written, whose entry was pruned, or that have had no result *)
(* since a restart that could not.                                                    *)
THEOREM RestartSafe == Spec => RestartKeepsCircuit
<1>1. ASSUME IInv, Restart, NEW p \in Providers \ parted
      PROVE  SameCircuit(stats[p], stats'[p])
  <2>1. SameCircuit(saved[p], stats[p]) /\ SameCircuit(saved[p], stats'[p])
    BY <1>1, LoadGood DEF IInv, Restart
  <2>2. QED
    BY <2>1 DEF SameCircuit
<1>2. IInv /\ [Next]_vars =>
         [Restart => \A p \in Providers \ parted :
                         SameCircuit(stats[p], stats'[p])]_vars
  BY <1>1
<1>3. QED
  BY <1>2, Inductive, PTL DEF Spec, RestartKeepsCircuit
==================================================================================
