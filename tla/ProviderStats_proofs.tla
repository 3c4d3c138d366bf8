--------------------------- MODULE ProviderStats_proofs ---------------------------
(* What the operators on a health entry preserve: its type, and the consistency of   *)
(* its fields (Breaker's StatsConsistent and RowsConsistent, entry by entry).         *)
EXTENDS ProviderStats, TLAPS

GoodEntry(s) == s \in Stats /\ Consistent(s)
GoodRow(row) == row \in Rows /\ ConsistentRow(row)

(* A new entry, and its row, are good.                                                *)
LEMMA FreshGood == GoodEntry(Fresh) /\ GoodRow(Row(Fresh))
  BY StatsAssumption DEF GoodEntry, GoodRow, Consistent, ConsistentRow, Fresh, Row, Stats, Rows, States, NotOpened

(* is_available keeps an entry good: it half-opens only after the whole cooldown.     *)
LEMMA IsAvailableGood ==
  ASSUME NEW s, GoodEntry(s)
  PROVE  GoodEntry(IsAvailable(s))
<1>1. GoodEntry(MaybeHalfOpen(s))
  BY StatsAssumption
     DEF GoodEntry, Consistent, MaybeHalfOpen, CooledDown, Stats, States, NotOpened
<1>2. QED
  BY <1>1, StatsAssumption DEF GoodEntry, Consistent, IsAvailable, Stats, States, NotOpened

(* record_success closes an entry and clears every trace of the opening.              *)
LEMMA RecordSuccessGood ==
  ASSUME NEW s, GoodEntry(s)
  PROVE  /\ GoodEntry(RecordSuccess(s))
         /\ GoodRow(Row(RecordSuccess(s)))
  BY StatsAssumption
     DEF GoodEntry, GoodRow, Consistent, ConsistentRow, RecordSuccess, Row, Stats, Rows, States, NotOpened

(* record_failure leaves an entry closed only below the threshold, else open; never   *)
(* half open.                                                                         *)
LEMMA RecordFailureGood ==
  ASSUME NEW s, GoodEntry(s), NEW t \in 1..FailCap
  PROVE  /\ GoodEntry(RecordFailure(s, t))
         /\ GoodRow(Row(RecordFailure(s, t)))
  BY StatsAssumption
     DEF GoodEntry, GoodRow, Consistent, ConsistentRow, RecordFailure, Row, Stats, Rows, States, NotOpened

(* load_persisted makes a good entry of a good row, with the same circuit.            *)
LEMMA LoadGood ==
  ASSUME NEW row, GoodRow(row)
  PROVE  GoodEntry(Load(row)) /\ SameCircuit(row, Load(row))
  BY StatsAssumption DEF GoodEntry, GoodRow, Consistent, ConsistentRow, SameCircuit, Load, Stats, Rows, States, NotOpened

(* Time keeps entries and rows good.                                                  *)
LEMMA OlderGood ==
  ASSUME NEW s
  PROVE  /\ GoodEntry(s) => GoodEntry(Older(s))
         /\ GoodRow(s) => GoodRow(Older(s))
<1>1. ASSUME GoodEntry(s) PROVE GoodEntry(Older(s))
  BY <1>1, StatsAssumption DEF GoodEntry, Consistent, Older, Stats, States, NotOpened
<1>2. ASSUME GoodRow(s) PROVE GoodRow(Older(s))
  BY <1>2, StatsAssumption DEF GoodRow, ConsistentRow, Older, Rows, States, NotOpened
<1>3. QED
  BY <1>1, <1>2

(* The circuit of an entry is the circuit of its row, and both age alike.             *)
LEMMA SameCircuitKept ==
  ASSUME NEW s \in Stats, NEW t
  PROVE  /\ SameCircuit(Row(s), s)
         /\ t \in Rows /\ SameCircuit(t, s) => SameCircuit(Older(t), Older(s))
         /\ SameCircuit(t, s) => SameCircuit(t, IsAvailable(s))
<1>1. SameCircuit(Row(s), s)
  BY DEF SameCircuit, Row
<1>2. ASSUME t \in Rows, SameCircuit(t, s) PROVE SameCircuit(Older(t), Older(s))
  BY <1>2, StatsAssumption DEF SameCircuit, Older, Stats, Rows, NotOpened
<1>3. ASSUME SameCircuit(t, s) PROVE SameCircuit(t, IsAvailable(s))
  BY <1>3 DEF SameCircuit, IsAvailable, MaybeHalfOpen, Stats
<1>4. QED
  BY <1>1, <1>2, <1>3
==================================================================================
