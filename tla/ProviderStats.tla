------------------------------ MODULE ProviderStats ------------------------------
(* One provider's health entry (app/health.py, ProviderStats) and what each call    *)
(* on it returns and changes, as operators on a record.  Breaker and Gateway keep   *)
(* one record per provider and change it only through these operators.              *)
(*                                                                                  *)
(* opened_at is kept as its age: time.time() - opened_at, saturated at Cooldown     *)
(* (the code only compares that difference with cooldown_s), and NotOpened for      *)
(* None.  consecutive_failures saturates at FailCap, the largest threshold in use,  *)
(* because the code only compares it with the threshold.  Latency, token, cost and  *)
(* success/failure totals feed the ordering strategies and the UI, not the breaker. *)
(* _get creates an entry on first use: an absent entry is the record Fresh.         *)
EXTENDS Integers

CONSTANTS Cooldown,   \* circuit_cooldown_s, in ticks
          FailCap     \* bound: largest circuit_fail_threshold in use

ASSUME StatsAssumption ==
    /\ Cooldown \in Nat \ {0}
    /\ FailCap \in Nat \ {0}

States == {"closed", "open", "half_open"}
NotOpened == -1

Stats == [state : States, fails : 0..FailCap, age : NotOpened..Cooldown, probe : BOOLEAN]
Rows  == [state : States, fails : 0..FailCap, age : NotOpened..Cooldown]

Fresh == [state |-> "closed", fails |-> 0, age |-> NotOpened, probe |-> FALSE]
----------------------------------------------------------------------------------
(* _maybe_half_open: an open entry whose cooldown has passed becomes half open.     *)
CooledDown(s) == s.age = NotOpened \/ s.age >= Cooldown

MaybeHalfOpen(s) ==
    IF s.state = "open" /\ CooledDown(s)
    THEN [state |-> "half_open", fails |-> s.fails, age |-> s.age, probe |-> FALSE]
    ELSE s

(* is_available for an enabled provider: the answer, and the entry it leaves.       *)
Grants(s) ==
    LET h == MaybeHalfOpen(s)
    IN  h.state = "closed" \/ (h.state = "half_open" /\ ~h.probe)

IsAvailable(s) ==
    LET h == MaybeHalfOpen(s)
    IN  IF h.state = "half_open" THEN [h EXCEPT !.probe = TRUE] ELSE h

(* A variant of RecordSuccess that leaves opened_at as it was.                      *)
RecordSuccessKeepsOpenedAt(s) ==
    [state |-> "closed", fails |-> 0, age |-> s.age, probe |-> FALSE]

RecordSuccess(s) ==
    [state |-> "closed", fails |-> 0, age |-> NotOpened, probe |-> FALSE]

RecordFailure(s, threshold) ==
    LET n == IF s.fails < FailCap THEN s.fails + 1 ELSE FailCap
    IN  IF s.state = "half_open" \/ n >= threshold
        THEN [state |-> "open", fails |-> n, age |-> 0, probe |-> FALSE]
        ELSE [state |-> s.state, fails |-> n, age |-> s.age, probe |-> FALSE]

(* The row _persist writes: all but the probe.                                      *)
Row(s) == [state |-> s.state, fails |-> s.fails, age |-> s.age]

(* Variants of Load: the row itself becomes the entry; the consecutive failures are *)
(* not read back; the time the circuit opened becomes the time of the restart.      *)
LoadRaw(row) == row

LoadForgetsFailures(row) ==
    [state |-> row.state, fails |-> 0, age |-> row.age, probe |-> FALSE]

LoadRestamps(row) ==
    [state |-> row.state, fails |-> row.fails,
     age |-> IF row.age = NotOpened THEN NotOpened ELSE 0, probe |-> FALSE]

(* The entry load_persisted makes of a row.                                         *)
Load(row) ==
    [state |-> IF row.state = "half_open" THEN "open" ELSE row.state,
     fails |-> row.fails, age |-> row.age, probe |-> FALSE]

(* One tick of the wall clock, seen by an entry or a row.                           *)
Older(s) ==
    IF s.age # NotOpened /\ s.age < Cooldown THEN [s EXCEPT !.age = @ + 1] ELSE s
----------------------------------------------------------------------------------
(* How the fields of an entry, and of a row, fit together (see StatsConsistent and  *)
(* RowsConsistent in Breaker).                                                      *)
Consistent(s) ==
    /\ s.state = "closed" => s.age = NotOpened /\ s.probe = FALSE /\ s.fails < FailCap
    /\ s.state = "open" => s.age # NotOpened /\ s.probe = FALSE
    /\ s.state = "half_open" => s.age = Cooldown

ConsistentRow(row) ==
    /\ row.state # "half_open"
    /\ row.state = "closed" => row.age = NotOpened /\ row.fails < FailCap
    /\ row.state = "open" => row.age # NotOpened

(* The same circuit, as far as the router can tell after a restart.                 *)
SameCircuit(s, t) ==
    /\ (s.state = "closed") = (t.state = "closed")
    /\ s.fails = t.fails
    /\ s.age = t.age
==================================================================================
