--------------------------------- MODULE AccessLog -------------------------------
(* The logs table of app/access_log.py: how many rows it has, and how many this       *)
(* process has inserted since it last looked whether there are too many.  Which rows  *)
(* go (those with the least time stamps) is left out.                                 *)
EXTENDS Naturals

CONSTANTS Interval,  \* _CLEANUP_INTERVAL
          Retains,   \* the values server.log_retain takes
          RowCap     \* rows are counted up to here: so many are too many by any setting

Limit(keep) == (6 * keep) \div 5

ASSUME LogAssumption ==
    /\ Interval \in Nat \ {0}
    /\ Retains \subseteq Nat \ {0}
    /\ RowCap \in Nat
    /\ \A keep \in Retains : Limit(keep) + Interval <= RowCap

VARIABLES rows,  \* rows of the table, in SQLite
          since  \* _since_cleanup, in memory

logVars == <<rows, since>>

LogInit == rows = 0 /\ since = 0

LogTypeOK == rows \in 0..RowCap /\ since \in 0..(Interval - 1)

Grown(n) == IF n < RowCap THEN n + 1 ELSE n

(* A variant of Trimmed that compares before the row is counted.                      *)
TrimmedLate(n, keep) == IF n > Limit(keep) + 1 THEN keep ELSE n

(* More than keep * 1.2 rows are reduced to keep.                                     *)
Trimmed(n, keep) == IF n > Limit(keep) THEN keep ELSE n


AddLooksLate(keep) ==
    IF since + 1 > Interval
    THEN rows' = Trimmed(Grown(rows), keep) /\ since' = 0
    ELSE rows' = Grown(rows) /\ since' = since + 1

Add(keep) ==
    IF since + 1 >= Interval
    THEN rows' = Trimmed(Grown(rows), keep) /\ since' = 0
    ELSE rows' = Grown(rows) /\ since' = since + 1

(* SQLite raises in the insert or its commit: no row is counted, though one that was  *)
(* not committed comes in with the next commit of the connection.                     *)
AddLost ==
    /\ rows' \in {rows, Grown(rows)}
    /\ UNCHANGED since

(* It raises in the clean-up, when the counter has started again.                     *)
AddUncleaned ==
    /\ since + 1 >= Interval
    /\ rows' = Grown(rows)
    /\ since' = 0

Clear == rows' = 0 /\ UNCHANGED since

(* A process starts: the rows are there, the counter is at zero.                      *)
Open == since' = 0 /\ UNCHANGED rows
==================================================================================
