---------------------------------- MODULE Breaker ----------------------------------
(* The circuit breaker of app/health.py as a component: the in-memory table _stats,  *)
(* its copy in SQLite (provider_stats), and the calls the rest of the program makes. *)
(* A call runs under _lock and never awaits, so it is one action.  Results may be    *)
(* recorded for any provider at any time: a request in flight keeps the provider it  *)
(* started with when the breaker opens or the provider is deleted.                   *)
EXTENDS ProviderStats

CONSTANTS Providers,       \* provider ids
          Removable,       \* providers an administrator may delete and create again
          Thresholds       \* values circuit_fail_threshold may be set to

ASSUME BreakerAssumption ==
    /\ Removable \subseteq Providers
    /\ Thresholds # {}
    /\ Thresholds \subseteq 1..FailCap

VARIABLES stats,       \* _stats: provider -> entry
          saved,       \* table provider_stats: provider -> row
          configured,  \* ids in config.providers
          threshold,   \* server.circuit_fail_threshold
          parted       \* history: providers whose row may not say what their entry says

vars == <<stats, saved, configured, threshold, parted>>

TypeOK ==
    /\ stats \in [Providers -> Stats]
    /\ saved \in [Providers -> Rows]
    /\ configured \subseteq Providers
    /\ threshold \in Thresholds
    /\ parted \subseteq Providers

Init ==
    /\ stats = [p \in Providers |-> Fresh]
    /\ saved = [p \in Providers |-> Row(Fresh)]
    /\ configured = Providers
    /\ threshold \in Thresholds
    /\ parted = {}
------------------------------------------------------------------------------------
(* A variant of Persist called before the entry is changed: it writes the old one.   *)
PersistEarly(p, s) ==
    /\ saved' = [saved EXCEPT ![p] = Row(stats[p])]
    /\ parted' = parted \ {p}

(* _persist: write the entry just computed; the exception of a database that cannot  *)
(* be written is swallowed and the old row stays.                                    *)
Persist(p, s) ==
    \/ /\ saved' = [saved EXCEPT ![p] = Row(s)]
       /\ parted' = parted \ {p}
    \/ /\ saved' = saved
       /\ parted' = parted \cup {p}

(* The router asks is_available of every candidate of one request.                   *)
Filter(S) ==
    /\ S \subseteq configured
    /\ stats' = [p \in Providers |-> IF p \in S THEN IsAvailable(stats[p]) ELSE stats[p]]
    /\ UNCHANGED <<saved, configured, threshold, parted>>

Success(p) ==
    LET s == RecordSuccess(stats[p])
    IN  /\ stats' = [stats EXCEPT ![p] = s]
        /\ Persist(p, s)
        /\ UNCHANGED <<configured, threshold>>

Failure(p) ==
    LET s == RecordFailure(stats[p], threshold)
    IN  /\ stats' = [stats EXCEPT ![p] = s]
        /\ Persist(p, s)
        /\ UNCHANGED <<configured, threshold>>

(* all_snapshots (/api/status, /api/health/providers) first drops the entries of     *)
(* providers that are no longer configured; their rows in SQLite stay.               *)
Prune ==
    /\ stats' = [p \in Providers |-> IF p \in configured THEN stats[p] ELSE Fresh]
    /\ parted' = parted \cup (Providers \ configured)
    /\ UNCHANGED <<saved, configured, threshold>>

(* The administrator deletes a provider, creates it again, changes the threshold.    *)
Delete(p) ==
    /\ p \in Removable \cap configured
    /\ configured' = configured \ {p}
    /\ UNCHANGED <<stats, saved, threshold, parted>>

Create(p) ==
    /\ p \notin configured
    /\ configured' = configured \cup {p}
    /\ UNCHANGED <<stats, saved, threshold, parted>>

SetThreshold(t) ==
    /\ threshold' = t
    /\ UNCHANGED <<stats, saved, configured, parted>>

(* The process dies and starts again: lifespan calls load_persisted.                 *)
Restart ==
    /\ stats' = [p \in Providers |-> Load(saved[p])]
    /\ parted' = {}
    /\ UNCHANGED <<saved, configured, threshold>>

(* The same when the table cannot be read: the exception is swallowed, the process   *)
(* starts without entries, and the rows stay as they are.                            *)
RestartBlind ==
    /\ stats' = [p \in Providers |-> Fresh]
    /\ parted' = Providers
    /\ UNCHANGED <<saved, configured, threshold>>

Tick ==
    /\ stats' = [p \in Providers |-> Older(stats[p])]
    /\ saved' = [p \in Providers |-> Older(saved[p])]
    /\ UNCHANGED <<configured, threshold, parted>>

Next ==
    \/ \E S \in SUBSET Providers : Filter(S)
    \/ \E p \in Providers : Success(p)
    \/ \E p \in Providers : Failure(p)
    \/ Prune
    \/ \E p \in Providers : Delete(p)
    \/ \E p \in Providers : Create(p)
    \/ \E t \in Thresholds : SetThreshold(t)
    \/ Restart
    \/ RestartBlind
    \/ Tick

Spec == Init /\ [][Next]_vars

(* Traffic keeps coming for every configured provider, and time passes.              *)
FairSpec ==
    /\ Spec
    /\ WF_vars(Tick)
    /\ \A p \in Providers : WF_vars(\E S \in SUBSET Providers : p \in S /\ Filter(S))
------------------------------------------------------------------------------------
(* A closed entry has no opened_at, holds no probe and has fewer failures than the   *)
(* largest threshold in use (a threshold lowered since is looked at again only at    *)
(* the next failure); an open one knows when it opened and holds no probe; half open *)
(* is reached only when the whole cooldown has passed since the last failure,        *)
(* whatever stale results, threshold changes, deletions and restarts came between.   *)
StatsConsistent == \A p \in Providers : Consistent(stats[p])

(* No row ever holds half_open (load_persisted's conversion meets no such row), and  *)
(* a row says open only with its opened_at, closed only without one.                 *)
RowsConsistent == \A p \in Providers : ConsistentRow(saved[p])

(* A restart that can read the table neither closes a circuit nor trips one, loses   *)
(* no consecutive failure and keeps the time it opened; the half-open probe alone is *)
(* given up.  Left out are the providers whose row could not be written, whose entry *)
(* was pruned, or that have had no result since a restart could not read the table:  *)
(* such a restart (RestartBlind) is the other exception, it closes every circuit.    *)
RestartKeepsCircuit ==
    [][Restart => \A p \in Providers \ parted : SameCircuit(stats[p], stats'[p])]_vars

(* A provider that stays configured and stops failing does not stay open: the next   *)
(* request after the cooldown half-opens it, across any number of restarts.          *)
QuietRecovers ==
    \A p \in Providers :
        (<>[](p \in configured) /\ <>[][~Failure(p)]_vars) => []<>(stats[p].state # "open")
====================================================================================
