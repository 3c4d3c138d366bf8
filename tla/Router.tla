---------------------------------- MODULE Router ---------------------------------
(* Who is asked for a model, in which order, and under which name: app/router.py and  *)
(* the naming of models in app/config.py and app/server.py.                           *)
(*                                                                                    *)
(* A provider is a natural number, its place in the alphabetical order of ids.  A     *)
(* model name is the sequence of its parts between slashes: <<p, m>> is "p/m".  A     *)
(* configuration maps each provider to [enabled, priority, weight, models], where     *)
(* models maps the ids clients use to the upstream's (ModelInfo.upstream_id).         *)
EXTENDS Integers, Sequences, FiniteSets, SequencesExt, FiniteSetsExt

Enabled(cfg) == {p \in DOMAIN cfg : cfg[p].enabled}

Serving(cfg, id) == {p \in Enabled(cfg) : id \in DOMAIN cfg[p].models}

(* A name with a slash pins the provider before it, whatever that provider serves.    *)
MatchProviders(cfg, name) ==
    IF Len(name) > 1
    THEN (Enabled(cfg) \cap {Head(name)}) \cup Serving(cfg, Tail(name))
    ELSE IF Serving(cfg, name) = {} /\ Cardinality(Enabled(cfg)) = 1
         THEN Enabled(cfg)
         ELSE Serving(cfg, name)

(* A variant of FilterCircuit that drops the refused providers in any case.          *)
FilterStrict(cands, refused) == cands \ refused

(* _filter_circuit: if every circuit refuses, the candidates are tried all the same.  *)
FilterCircuit(cands, refused) == IF cands \subseteq refused THEN cands ELSE cands \ refused

(* The order of S by key; ids decide between equals.                                  *)
Before(key, S) ==
    {e \in S \X S : key[e[1]] < key[e[2]] \/ (key[e[1]] = key[e[2]] /\ e[1] < e[2])}

Ascending(S, key) ==
    CHOOSE s \in SetToSeqs(S) : \A i, j \in DOMAIN s : i < j => <<s[i], s[j]>> \in Before(key, S)

Rotated(s, n) ==
    LET k == n % Len(s) IN SubSeq(s, k + 1, Len(s)) \o SubSeq(s, 1, k)

(* The list where each provider stands `weight` times, and the n-th of it.            *)
Expanded(cfg, head) ==
    FlattenSeq([i \in 1..Len(head) |-> [j \in 1..cfg[head[i]].weight |-> head[i]]])

Drawn(cfg, head, n) ==
    LET expanded == Expanded(cfg, head) IN expanded[(n % Len(expanded)) + 1]

(* A variant of First that leaves the provider in its old place as well.              *)
FirstAndAgain(p, s) == <<p>> \o s

First(p, s) ==
    LET k == CHOOSE i \in 1..Len(s) : s[i] = p IN <<s[k]>> \o RemoveAt(s, k)

Counted == {"round_robin", "weighted"}
Strategies == {"priority", "measured"} \cup Counted   \* "measured": latency, health, cost

Tier(cfg, cands) ==
    {p \in cands : \A q \in cands : cfg[p].priority <= cfg[q].priority}

Priorities(cfg) == [p \in DOMAIN cfg |-> cfg[p].priority]

(* What the strategy makes of the best tier.  n: the counter; measure: what           *)
(* latency_ms, score or _cost_of would sort by.                                       *)
TierOrder(cfg, tier, strategy, n, measure) ==
    LET best == Ascending(tier, Priorities(cfg))
    IN  CASE strategy = "priority"    -> best
          [] strategy = "measured"    -> Ascending(tier, measure)
          [] strategy = "round_robin" -> Rotated(best, n)
          [] strategy = "weighted"    -> First(Drawn(cfg, best, n), best)

(* A variant of Order that lets the strategy decide over all tiers.                    *)
OrderFlat(cfg, cands, strategy, n, measure) ==
    IF cands = {} THEN <<>> ELSE TierOrder(cfg, cands, strategy, n, measure)

(* _order: only the best tier depends on the strategy.                                *)
Order(cfg, cands, strategy, n, measure) ==
    IF cands = {} THEN <<>>
    ELSE TierOrder(cfg, Tier(cfg, cands), strategy, n, measure)
            \o Ascending(cands \ Tier(cfg, cands), Priorities(cfg))

PinnedFirst(order, name) ==
    IF Len(name) > 1 /\ Head(name) \in ToSet(order) THEN First(Head(name), order) ELSE order

(* resolve_providers                                                                  *)
Resolved(cfg, server, name, refused, n, measure) ==
    LET cands == FilterCircuit(MatchProviders(cfg, name), refused)
        order == PinnedFirst(Order(cfg, cands, server.strategy, n, measure), name)
    IN  IF server.failover \/ order = <<>> THEN order ELSE <<order[1]>>

(* A variant of AllModels that lists disabled providers too.                          *)
AllModelsDisabled(cfg) ==
    UNION {UNION {{<<p>> \o id} \cup (IF Serving(cfg, id) \subseteq {p} THEN {id} ELSE {})
                     : id \in DOMAIN cfg[p].models} : p \in DOMAIN cfg}

(* all_models: the names /v1/models lists.                                            *)
AllModels(cfg) ==
    UNION {UNION {{<<p>> \o id} \cup (IF Serving(cfg, id) = {p} THEN {id} ELSE {})
                     : id \in DOMAIN cfg[p].models} : p \in Enabled(cfg)}

(* _strip_provider_prefix, upstream_model_id                                          *)
StripPrefix(name, p) == IF Len(name) > 1 /\ Head(name) = p THEN Tail(name) ELSE name

SentName(cfg, p, name) ==
    LET id == StripPrefix(name, p)
    IN  IF id \in DOMAIN cfg[p].models THEN cfg[p].models[id] ELSE id
==================================================================================
