---------------------------------- MODULE Routing --------------------------------
(* The router over time: requests for any name, circuits that open and close, and an  *)
(* administrator who changes settings.  Each call of resolve_providers is one step:   *)
(* it does not await, and its counters are under a lock.                              *)
EXTENDS Router

CONSTANTS Names,     \* model names clients ask for
          Configs,   \* configurations
          Measures,  \* values of latency, score or cost, for each provider
          Cycle      \* a multiple of every length a counter is reduced by

Weights(cfg) == [p \in DOMAIN cfg |-> cfg[p].weight]

(* What a configuration is: validate_weight makes every weight at least 1.            *)
Configuration(cfg) ==
    /\ IsFiniteSet(DOMAIN cfg) /\ DOMAIN cfg \subseteq Nat
    /\ \A p \in DOMAIN cfg : /\ cfg[p].enabled \in BOOLEAN
                             /\ cfg[p].priority \in Int
                             /\ cfg[p].weight \in Nat \ {0}
                             /\ DOMAIN cfg[p].models \subseteq Seq(Nat) \ {<<>>}

ASSUME RoutingAssumption ==
    /\ Names \subseteq Seq(Nat) \ {<<>>}
    /\ \A cfg \in Configs : Configuration(cfg)
    /\ \A cfg \in Configs, mm \in Measures : \A p \in DOMAIN cfg : mm[p] \in Int
    /\ Cycle \in Nat \ {0}
    /\ \A cfg \in Configs : \A cands \in SUBSET DOMAIN cfg :
          cands # {} =>
              /\ Cycle % Cardinality(Tier(cfg, cands)) = 0
              /\ Cycle % SumFunctionOnSet(Weights(cfg), Tier(cfg, cands)) = 0

VARIABLES config,   \* config_manager.config.providers
          server,   \* the settings of the router
          refused,  \* the providers whose circuit is_available would refuse
          measure,  \* what the measured strategies sort by
          rr,       \* _rr: counter of each name, modulo Cycle
          picks     \* the first candidates of the last requests for each name since
                    \* the router's inputs last changed; history

vars == <<config, server, refused, measure, rr, picks>>

Providers(cfg) == DOMAIN cfg
Servers == [strategy : Strategies, failover : BOOLEAN]

Resolve(name) == Resolved(config, server, name, refused, rr[name], measure)

(* The picks in which every candidate of a name must have had its share.              *)
Round(name) ==
    LET tier == Tier(config, FilterCircuit(MatchProviders(config, name), refused))
    IN  IF server.strategy = "weighted" THEN SumFunctionOnSet(Weights(config), tier)
        ELSE Cardinality(tier)

LastOf(s, n) == IF Len(s) <= n THEN s ELSE SubSeq(s, Len(s) - n + 1, Len(s))

Fresh == picks' = [name \in Names |-> <<>>]

Init ==
    /\ config \in Configs
    /\ server \in Servers
    /\ refused = {}
    /\ measure \in Measures
    /\ rr = [name \in Names |-> 0]
    /\ picks = [name \in Names |-> <<>>]

(* A variant of Counter with one counter for all names.                               *)
CounterShared(name) == [m \in Names |-> (rr[m] + 1) % Cycle]

Counter(name) ==
    IF server.strategy \in Counted /\ MatchProviders(config, name) # {}
    THEN [rr EXCEPT ![name] = (@ + 1) % Cycle]
    ELSE rr

(* A request, a count_tokens call, or a playground request.                           *)
Ask(name) ==
    /\ picks' = IF server.strategy \in Counted /\ Resolve(name) # <<>>
                THEN [picks EXCEPT ![name] = LastOf(Append(@, Resolve(name)[1]), Round(name))]
                ELSE picks
    /\ rr' = Counter(name)
    /\ UNCHANGED <<config, server, refused, measure>>

(* Circuits open and close, latencies and scores change.                              *)
Health(S, mm) ==
    /\ <<S, mm>> # <<refused, measure>>
    /\ refused' = S
    /\ measure' = mm
    /\ Fresh
    /\ UNCHANGED <<config, server, rr>>

UpdateServer(s) ==
    /\ server' = s
    /\ s # server
    /\ Fresh
    /\ UNCHANGED <<config, refused, measure, rr>>

ReplaceProviders(cfg) ==
    /\ cfg # config
    /\ config' = cfg
    /\ Fresh
    /\ UNCHANGED <<server, refused, measure, rr>>

Restart ==
    /\ rr' = [name \in Names |-> 0]
    /\ Fresh
    /\ UNCHANGED <<config, server, refused, measure>>

Next ==
    \/ \E name \in Names : Ask(name)
    \/ \E S \in SUBSET Providers(config), mm \in Measures : Health(S, mm)
    \/ \E s \in Servers : UpdateServer(s)
    \/ \E cfg \in Configs : ReplaceProviders(cfg)
    \/ Restart

Spec == Init /\ [][Next]_vars
------------------------------------------------------------------------------------
(* What a request for any name would get now, with any value of its counter.          *)
Orders(name) == {Resolved(config, server, name, refused, n, measure) : n \in 0..(Cycle - 1)}

Asked == Names \cup AllModels(config)

(* Candidates are enabled providers, none twice.                                      *)
TypeOK ==
    /\ config \in Configs /\ server \in Servers
    /\ refused \subseteq UNION {Providers(cfg) : cfg \in Configs} /\ measure \in Measures
    /\ rr \in [Names -> 0..(Cycle - 1)]
    /\ \A name \in Names : picks[name] \in Seq(Enabled(config)) /\ Len(picks[name]) <= Round(name)
    /\ \A name \in Asked : \A s \in Orders(name) :
          ToSet(s) \subseteq Enabled(config) /\ IsInjective(s)

(* Every name /v1/models lists can be used: only providers that serve the model get   *)
(* it, the provider of a prefixed name first unless its circuit refuses it, and the   *)
(* first is asked for the model by its upstream's name.  Ids with a slash of their    *)
(* own work only behind a prefix, or as the prefixed name of another provider's model.*)
Prefixed(name) ==
    Len(name) > 1 /\ Head(name) \in Enabled(config) /\ Tail(name) \in DOMAIN config[Head(name)].models

ListedNamesRoute ==
    \A name \in AllModels(config) : \A s \in Orders(name) :
        Len(name) = 1 \/ Prefixed(name) =>
            \E p \in Enabled(config) : \E id \in DOMAIN config[p].models :
                /\ name \in {id, <<p>> \o id}
                /\ s # <<>>
                /\ ToSet(s) \subseteq Serving(config, id)
                /\ p \notin refused => s[1] = p /\ SentName(config, p, name) = config[p].models[id]

(* Failover reaches everyone who serves a model and is not refused, and nobody who is *)
(* refused while another is left; a model someone serves always has a candidate.      *)
NoneLeftOut ==
    \A p \in Enabled(config) : \A id \in DOMAIN config[p].models : \A s \in Orders(id) :
        Len(id) = 1 =>
            /\ s # <<>>
            /\ server.failover => p \in ToSet(s) \cup refused
            /\ ToSet(s) \cap refused # {} => Serving(config, id) \subseteq refused

(* The strategy never lets a worse priority go before a better one; only a prefix     *)
(* does.                                                                              *)
TiersInOrder ==
    \A name \in Asked : \A s \in Orders(name) : \A i, j \in 1..Len(s) :
        i < j /\ config[s[i]].priority > config[s[j]].priority => i = 1 /\ Head(name) = s[1] /\ Len(name) > 1

(* "Even rotation within a tier", "Weighted by weight" (README.en.md): while nothing  *)
(* else changes, any full round of requests for a name comes first to each provider   *)
(* of the tier as often as its weight says, whatever is asked for in between.         *)
Share(p) == IF server.strategy = "weighted" THEN config[p].weight ELSE 1

Rotates ==
    \A name \in Names :
        LET cands == FilterCircuit(MatchProviders(config, name), refused)
        IN  server.strategy \in Counted /\ Len(name) = 1 /\ Len(picks[name]) = Round(name) /\ cands # {} =>
                \A p \in Tier(config, cands) :
                    Cardinality({i \in 1..Len(picks[name]) : picks[name][i] = p}) = Share(p)

(* "providers sharing a model automatically form a failover pool", "models[].upstream_id *)
(* maps the client id to the real upstream model name" (README.en.md): every candidate   *)
(* of a name that is listed is asked for the model by the name its upstream knows.       *)
PoolKnowsName ==
    \A p \in Providers(config) : \A id \in DOMAIN config[p].models :
        <<p>> \o id \in AllModels(config) =>
            \A s \in Orders(<<p>> \o id) : \A q \in ToSet(s) \cap Serving(config, id) :
                SentName(config, q, <<p>> \o id) = config[q].models[id]
==================================================================================
