-------------------------------- MODULE MCGateway --------------------------------
(* Gateway with two interchangeable providers and interchangeable request slots.    *)
EXTENDS Gateway, TLC

CONSTANTS p1, p2

MCProviders == {p1, p2}
Alike == Permutations(Requests) \cup Permutations(Providers)

(* One model served by both providers, and one that nothing serves.                 *)
MCRoutes == {{p1, p2}, {}}
(* One model served by both providers.                                              *)
SharedRoute == {{p1, p2}}
==================================================================================
