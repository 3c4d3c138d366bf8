-------------------------------- MODULE MCBreaker --------------------------------
(* Breaker with two providers, of which the second may be deleted.                  *)
EXTENDS Breaker

CONSTANTS p1, p2

MCProviders == {p1, p2}
MCRemovable == {p2}
==================================================================================
