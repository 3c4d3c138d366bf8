--------------------------------- MODULE MCService -------------------------------
(* Service with one request slot, two providers and every model they may share.       *)
EXTENDS Service

CONSTANTS p1, p2

MCProviders == {p1, p2}
MCRoutes == {{p1}, {p2}, {p1, p2}}
MCResponsesMode == {p2}
==================================================================================
