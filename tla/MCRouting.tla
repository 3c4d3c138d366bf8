-------------------------------- MODULE MCRouting --------------------------------
(* Three providers.  Two of one tier with unequal weights and a third behind them; a  *)
(* disabled provider with a model of its own, and ids with a slash, two of which look *)
(* like the name of a model of provider 3; one provider.                              *)
EXTENDS Routing

Entry(enabled, priority, weight, models) ==
    [enabled |-> enabled, priority |-> priority, weight |-> weight, models |-> models]

(* The ids 11, 12, 13/11, 3/11 and 3/12; an upstream calls them 21, 22, ...           *)
A == <<11>> :> <<21>>
B == <<12>> :> <<22>>
C == <<13, 11>> :> <<23>> @@ <<3, 11>> :> <<24>> @@ <<3, 12>> :> <<25>>

MCConfigs == {
    <<Entry(TRUE, 1, 2, A @@ B), Entry(TRUE, 1, 1, A), Entry(TRUE, 2, 1, A @@ B)>>,
    <<Entry(TRUE, 2, 1, A @@ C), Entry(FALSE, 1, 1, B), Entry(TRUE, 1, 1, A)>>,
    <<Entry(FALSE, 1, 1, A), Entry(TRUE, 1, 1, B), Entry(FALSE, 1, 1, B)>>}

MCNames == {<<11>>, <<12>>}

MCMeasures == {<<0, 0, 1>>, <<1, 0, 0>>}
==================================================================================
