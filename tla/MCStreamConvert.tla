----------------------------- MODULE MCStreamConvert -----------------------------
(* Two tool calls; five events are two calls with their arguments and a reason.     *)
EXTENDS StreamConvert

MCSources == {0, 1}
==================================================================================
