-------------------------------- MODULE StreamFrame ------------------------------
(* What the three stream converters of app/stream.py have in common: a frame of local *)
(* variables with the chunks yielded so far (`out`) and whether the generator has     *)
(* ended (`over`).                                                                    *)
EXTENDS Naturals, Sequences

(* One chunk to the client.  item: the index of the item, block or tool call; val:    *)
(* the pieces it carries, a piece being the number of the upstream event it came in.  *)
Chunk(type, item, val) == [type |-> type, item |-> item, val |-> val]

Emit(st, type, item, val) == [st EXCEPT !.out = Append(@, Chunk(type, item, val))]

(* f[x] = v in a dict.                                                                *)
Put(f, x, v) == [y \in DOMAIN f \cup {x} |-> IF y = x THEN v ELSE f[y]]

(* The reasons of a finish event: what _extract_events makes of those of Anthropic    *)
(* and Responses, and what Chat Completions gives, which it passes on as it is (so    *)
(* "content_filter" stands for every other one).                                      *)
Reasons == {"stop", "length", "tool_calls", "content_filter"}
==================================================================================
