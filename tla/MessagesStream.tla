------------------------------ MODULE MessagesStream -----------------------------
(* to_anthropic_stream: one content block open at a time.                             *)
EXTENDS StreamFrame

Opening == [out |-> <<Chunk("message_start", 0, <<>>)>>, over |-> FALSE,
            open |-> "none", item |-> 0, next |-> 1, where |-> <<>>,
            tool |-> FALSE, finish |-> "end_turn"]

Stop(st) == IF st.open = "none" THEN st
            ELSE [Emit(st, "close", st.item, <<>>) EXCEPT !.open = "none"]

(* _stop and then _start                                                              *)
Start(st, kind) ==
    LET c == Stop(st)
    IN  [Emit(c, "open", c.next, <<>>) EXCEPT !.open = kind, !.item = c.next, !.next = @ + 1]

Piece(st, kind, k) ==
    LET t == IF st.open = kind THEN st ELSE Start(st, kind) IN Emit(t, "delta", t.item, <<k>>)

ToolStart(st, s) ==
    LET t == Start(st, "tool") IN [t EXCEPT !.tool = TRUE, !.where = Put(@, s, t.item)]

ToolArgs(st, s, k) ==
    LET t == IF s \in DOMAIN st.where THEN st ELSE ToolStart(st, s)
    IN  Emit([t EXCEPT !.tool = TRUE], "delta", t.where[s], <<k>>)

Failed(st) ==
    [Emit(Emit(Stop(st), "error", 0, <<>>), "message_stop", 0, <<>>) EXCEPT !.over = TRUE]

StopReason(kind) == CASE kind = "length"     -> "max_tokens"
                      [] kind = "tool_calls" -> "tool_use"
                      [] OTHER               -> "end_turn"

On(st, e, k) ==
    CASE e.kind = "error"     -> Failed(st)
      [] e.kind = "text"      -> Piece(st, "text", k)
      [] e.kind = "reasoning" -> Piece(st, "thinking", k)
      [] e.kind = "start"     -> ToolStart(st, e.src)
      [] e.kind = "args"      -> ToolArgs(st, e.src, k)
      [] e.kind \in Reasons   -> [st EXCEPT !.finish = StopReason(e.kind)]
      [] OTHER                -> st

(* A variant of Close that takes the upstream's reason as it is.                      *)
CloseAsTold(st) ==
    LET c == Stop(st)
    IN  [Emit(Emit(c, c.finish, 0, <<>>), "message_stop", 0, <<>>) EXCEPT !.over = TRUE]

Close(st) ==
    LET c == Stop(st)
        reason == IF c.tool /\ c.finish = "end_turn" THEN "tool_use" ELSE c.finish
    IN  [Emit(Emit(c, reason, 0, <<>>), "message_stop", 0, <<>>) EXCEPT !.over = TRUE]
==================================================================================
