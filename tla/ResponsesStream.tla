------------------------------ MODULE ResponsesStream ----------------------------
(* to_responses_stream: one output item open at a time, each closed by an event that  *)
(* repeats all it carried.                                                            *)
EXTENDS StreamFrame

Opening == [out |-> <<Chunk("created", 0, <<>>), Chunk("in_progress", 0, <<>>)>>, over |-> FALSE,
            open |-> "none", item |-> 0, src |-> 0, next |-> 1,
            text |-> <<>>, reason |-> <<>>, args |-> <<>>,   \* text_acc, reason_acc, args_acc
            where |-> <<>>,                                  \* src_to_out
            items |-> <<>>, finish |-> "stop"]

Accumulated(st) == CASE st.open = "message"   -> st.text
                     [] st.open = "reasoning" -> st.reason
                     [] st.open = "tool"      -> st.args[st.src]

CloseOpen(st) ==
    IF st.open = "none" THEN st
    ELSE [Emit(st, "close", st.item, Accumulated(st)) EXCEPT !.open = "none", !.items = Append(@, st.item)]

(* A variant of Open that leaves the item before it open.                             *)
OpenBeside(st, kind) ==
    [Emit(st, "open", st.next, <<>>) EXCEPT !.open = kind, !.item = st.next, !.next = @ + 1]

(* start_message, start_reasoning                                                     *)
Open(st, kind) ==
    LET c == CloseOpen(st)
    IN  [Emit(c, "open", c.next, <<>>) EXCEPT !.open = kind, !.item = c.next, !.next = @ + 1]

(* start_tool; args_acc.setdefault keeps what an earlier start has gathered.          *)
ToolStart(st, s) ==
    LET t == Open(st, "tool")
    IN  [t EXCEPT !.src = s, !.where = Put(@, s, t.item),
                   !.args = IF s \in DOMAIN @ THEN @ ELSE Put(@, s, <<>>)]

InItem(st, kind) == IF st.open = kind THEN st ELSE Open(st, kind)

Text(st, k) ==
    LET t == InItem([st EXCEPT !.text = Append(@, k)], "message") IN Emit(t, "delta", t.item, <<k>>)

Reasoning(st, k) ==
    LET t == InItem([st EXCEPT !.reason = Append(@, k)], "reasoning") IN Emit(t, "delta", t.item, <<k>>)

ToolArgs(st, s, k) ==
    LET t == IF s \in DOMAIN st.where THEN st ELSE ToolStart(st, s)
    IN  Emit([t EXCEPT !.args[s] = Append(@, k)], "delta", t.where[s], <<k>>)

(* A variant of Failed that goes on with the stream.                                  *)
FailedGoesOn(st) == Emit(Emit(CloseOpen(st), "failed", 0, <<>>), "error", 0, <<>>)

Failed(st) ==
    [Emit(Emit(CloseOpen(st), "failed", 0, <<>>), "error", 0, <<>>) EXCEPT !.over = TRUE]

On(st, e, k) ==
    CASE e.kind = "error"     -> Failed(st)
      [] e.kind = "text"      -> Text(st, k)
      [] e.kind = "reasoning" -> Reasoning(st, k)
      [] e.kind = "start"     -> ToolStart(st, e.src)
      [] e.kind = "args"      -> ToolArgs(st, e.src, k)
      [] e.kind \in Reasons   -> [st EXCEPT !.finish = e.kind]
      [] OTHER                -> st

Close(st) ==
    LET c == CloseOpen(st)
    IN  [Emit(c, IF c.finish = "length" THEN "incomplete" ELSE "completed", 0, c.items)
            EXCEPT !.over = TRUE]
==================================================================================
