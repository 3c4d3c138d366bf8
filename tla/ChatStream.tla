-------------------------------- MODULE ChatStream -------------------------------
(* to_chat_stream: chunks without nesting.  A tool call is announced with its id the  *)
(* first time its index is seen; the closing chunk names the reason.                  *)
EXTENDS StreamFrame

Opening == [out |-> <<Chunk("role", 0, <<>>)>>, over |-> FALSE,
            calls |-> {}, tool |-> FALSE, finish |-> "stop"]

ToolStart(st, s) == [Emit(st, "open", s, <<>>) EXCEPT !.calls = @ \cup {s}, !.tool = TRUE]

(* Arguments of a call nobody announced announce it.                                  *)
ToolArgs(st, s, k) ==
    Emit(IF s \in st.calls THEN st ELSE ToolStart(st, s), "delta", s, <<k>>)

On(st, e, k) ==
    CASE e.kind = "error"     -> [Emit(Emit(st, "error", 0, <<>>), "done", 0, <<>>) EXCEPT !.over = TRUE]
      [] e.kind = "text"      -> Emit(st, "content", 0, <<k>>)
      [] e.kind = "reasoning" -> Emit(st, "reasoning", 0, <<k>>)
      [] e.kind = "start"     -> ToolStart(st, e.src)
      [] e.kind = "args"      -> ToolArgs(st, e.src, k)
      [] e.kind \in Reasons   -> [st EXCEPT !.finish = e.kind]
      [] OTHER                -> st

Close(st) ==
    LET reason == IF st.tool /\ st.finish = "stop" THEN "tool_calls" ELSE st.finish
    IN  [Emit(Emit(st, reason, 0, <<>>), "done", 0, <<>>) EXCEPT !.over = TRUE]
==================================================================================
