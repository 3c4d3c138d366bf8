------------------------------------ MODULE IR -----------------------------------
(* app/ir.py: the messages every protocol is converted to, and the items the          *)
(* Responses API is fed from.                                                         *)
(*                                                                                    *)
(* A string is the sequence of the pieces it was put together from, a piece being a   *)
(* number; so content is a sequence of parts whether the code holds a string or a     *)
(* list, and the empty string is <<>>.  Names and arguments of a tool call belong to  *)
(* its id, a number too.                                                              *)
EXTENDS Naturals, Sequences, SequencesExt

NoCall == 0

Part(type, n) == [type |-> type, n |-> n]

Each(Op(_), s) == [i \in DOMAIN s |-> Op(s[i])]

Parts(type, ns) == Each(LAMBDA n : Part(type, n), ns)

(* The elements of s that pass a test, in their order (SelectSeq, but as a            *)
(* concatenation, which can be reasoned about).                                       *)
Chosen(Test(_), s) == FlattenSeq(Each(LAMBDA c : IF Test(c) THEN <<c>> ELSE <<>>, s))

Of(types, content) == Chosen(LAMBDA c : c.type \in types, content)

Numbers(content) == Each(LAMBDA c : c.n, content)

Message(role, content, calls, reasoning) ==
    [role |-> role, content |-> content, tool_calls |-> calls, tool_call_id |-> NoCall,
     reasoning |-> reasoning]

ToolMessage(id, content) ==
    [Message("tool", content, <<>>, <<>>) EXCEPT !.tool_call_id = id]

(* What an upstream answered; finish is "stop", "tool_calls" or "length".             *)
Response(content, calls, reasoning, finish) ==
    [content |-> content, tool_calls |-> calls, reasoning |-> reasoning,
     finish |-> finish]

(* Text of a content: other parts are passed over.                                    *)
TextOf(content) == Of({"text"}, content)

Item(type, role, content, id) ==
    [type |-> type, role |-> role, content |-> content, call_id |-> id]

(* A variant of ItemsOf that keeps the text of a message or its calls, not both.      *)
ItemsOfEither(m) ==
    IF m.role = "system" THEN <<>>
    ELSE IF m.role = "tool"
    THEN <<Item("function_call_output", "tool", TextOf(m.content), m.tool_call_id)>>
    ELSE (IF m.reasoning # <<>>
          THEN <<Item("reasoning", m.role, Parts("text", m.reasoning), NoCall)>> ELSE <<>>)
         \o (IF m.tool_calls = <<>>
             THEN <<Item("message", m.role, m.content, NoCall)>> ELSE <<>>)
         \o Each(LAMBDA c : Item("function_call", "assistant", <<>>, c), m.tool_calls)

ItemsOf(m) ==
    IF m.role = "system" THEN <<>>
    ELSE IF m.role = "tool"
    THEN <<Item("function_call_output", "tool", TextOf(m.content), m.tool_call_id)>>
    ELSE (IF m.reasoning # <<>>
          THEN <<Item("reasoning", m.role, Parts("text", m.reasoning), NoCall)>> ELSE <<>>)
         \o (IF m.tool_calls = <<>> \/ m.content # <<>>
             THEN <<Item("message", m.role, m.content, NoCall)>> ELSE <<>>)
         \o Each(LAMBDA c : Item("function_call", "assistant", <<>>, c), m.tool_calls)

MessagesToItems(ms) == FlattenSeq(Each(ItemsOf, ms))
==================================================================================
