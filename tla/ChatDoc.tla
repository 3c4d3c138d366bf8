---------------------------------- MODULE ChatDoc ---------------------------------
(* Chat Completions documents: what clients and upstreams write, and the conversions  *)
(* of app/converter/chat_responses.py and app/server.py between them and the IR.      *)
EXTENDS IR

(* A message has the fields of an IR message; its content parts are these.            *)
Types == {"text", "image_url", "file"}

TypeOf == [text |-> "text", image |-> "image_url", file |-> "file"]

Empty(system) ==
    [messages |-> IF system = <<>> THEN <<>>
                  ELSE <<Message("system", Parts("text", system), <<>>, <<>>)>>]

Add(doc, entries) == [doc EXCEPT !.messages = @ \o entries]

(* A user's turn: the results of the pending calls, then what the user says.          *)
Said(results, said) ==
    Each(LAMBDA r : ToolMessage(r.id, Each(LAMBDA p : Part(TypeOf[p.kind], p.n), r.parts)),
         results)
    \o (IF said = <<>> THEN <<>>
        ELSE <<Message("user", Each(LAMBDA p : Part(TypeOf[p.kind], p.n), said), <<>>, <<>>)>>)

Answer(think, text, calls, cut) ==
    [message |-> Message("assistant", Parts("text", text), calls, think),
     finish |-> IF cut THEN "length" ELSE IF calls # <<>> THEN "tool_calls" ELSE "stop"]

EntriesOf(answer) == <<answer.message>>

(* The cut and the calls that an answer tells its reader of.                          *)
Told(answer) == [cut |-> answer.finish = "length", calls |-> answer.finish = "tool_calls"]

(* Everything a document says, in order.                                              *)
Kinds == [text |-> "text", image_url |-> "image", file |-> "file"]

ReadMessage(m) ==
    Each(LAMBDA n : [by |-> m.role, kind |-> "result", n |-> n],
         IF m.role = "tool" THEN <<m.tool_call_id>> ELSE <<>>)
    \o Each(LAMBDA n : [by |-> m.role, kind |-> "think", n |-> n], m.reasoning)
    \o Each(LAMBDA c : [by |-> m.role, kind |-> Kinds[c.type], n |-> c.n], m.content)
    \o Each(LAMBDA n : [by |-> m.role, kind |-> "call", n |-> n], m.tool_calls)

Read(doc) == FlattenSeq(Each(ReadMessage, doc.messages))

Typed(doc) ==
    \A i \in DOMAIN doc.messages :
        LET m == doc.messages[i]
        IN  /\ m.role \in {"system", "user", "assistant", "tool"}
            /\ \A j \in DOMAIN m.content : m.content[j] \in [type : Types, n : Nat \ {0}]
            /\ m.tool_calls # <<>> \/ m.reasoning # <<>> => m.role = "assistant"
            /\ (m.role = "tool") = (m.tool_call_id # NoCall)
----------------------------------------------------------------------------------
(* Parts the IR has no type for (files, audio) are dropped.                           *)
ContentToIR(content) == Of({"text", "image_url"}, content)

MessageToIR(m) ==
    IF m.role = "tool" THEN ToolMessage(m.tool_call_id, ContentToIR(m.content))
    ELSE Message(m.role, ContentToIR(m.content), m.tool_calls, m.reasoning)

ToIR(doc) == Each(MessageToIR, doc.messages)

MessageFromIR(m) ==
    IF m.role = "tool" THEN ToolMessage(m.tool_call_id, m.content)
    ELSE Message(m.role, m.content, m.tool_calls, m.reasoning)

FromIR(ms) == [messages |-> Each(MessageFromIR, ms)]

AnswerToIR(a) ==
    Response(a.message.content, a.message.tool_calls, a.message.reasoning, a.finish)

AnswerFromIR(r) ==
    [message |-> Message("assistant", r.content, r.tool_calls, r.reasoning),
     finish |-> r.finish]
==================================================================================
