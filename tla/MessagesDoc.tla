-------------------------------- MODULE MessagesDoc -------------------------------
(* Anthropic Messages documents: what clients and upstreams write, and the            *)
(* conversions of app/converter/chat_anthropic.py and app/server.py between them and  *)
(* the IR.                                                                            *)
EXTENDS IR

(* A block of a message; only a tool_result has content of its own.                   *)
Block(type, n) == [type |-> type, n |-> n, content |-> <<>>]

Blocks(type, ns) == Each(LAMBDA n : Block(type, n), ns)

Result(id, content) == [Block("tool_result", id) EXCEPT !.content = content]

TypeOf == [text |-> "text", image |-> "image", file |-> "document"]

Entry(role, content) == [role |-> role, content |-> content]

Empty(system) == [system |-> Parts("text", system), messages |-> <<>>]

Add(doc, entries) == [doc EXCEPT !.messages = @ \o entries]

(* Results come first in the one message that carries them.                           *)
Said(results, said) ==
    <<Entry("user",
            Each(LAMBDA r : Result(r.id, Each(LAMBDA p : Part(TypeOf[p.kind], p.n), r.parts)),
                 results)
            \o Each(LAMBDA p : Block(TypeOf[p.kind], p.n), said))>>

Answer(think, text, calls, cut) ==
    [content |-> Blocks("thinking", think) \o Blocks("text", text) \o Blocks("tool_use", calls),
     stop_reason |-> IF cut THEN "max_tokens" ELSE IF calls # <<>> THEN "tool_use" ELSE "end_turn"]

EntriesOf(answer) == <<Entry("assistant", answer.content)>>

Told(answer) == [cut |-> answer.stop_reason = "max_tokens",
                 calls |-> answer.stop_reason = "tool_use"]

Kinds == [text |-> "text", image |-> "image", document |-> "file", thinking |-> "think",
          tool_use |-> "call", tool_result |-> "result"]

ReadBlock(role, b) ==
    LET by == IF b.type = "tool_result" THEN "tool" ELSE role
    IN  <<[by |-> by, kind |-> Kinds[b.type], n |-> b.n]>>
        \o Each(LAMBDA c : [by |-> by, kind |-> Kinds[c.type], n |-> c.n], b.content)

Read(doc) ==
    Each(LAMBDA c : [by |-> "system", kind |-> "text", n |-> c.n], doc.system)
    \o FlattenSeq(Each(LAMBDA m : FlattenSeq(Each(LAMBDA b : ReadBlock(m.role, b), m.content)),
                       doc.messages))

TypesOf(role) ==
    IF role = "user" THEN {"text", "image", "document", "tool_result"}
    ELSE {"text", "thinking", "tool_use"}

Typed(doc) ==
    \A i \in DOMAIN doc.messages :
        LET m == doc.messages[i]
        IN  /\ m.role \in {"user", "assistant"}
            /\ \A j \in DOMAIN m.content :
                  /\ m.content[j].type \in TypesOf(m.role)
                  /\ m.content[j].n # NoCall
                  /\ m.content[j].content # <<>> => m.content[j].type = "tool_result"
----------------------------------------------------------------------------------
(* A variant of Thinking: a block replaces the one before it.                         *)
ThinkingLast(content) ==
    LET blocks == Numbers(Of({"thinking"}, content))
    IN  IF blocks = <<>> THEN <<>> ELSE <<Last(blocks)>>

Thinking(content) == Numbers(Of({"thinking"}, content))

PartToIR(c) == Part(IF c.type = "image" THEN "image_url" ELSE "text", c.n)

(* A variant of MessageToIR with a message for every call.                            *)
MessageToIRCallsApart(m) ==
    LET said == Each(PartToIR, Of({"text", "image"}, m.content))
        calls == Numbers(Of({"tool_use"}, m.content))
        results == Of({"tool_result"}, m.content)
        main == Message(m.role, said, <<>>, Thinking(m.content))
    IN  (IF results # <<>> /\ said = <<>> /\ calls = <<>> THEN <<>> ELSE <<main>>)
        \o Each(LAMBDA n : Message(m.role, <<>>, <<n>>, <<>>), calls)
        \o Each(LAMBDA r : ToolMessage(r.n, TextOf(r.content)), results)

(* Text and pictures, then the calls; results are messages of their own, behind what  *)
(* else the message says, and keep their text alone: not what else is in them, nor    *)
(* whether they are marked is_error.  Other blocks are dropped.                       *)
MessageToIR(m) ==
    LET said == Each(PartToIR, Of({"text", "image"}, m.content))
        calls == Numbers(Of({"tool_use"}, m.content))
        results == Of({"tool_result"}, m.content)
        main == Message(m.role, said, calls, Thinking(m.content))
    IN  (IF results # <<>> /\ said = <<>> /\ calls = <<>> THEN <<>> ELSE <<main>>)
        \o Each(LAMBDA r : ToolMessage(r.n, TextOf(r.content)), results)

ToIR(doc) ==
    (IF doc.system = <<>> THEN <<>> ELSE <<Message("system", doc.system, <<>>, <<>>)>>)
    \o FlattenSeq(Each(MessageToIR, doc.messages))

PartFromIR(c) == Block(IF c.type = "text" THEN "text" ELSE "image", c.n)

(* The reasoning of an assistant message is not read.                                 *)
MessageFromIR(m) ==
    IF m.role = "tool" THEN Entry("user", <<Result(m.tool_call_id, TextOf(m.content))>>)
    ELSE Entry(m.role, Each(PartFromIR, m.content) \o Blocks("tool_use", m.tool_calls))

(* A variant of MergeConsecutiveRoles that merges the users' messages alone.          *)
MergeUsersOnly(ms) ==
    FoldLeft(LAMBDA out, m : IF out # <<>> /\ m.role = "user" /\ Last(out).role = "user"
                             THEN [out EXCEPT ![Len(out)].content = @ \o m.content]
                             ELSE Append(out, m),
             <<>>, ms)

MergeConsecutiveRoles(ms) ==
    FoldLeft(LAMBDA out, m : IF out # <<>> /\ Last(out).role = m.role
                             THEN [out EXCEPT ![Len(out)].content = @ \o m.content]
                             ELSE Append(out, m),
             <<>>, ms)

FromIR(ms) ==
    [system |-> FlattenSeq(Each(LAMBDA m : IF m.role = "system" THEN TextOf(m.content) ELSE <<>>,
                                ms)),
     messages |-> MergeConsecutiveRoles(
                      Each(MessageFromIR, Chosen(LAMBDA m : m.role # "system", ms)))]

AnswerToIR(a) ==
    Response(Each(PartToIR, Of({"text"}, a.content)), Numbers(Of({"tool_use"}, a.content)),
             Thinking(a.content),
             IF a.stop_reason = "max_tokens" THEN "length"
             ELSE IF a.stop_reason = "tool_use" THEN "tool_calls" ELSE "stop")

AnswerFromIR(r) ==
    [content |-> Blocks("thinking", r.reasoning) \o Each(PartFromIR, r.content)
                 \o Blocks("tool_use", r.tool_calls),
     stop_reason |-> IF r.finish = "length" THEN "max_tokens"
                     ELSE IF r.finish = "tool_calls" THEN "tool_use" ELSE "end_turn"]
==================================================================================
