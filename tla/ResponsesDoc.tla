-------------------------------- MODULE ResponsesDoc ------------------------------
(* Responses API documents: what clients and upstreams write, and the conversions of  *)
(* app/converter/chat_responses.py and app/server.py between them and the IR.         *)
EXTENDS IR

(* The content parts of each type of item and role.                                   *)
TypeOf == [text |-> "input_text", image |-> "input_image", file |-> "input_file"]

Empty(system) == [instructions |-> Parts("text", system), input |-> <<>>]

Add(doc, entries) == [doc EXCEPT !.input = @ \o entries]

(* A tool's output is its text (a list, which the API allows too, is not accepted).   *)
Said(results, said) ==
    Each(LAMBDA r : Item("function_call_output", "tool", Parts("text", Numbers(r.parts)), r.id),
         results)
    \o (IF said = <<>> THEN <<>>
        ELSE <<Item("message", "user", Each(LAMBDA p : Part(TypeOf[p.kind], p.n), said), NoCall)>>)

Reasoning(ns) == Item("reasoning", "assistant", Parts("summary_text", ns), NoCall)

Call(n) == Item("function_call", "assistant", <<>>, n)

(* At most one reasoning item, and the items in this order (see Conversation!Reply).  *)
Answer(think, text, calls, cut) ==
    [output |-> (IF think = <<>> THEN <<>> ELSE <<Reasoning(think)>>)
                \o (IF text = <<>> THEN <<>>
                    ELSE <<Item("message", "assistant", Parts("output_text", text), NoCall)>>)
                \o Each(Call, calls),
     status |-> IF cut THEN "incomplete" ELSE "completed"]

EntriesOf(answer) == answer.output

(* A Responses answer tells of its calls by its items alone.                          *)
Told(answer) == [cut |-> answer.status = "incomplete",
                 calls |-> answer.status = "completed"
                           /\ \E i \in DOMAIN answer.output :
                                 answer.output[i].type = "function_call"]

Kinds == [text |-> "text", input_text |-> "text", output_text |-> "text",
          summary_text |-> "think", input_image |-> "image", input_file |-> "file"]

ReadItem(it) ==
    (CASE it.type = "function_call" -> <<[by |-> "assistant", kind |-> "call", n |-> it.call_id]>>
       [] it.type = "function_call_output" -> <<[by |-> "tool", kind |-> "result", n |-> it.call_id]>>
       [] OTHER -> <<>>)
    \o Each(LAMBDA c : [by |-> it.role, kind |-> Kinds[c.type], n |-> c.n], it.content)

Read(doc) ==
    Each(LAMBDA c : [by |-> "system", kind |-> "text", n |-> c.n], doc.instructions)
    \o FlattenSeq(Each(ReadItem, doc.input))

(* What the API takes in which item.                                                  *)
TypesIn(it) ==
    CASE it.type = "reasoning" -> {"summary_text"}
      [] it.type = "function_call_output" -> {"text"}
      [] it.type = "function_call" -> {}
      [] it.role = "assistant" -> {"output_text"}
      [] OTHER -> {"input_text", "input_image", "input_file"}

Typed(doc) ==
    \A i \in DOMAIN doc.input :
        LET it == doc.input[i]
        IN  /\ it.role \in {"user", "assistant", "tool"}
            /\ \A j \in DOMAIN it.content : it.content[j] \in [type : TypesIn(it), n : Nat \ {0}]
            /\ (it.type \in {"function_call", "function_call_output"}) = (it.call_id # NoCall)
----------------------------------------------------------------------------------
(* A file becomes a text that names it.                                               *)
ParseContent(content) ==
    Each(LAMBDA c : IF c.type = "input_image" THEN Part("image_url", c.n) ELSE Part("text", c.n),
         content)

(* Every call and every reasoning is an assistant message of its own.                 *)
ItemToIR(it) ==
    CASE it.type = "function_call" -> Message("assistant", <<>>, <<it.call_id>>, <<>>)
      [] it.type = "function_call_output" -> ToolMessage(it.call_id, it.content)
      [] it.type = "reasoning" -> Message("assistant", <<>>, <<>>, Numbers(it.content))
      [] it.type = "message" -> Message(it.role, ParseContent(it.content), <<>>, <<>>)

ToIR(doc) ==
    (IF doc.instructions = <<>> THEN <<>>
     ELSE <<Message("system", doc.instructions, <<>>, <<>>)>>)
    \o Each(ItemToIR, doc.input)

(* A variant of ItemContent that forgets whose content it is.                         *)
ItemContentAsInput(content, asOutput) ==
    Each(LAMBDA c : IF c.type = "text" THEN Part("input_text", c.n) ELSE Part("input_image", c.n),
         content)

ItemContent(content, asOutput) ==
    Each(LAMBDA c : IF c.type = "text"
                    THEN Part(IF asOutput THEN "output_text" ELSE "input_text", c.n)
                    ELSE Part("input_image", c.n),
         content)

InputOf(it) ==
    CASE it.type = "function_call" -> Call(it.call_id)
      [] it.type = "function_call_output" -> it
      [] it.type = "reasoning" -> Reasoning(Numbers(it.content))
      [] it.type = "message" ->
            Item("message", it.role, ItemContent(it.content, it.role = "assistant"), NoCall)

Instructions(ms) ==
    FlattenSeq(Each(LAMBDA m : IF m.role = "system" THEN TextOf(m.content) ELSE <<>>, ms))

FromIR(ms) == [instructions |-> Instructions(ms), input |-> Each(InputOf, MessagesToItems(ms))]

ItemsIn(output, type) == Chosen(LAMBDA it : it.type = type, output)

(* Every reasoning item replaces the one before it.                                   *)
LastSummary(output) ==
    LET summaries == ItemsIn(output, "reasoning")
    IN  IF summaries = <<>> THEN <<>> ELSE Numbers(Last(summaries).content)

OutputText(output) ==
    Parts("text", FlattenSeq(Each(LAMBDA it : Numbers(it.content), ItemsIn(output, "message"))))

(* A variant of FinishOf that looks at the calls first.                               *)
FinishOfCallsFirst(a, calls) ==
    IF calls # <<>> THEN "tool_calls" ELSE IF a.status = "incomplete" THEN "length" ELSE "stop"

FinishOf(a, calls) ==
    IF a.status = "incomplete" THEN "length" ELSE IF calls # <<>> THEN "tool_calls" ELSE "stop"

AnswerToIR(a) ==
    LET calls == Each(LAMBDA it : it.call_id, ItemsIn(a.output, "function_call"))
    IN  Response(OutputText(a.output), calls, LastSummary(a.output), FinishOf(a, calls))

(* An answer without calls has a message, be it empty.                                *)
AnswerFromIR(r) ==
    [output |-> (IF r.reasoning = <<>> THEN <<>> ELSE <<Reasoning(r.reasoning)>>)
                \o (IF r.content = <<>> /\ r.tool_calls # <<>> THEN <<>>
                    ELSE <<Item("message", "assistant",
                                Parts("output_text", Numbers(TextOf(r.content))), NoCall)>>)
                \o Each(Call, r.tool_calls),
     status |-> IF r.finish = "length" THEN "incomplete" ELSE "completed"]
==================================================================================
