------------------------------- MODULE Conversation ------------------------------
(* An agent's conversation through the gateway.  The client keeps its history in one  *)
(* protocol; every request converts the whole of it for an upstream that may speak    *)
(* another one, and may be a different upstream each time (routing, failover); the    *)
(* answer is converted back and the client appends it, runs the tools it calls for,   *)
(* and asks again.  The gateway keeps nothing in between: what a conversion loses is  *)
(* lost to every later turn.                                                          *)
EXTENDS IR, FiniteSets

CONSTANTS MaxTurns,  \* turns of a conversation, the upstreams' included
          MaxCalls   \* tool calls of one answer

ASSUME ConversationAssumption == MaxTurns \in Nat /\ MaxCalls \in 0..3

VARIABLES client,  \* the protocol of the client
          doc,     \* its history, a document of that protocol
          truth,   \* what was said: for every turn, a sequence of atoms
          turn,    \* whose turn it is: "user", "upstream" or "tools"
          told     \* what the last answer told of its end, and what was so

vars == <<client, doc, truth, turn, told>>

Chat == INSTANCE ChatDoc
Responses == INSTANCE ResponsesDoc
Messages == INSTANCE MessagesDoc

Protocols == {"chat", "responses", "messages"}

(* An atom is a piece of text, thinking, an image, a file, a call, or the result of a *)
(* call (n is then the call's; the result's own pieces follow it).                    *)
Atom(by, kind, n) == [by |-> by, kind |-> kind, n |-> n]

(* The pieces of a turn are numbered on from here.                                    *)
Base == 10 * Len(truth)
----------------------------------------------------------------------------------
Empty(p, system) ==
    CASE p = "chat" -> Chat!Empty(system)
      [] p = "responses" -> Responses!Empty(system)
      [] p = "messages" -> Messages!Empty(system)

Said(p, results, said) ==
    CASE p = "chat" -> Chat!Said(results, said)
      [] p = "responses" -> Responses!Said(results, said)
      [] p = "messages" -> Messages!Said(results, said)

Add(p, d, entries) ==
    CASE p = "chat" -> Chat!Add(d, entries)
      [] p = "responses" -> Responses!Add(d, entries)
      [] p = "messages" -> Messages!Add(d, entries)

Answer(p, think, text, calls, cut) ==
    CASE p = "chat" -> Chat!Answer(think, text, calls, cut)
      [] p = "responses" -> Responses!Answer(think, text, calls, cut)
      [] p = "messages" -> Messages!Answer(think, text, calls, cut)

EntriesOf(p, answer) ==
    CASE p = "chat" -> Chat!EntriesOf(answer)
      [] p = "responses" -> Responses!EntriesOf(answer)
      [] p = "messages" -> Messages!EntriesOf(answer)

Told(p, answer) ==
    CASE p = "chat" -> Chat!Told(answer)
      [] p = "responses" -> Responses!Told(answer)
      [] p = "messages" -> Messages!Told(answer)

Read(p, d) ==
    CASE p = "chat" -> Chat!Read(d)
      [] p = "responses" -> Responses!Read(d)
      [] p = "messages" -> Messages!Read(d)

Typed(p, d) ==
    CASE p = "chat" -> Chat!Typed(d)
      [] p = "responses" -> Responses!Typed(d)
      [] p = "messages" -> Messages!Typed(d)
----------------------------------------------------------------------------------
(* _to_ir                                                                             *)
ToIR(inbound, body) ==
    CASE inbound = "chat" -> Chat!ToIR(body)
      [] inbound = "responses" -> Responses!ToIR(body)
      [] inbound = "messages" -> Messages!ToIR(body)

(* _from_ir_to_upstream, for the same protocol too.                                   *)
FromIR(ir, mode) ==
    CASE mode = "chat" -> Chat!FromIR(ir)
      [] mode = "responses" -> Responses!FromIR(ir)
      [] mode = "messages" -> Messages!FromIR(ir)

AnswerToIR(answer, mode) ==
    CASE mode = "chat" -> Chat!AnswerToIR(answer)
      [] mode = "responses" -> Responses!AnswerToIR(answer)
      [] mode = "messages" -> Messages!AnswerToIR(answer)

(* _upstream_resp_to_inbound: an answer in the client's protocol is relayed.          *)
AnswerToInbound(inbound, mode, answer) ==
    IF inbound = mode THEN answer
    ELSE LET r == AnswerToIR(answer, mode)
         IN  CASE inbound = "chat" -> Chat!AnswerFromIR(r)
               [] inbound = "responses" -> Responses!AnswerFromIR(r)
               [] inbound = "messages" -> Messages!AnswerFromIR(r)

(* What an upstream of this protocol would be asked now.                              *)
Request(mode) == FromIR(ToIR(client, doc), mode)
----------------------------------------------------------------------------------
Init ==
    /\ client \in Protocols
    /\ \E system \in {<<>>, <<1>>} :
          /\ doc = Empty(client, system)
          /\ truth = <<Each(LAMBDA n : Atom("system", "text", n), system)>>
    /\ turn = "user"
    /\ told = [answer |-> [cut |-> FALSE, calls |-> FALSE],
               fact |-> [cut |-> FALSE, calls |-> FALSE]]

(* Pieces of the given kinds, numbered on from n.                                     *)
Pieces(kinds, n) == [i \in DOMAIN kinds |-> [kind |-> kinds[i], n |-> n + i - 1]]

AtomsOf(by, pieces) == Each(LAMBDA p : Atom(by, p.kind, p.n), pieces)

Words == {<<"text">>, <<"text", "image">>, <<"file", "text">>}

Ask(kinds) ==
    /\ turn = "user" /\ Len(truth) < MaxTurns
    /\ LET said == Pieces(kinds, Base)
       IN  /\ doc' = Add(client, doc, Said(client, <<>>, said))
           /\ truth' = Append(truth, AtomsOf("user", said))
    /\ turn' = "upstream"
    /\ UNCHANGED <<client, told>>

(* An upstream that speaks mode answers, and the client appends what it is given.     *)
(* The answer has thinking and text of two pieces each, and calls, at least one of    *)
(* them, in this order: of several reasoning items _upstream_to_ir_response keeps the *)
(* last (server.py:420-425), and of text among calls it forgets the place.            *)
Reply(mode, think, text, calls, cut) ==
    /\ turn = "upstream" /\ Len(truth) < MaxTurns
    /\ think + text + calls > 0
    /\ LET thoughts == [i \in 1..(2 * think) |-> Base + i]
           texts == [i \in 1..(2 * text) |-> Base + 2 + i]
           ids == [i \in 1..calls |-> Base + 4 + i]
           given == AnswerToInbound(client, mode, Answer(mode, thoughts, texts, ids, cut))
       IN  /\ doc' = Add(client, doc, EntriesOf(client, given))
           /\ truth' = Append(truth, Each(LAMBDA n : Atom("assistant", "think", n), thoughts)
                                     \o Each(LAMBDA n : Atom("assistant", "text", n), texts)
                                     \o Each(LAMBDA n : Atom("assistant", "call", n), ids))
           /\ told' = [answer |-> Told(client, given),
                       fact |-> [cut |-> cut, calls |-> calls > 0 /\ ~cut]]
    /\ turn' = IF calls > 0 THEN "tools" ELSE "user"
    /\ UNCHANGED client

CallsOf(t) == Chosen(LAMBDA a : a.kind = "call", truth[t])

(* Every call of the last answer gets a result, the first perhaps with a picture; the *)
(* user may add words.  A Responses client sends the output as one string.            *)
Return(picture, said) ==
    /\ turn = "tools" /\ Len(truth) < MaxTurns
    /\ picture => client # "responses"
    /\ LET calls == CallsOf(Len(truth))
           results == [i \in DOMAIN calls |->
                          [id |-> calls[i].n,
                           parts |-> Pieces(IF picture /\ i = 1 THEN <<"text", "image">>
                                            ELSE <<"text">>, Base + 3 * i)]]
           words == Pieces(IF said THEN <<"text">> ELSE <<>>, Base)
       IN  /\ doc' = Add(client, doc, Said(client, results, words))
           /\ truth' = Append(truth,
                          FlattenSeq(Each(LAMBDA r : <<Atom("tool", "result", r.id)>>
                                                     \o AtomsOf("tool", r.parts), results))
                          \o AtomsOf("user", words))
    /\ turn' = "upstream"
    /\ UNCHANGED <<client, told>>

Next ==
    \/ \E kinds \in Words : Ask(kinds)
    \/ \E mode \in Protocols, think, text \in 0..1, calls \in 0..MaxCalls, cut \in BOOLEAN :
          Reply(mode, think, text, calls, cut)
    \/ \E picture, said \in BOOLEAN : Return(picture, said)

Spec == Init /\ [][Next]_vars
----------------------------------------------------------------------------------
(* The client's history and every request made from it are documents of their         *)
(* protocol: the kinds of part and block that an item, a role or a message may have.  *)
TypeOK ==
    /\ client \in Protocols
    /\ turn \in {"user", "upstream", "tools"}
    /\ Typed(client, doc)
    /\ turn = "upstream" => \A mode \in Protocols : Typed(mode, Request(mode))

(* Whatever protocols the upstreams speak, the client's history says what was said:   *)
(* every thought, text and call of every answer, once and in order.  The answers are  *)
(* Reply's: thinking in one block or item, then text, then calls.                     *)
AnswersArrive == Read(client, doc) = FlattenSeq(truth)

(* What does not reach an upstream: thinking, if it speaks the Messages API (which is *)
(* not as documented, see ThinkingKept); files of Chat and Messages clients; pictures *)
(* in a tool's result, unless both speak Chat.                                        *)
Reaches(mode, a) ==
    /\ a.kind = "think" => mode # "messages"
    /\ a.kind = "file" => client = "responses"
    /\ a.kind = "image" /\ a.by = "tool" => client = "chat" /\ mode = "chat"

(* A file of a Responses client arrives as a text.                                    *)
Arriving(mode, atoms) ==
    Each(LAMBDA a : [a EXCEPT !.kind = IF @ = "file" THEN "text" ELSE @],
         Chosen(LAMBDA a : Reaches(mode, a), atoms))

(* Of a Messages client's turn, what the user says arrives before the tools' results. *)
Reordered(atoms) ==
    IF client # "messages" THEN atoms
    ELSE Chosen(LAMBDA a : a.by # "tool", atoms) \o Chosen(LAMBDA a : a.by = "tool", atoms)

(* Every request says to its upstream what was said, in order and once, but for the   *)
(* three losses and the reordering named above: no other text, thought, picture,      *)
(* file, call or result is lost or doubled, by whatever sequence of upstreams the     *)
(* history came about.  (The is_error mark of a Messages client's result, which       *)
(* anthropic_to_ir drops, is no atom.)                                                *)
Faithful ==
    turn = "upstream" =>
        \A mode \in Protocols :
            Read(mode, Request(mode)) =
                FlattenSeq(Each(LAMBDA t : Arriving(mode, Reordered(t)), truth))

(* "an IR intermediate representation that preserves text, thinking/reasoning,        *)
(* images, and function/tool calls" (README.en.md): every thought of the history is   *)
(* in every request made from it.                                                     *)
Thoughts(atoms) == Chosen(LAMBDA a : a.kind = "think", atoms)

ThinkingKept ==
    turn = "upstream" =>
        \A mode \in Protocols : Thoughts(Read(mode, Request(mode))) = Thoughts(FlattenSeq(truth))

(* "Anthropic does not allow consecutive equal roles" (_merge_consecutive_roles): a   *)
(* Messages request alternates between user and assistant, beginning with the user,   *)
(* and a message is empty only in place of an answer that was nothing but thinking.   *)
OnlyThinking(t) == t # <<>> /\ \A i \in DOMAIN t : t[i].kind = "think"

Alternates ==
    turn = "upstream" =>
        LET ms == Request("messages").messages
        IN  /\ \A i \in DOMAIN ms : ms[i].role = IF i % 2 = 1 THEN "user" ELSE "assistant"
            /\ Cardinality({i \in DOMAIN ms : ms[i].content = <<>>})
                  <= Cardinality({i \in DOMAIN truth : OnlyThinking(truth[i])})

(* Chat and Messages upstreams refuse a history in which the results of an answer's   *)
(* calls do not come next, all of them, before anything else.                         *)
ResultsFollow(ms) ==
    \A i \in DOMAIN ms : \A k \in DOMAIN ms[i].tool_calls :
        i + k \in DOMAIN ms /\ ms[i + k].tool_call_id = ms[i].tool_calls[k]

ResultsLead(ms) ==
    \A i \in DOMAIN ms :
        LET calls == Numbers(Of({"tool_use"}, ms[i].content))
        IN  calls # <<>> => /\ i + 1 \in DOMAIN ms
                            /\ IsPrefix(calls, Numbers(ms[i + 1].content))

(* Some turn has results and words.                                                   *)
Mixed == \E t \in DOMAIN truth : {truth[t][i].by : i \in DOMAIN truth[t]} = {"user", "tool"}

Parallel == \E t \in DOMAIN truth : Len(CallsOf(t)) > 1

(* Calls are answered where upstreams look for it, except that a Messages client's    *)
(* words come before the results, and that parallel calls of a Responses client reach *)
(* a Chat upstream as messages of their own.                                          *)
CallsAnswered ==
    turn = "upstream" /\ ~(client = "messages" /\ Mixed) =>
        /\ ResultsLead(Request("messages").messages)
        /\ ~(client = "responses" /\ Parallel) => ResultsFollow(Request("chat").messages)

(* The client is told whether the answer was cut, and otherwise that there are calls  *)
(* to run exactly when there are.                                                     *)
EndTold == told.answer = told.fact
==================================================================================
