------------------------------- MODULE StreamConvert ------------------------------
(* convert_stream (app/stream.py): the bytes of one upstream stream, in chunks of any *)
(* size, through safe_upstream_stream and the framing into one of the converters.     *)
(* One behaviour is one stream; where it leads is chosen with it.                     *)
(*                                                                                    *)
(* An upstream event stands for one item that _extract_events finds in the events of  *)
(* the three protocols; an SSE event that yields several behaves like several that    *)
(* arrive together.  Usage is left out.  So is an event whose data is JSON but no     *)
(* object: the converter raises on it, which is ConverterRaises of Gateway.           *)
EXTENDS Framing, FiniteSets

CONSTANTS Sources,      \* indices upstreams give to tool calls
          MaxEvents,    \* events of one stream
          SplitEvents,  \* up to so many events, chunks are cut anywhere
          BreakWithin   \* whether the connection may break inside an event

ASSUME StreamAssumption ==
    /\ Sources \subseteq Nat
    /\ MaxEvents \in Nat /\ SplitEvents \in 0..MaxEvents
    /\ BreakWithin \in BOOLEAN

VARIABLES target,    \* what the client speaks; "same" is a Responses client and upstream
          upstream,  \* the events the upstream sends and how it formats them
          pos,       \* symbols received so far
          buffer,    \* text not yet split off
          st,        \* the frame of the converter
          broken     \* where the upstream broke: "no", "between" or "within" events

vars == <<target, upstream, pos, buffer, st, broken>>

Chat == INSTANCE ChatStream
Responses == INSTANCE ResponsesStream
Messages == INSTANCE MessagesStream

Targets == {"chat", "responses", "messages", "same"}
------------------------------------------------------------------------------------
Event(kind, src) == [kind |-> kind, src |-> src]

Content == {Event("text", 0), Event("reasoning", 0)}
               \cup {Event(kind, s) : kind \in {"start", "args"}, s \in Sources}

(* "cut_with_call" is the end of a Responses answer that is incomplete and has called *)
(* a tool.                                                                            *)
Endings == {Event(kind, 0) : kind \in Chat!Reasons \cup {"cut_with_call", "error"}}

(* Content, then perhaps a reason or an error, then perhaps [DONE].                   *)
Sent == {c \o e \o d : c \in BoundedSeq(Content, MaxEvents),
                       e \in BoundedSeq(Endings, 1),
                       d \in BoundedSeq({Event("done", 0)}, 1)}

Upstreams ==
    {u \in [events : {s \in Sent : Len(s) <= MaxEvents}, crlf : BOOLEAN, ended : BOOLEAN] :
        u.crlf \/ ~u.ended => Len(u.events) \in 1..SplitEvents}

Size(u) == 2 + Len(Terminator(u.crlf))

(* Without `ended` the last event lacks its terminator.                               *)
Wire(u) ==
    LET all == FlattenSeq([k \in 1..Len(u.events) |-> Formatted(k, u.crlf)])
    IN  IF u.ended THEN all ELSE SubSeq(all, 1, Len(all) - Len(Terminator(u.crlf)))

(* The events safe_upstream_stream adds when the upstream raises.                     *)
BreakEvent == 0
DoneEvent == MaxEvents + 1

(* _extract_events gives the call for the reason, and forgets the cut.                *)
Extracted(e) == IF e.kind = "cut_with_call" THEN Event("tool_calls", 0) ELSE e

EventOf(k) == CASE k = BreakEvent -> Event("error", 0)
                [] k = DoneEvent  -> Event("done", 0)
                [] OTHER          -> Extracted(upstream.events[k])
------------------------------------------------------------------------------------
(* normalize_responses_sse: blocks go through as they are, but for [DONE].            *)
Same(s, k) == IF k # Garbled /\ EventOf(k).kind = "done" THEN s
              ELSE Chat!Emit(s, "block", k, <<>>)

OpeningOf(t) == CASE t = "chat"      -> Chat!Opening
                  [] t = "responses" -> Responses!Opening
                  [] t = "messages"  -> Messages!Opening
                  [] t = "same"      -> [out |-> <<>>, over |-> FALSE]

(* A converter ignores what it cannot read, and everything after an error.            *)
Convert(s, k) ==
    IF s.over THEN s
    ELSE IF target = "same" THEN Same(s, k)
    ELSE IF k = Garbled THEN s
    ELSE CASE target = "chat"      -> Chat!On(s, EventOf(k), k)
           [] target = "responses" -> Responses!On(s, EventOf(k), k)
           [] target = "messages"  -> Messages!On(s, EventOf(k), k)

Finished(s) ==
    IF s.over THEN s
    ELSE CASE target = "chat"      -> Chat!Close(s)
           [] target = "responses" -> Responses!Close(s)
           [] target = "messages"  -> Messages!Close(s)
           [] target = "same"      -> [s EXCEPT !.over = TRUE]

(* _iter_normalized (normalize_responses_sse, for "same"): one more chunk, the end.   *)
Receiving(r, chunk) ==
    LET split == Split(r.buffer \o chunk)
    IN  [buffer |-> split.rest, st |-> FoldLeft(Convert, r.st, split.events)]

Ending(r) == [buffer |-> <<>>, st |-> Finished(FoldLeft(Convert, r.st, Flush(r.buffer)))]

Now == [buffer |-> buffer, st |-> st]
Become(r) == buffer' = r.buffer /\ st' = r.st

Init ==
    /\ target \in Targets
    /\ upstream \in Upstreams
    /\ pos = 0
    /\ buffer = <<>>
    /\ st = OpeningOf(target)
    /\ broken = "no"

Boundary(p) == p % Size(upstream) = 0 \/ p = Len(Wire(upstream))

Receive(n) ==
    /\ ~st.over
    /\ Len(upstream.events) > SplitEvents => n = Size(upstream)
    /\ pos + n <= Len(Wire(upstream))
    /\ pos' = pos + n
    /\ Become(Receiving(Now, SubSeq(Wire(upstream), pos + 1, pos + n)))
    /\ UNCHANGED <<target, upstream, broken>>

(* The upstream closes the stream.                                                    *)
Finish ==
    /\ ~st.over
    /\ pos = Len(Wire(upstream))
    /\ Become(Ending(Now))
    /\ UNCHANGED <<target, upstream, pos, broken>>

(* It raises instead: safe_upstream_stream sends an error event and [DONE].           *)
Break ==
    /\ ~st.over
    /\ Boundary(pos) \/ BreakWithin
    /\ broken' = IF buffer = <<>> THEN "between" ELSE "within"
    /\ Become(Ending(Receiving(Receiving(Now, Formatted(BreakEvent, FALSE)),
                               Formatted(DoneEvent, FALSE))))
    /\ UNCHANGED <<target, upstream, pos>>

(* The stream is over and stays so.                                                   *)
Over == st.over /\ UNCHANGED vars

Next ==
    \/ \E n \in 1..Len(Wire(upstream)) : Receive(n)
    \/ Finish
    \/ Break
    \/ Over

Spec == Init /\ [][Next]_vars
------------------------------------------------------------------------------------
TypeOK ==
    /\ target \in Targets
    /\ upstream.events \in Seq(Content \cup Endings \cup {Event("done", 0)})
    /\ pos \in 0..Len(Wire(upstream))
    /\ Len(buffer) < Size(upstream)
    /\ st.over \in BOOLEAN
    /\ broken \in {"no", "between", "within"}

PlacesOf(S) == {i \in 1..Len(st.out) : st.out[i].type \in S}

Kind(k) == Extracted(upstream.events[k]).kind

(* The events a client should have seen by now: those whose terminator has arrived,   *)
(* all of them once the upstream has closed the stream, up to the first error.        *)
Arrived == IF st.over /\ broken = "no" THEN Len(upstream.events) ELSE pos \div Size(upstream)

Seen == {k \in 1..Arrived : \A i \in 1..(k - 1) : Kind(i) # "error"}

Due == IF target = "same" THEN {k \in 1..Arrived : Kind(k) # "done"}
       ELSE {k \in Seen : Kind(k) \in {"text", "reasoning", "args"}}

(* The places of the chunks that carry an event, and which.                           *)
Carriers == IF target = "same" THEN {i \in 1..Len(st.out) : st.out[i].item > 0}
            ELSE PlacesOf({"delta", "content", "reasoning"})

Carried(i) == IF target = "same" THEN <<st.out[i].item>> ELSE st.out[i].val

(* Whatever the chunks, every piece reaches the client as soon as its event is whole, *)
(* once and in order; for "same", every block does.                                   *)
Delivered ==
    /\ {Carried(i) : i \in Carriers} = {<<k>> : k \in Due}
    /\ \A i, j \in Carriers : i < j => Carried(i)[1] < Carried(j)[1]

(* The events that take up a block after another one, or start a call a second time.  *)
Block(e) == IF e.kind \in {"start", "args"} THEN <<"tool", e.src>> ELSE <<e.kind, 0>>

Resumed(events) ==
    {j \in 2..Len(events) : \E i \in 1..(j - 1) :
        /\ Block(events[i]) = Block(events[j])
        /\ Block(events[j - 1]) # Block(events[j]) \/ events[j].kind = "start"}

(* The streams the converters keep the lifecycle for: for a Responses client, one     *)
(* block after the other; for a Messages client, no arguments for a call after        *)
(* another block.  ResponsesConverter adds to the text it has closed, and             *)
(* MessagesConverter to the block of a call it has closed (stream.py:468, 487, 496).  *)
Orderly(events) ==
    CASE target = "responses" -> Resumed(events) = {}
      [] target = "messages"  -> \A j \in Resumed(events) : events[j].kind # "args"
      [] OTHER                -> TRUE

Happened(j, type, item) == \E i \in 1..(j - 1) : st.out[i].type = type /\ st.out[i].item = item

PiecesOf(item) ==
    LET mine == SelectSeq(st.out, LAMBDA c : c.type = "delta" /\ c.item = item)
    IN  FlattenSeq([i \in 1..Len(mine) |-> mine[i].val])

(* An item opens once, when none is open, takes its pieces, and is closed by an event *)
(* that repeats exactly them; at the end none is left open.                           *)
WellFormed ==
    /\ \A j \in 1..Len(st.out) :
          LET c == st.out[j]
          IN  /\ c.type \in {"delta", "close"} => Happened(j, "open", c.item) /\ ~Happened(j, "close", c.item)
              /\ c.type = "open" /\ target # "chat" =>
                    /\ ~Happened(j, "open", c.item)
                    /\ \A i \in 1..(j - 1) :
                          st.out[i].type = "open" => Happened(j, "close", st.out[i].item)
              /\ c.type = "close" /\ target = "responses" => c.val = PiecesOf(c.item)
    /\ st.over /\ target # "chat" => Cardinality(PlacesOf({"open"})) = Cardinality(PlacesOf({"close"}))

(* "created -> in_progress -> output_item -> delta -> done -> completed|failed"       *)
(* (README.en.md), but only for upstreams that keep their blocks in that order; one   *)
(* that does not can break WellFormed.                                                *)
Lifecycle == Orderly(upstream.events) => WellFormed

Outcomes == {"error", "completed", "incomplete", "max_tokens", "tool_use", "end_turn"} \cup Chat!Reasons

LastTypes == CASE target = "chat"      -> {"done"}
               [] target = "responses" -> {"completed", "incomplete", "error"}
               [] target = "messages"  -> {"message_stop"}
               [] target = "same"      -> {}

(* Every stream that is over has told the client its outcome, once, with the last     *)
(* event of the protocol last, and the final response lists all items.                *)
EndsOnce ==
    target # "same" =>
        IF st.over
        THEN /\ Cardinality(PlacesOf(Outcomes)) = 1
             /\ PlacesOf(LastTypes) = {Len(st.out)}
             /\ \A i \in PlacesOf({"completed", "incomplete"}) :
                   st.out[i].val = [n \in 1..Cardinality(PlacesOf({"open"})) |-> n]
        ELSE PlacesOf(Outcomes \cup LastTypes) = {}

Told(type) == PlacesOf({type}) # {}

ToldFailure == Told("error") \/ \E i \in PlacesOf({"block"}) : st.out[i].item = BreakEvent

(* The outcome is what _extract_events takes for the upstream's: failed if it sent an *)
(* error or broke between two events, else its reason, and a stream with a tool call  *)
(* stops for it.  A Responses answer cut after a call counts as stopped for the call: *)
(* that it is cut no client is told.                                                  *)
OutcomeRight ==
    LET Some(kinds) == {k \in Seen : Kind(k) \in kinds}
        failed  == broken = "between" \/ Some({"error"}) # {}
        reason  == IF Some(Chat!Reasons) = {} THEN "stop"
                   ELSE Kind(CHOOSE k \in Some(Chat!Reasons) : TRUE)
        called  == Some({"start", "args"}) # {}
        tools   == reason = "tool_calls" \/ (reason = "stop" /\ called)
    IN  st.over /\ broken # "within" =>
            IF target = "same" THEN broken = "between" => ToldFailure
            ELSE IF failed THEN ToldFailure
            ELSE CASE target = "responses" -> Told(IF reason = "length" THEN "incomplete" ELSE "completed")
                   [] target = "chat"      -> Told(IF tools THEN "tool_calls" ELSE reason)
                   [] target = "messages"  -> Told(IF reason = "length" THEN "max_tokens"
                                                   ELSE IF tools \/ called THEN "tool_use"
                                                   ELSE "end_turn")

(* "errors after that arrive as in-band SSE error events" (README.en.md): also when   *)
(* the connection breaks in the middle of an event.                                   *)
FailuresArrive == st.over /\ broken # "no" => ToldFailure
===================================================================================
