--------------------------------- MODULE Framing ---------------------------------
(* Server-sent events on the wire, as app/stream.py cuts them: _iter_normalized adds  *)
(* every chunk to a buffer, split_sse_buffer takes the finished blocks off it.        *)
(*                                                                                    *)
(* An event is one "data:" line, in two halves so that it can be cut; its number k    *)
(* stands for the JSON.  Comments and "event:" lines are skipped by the code and left *)
(* out.  Text is a sequence of symbols.                                               *)
EXTENDS Integers, Sequences, SequencesExt, FiniteSetsExt

Begin(k) == <<"begin", k>>
End(k) == <<"end", k>>
LF == <<"lf", 0>>
CR == <<"cr", 0>>

(* The number of a data line that is no JSON, which parse_sse_line leaves out.  One   *)
(* that is JSON but no object is not among the texts here: it is kept, and            *)
(* _extract_events raises on it (stream.py:210), as ConverterRaises of Gateway does.  *)
Garbled == -1

Terminator(crlf) == IF crlf THEN <<CR, LF, CR, LF>> ELSE <<LF, LF>>

(* What sse_format makes of event k, and an upstream too.                             *)
Formatted(k, crlf) == <<Begin(k), End(k)>> \o Terminator(crlf)

(* replace("\r\n", "\n")                                                              *)
UnixStep(t, c) == IF c = LF /\ t # <<>> /\ Last(t) = CR THEN Append(Front(t), LF) ELSE Append(t, c)

Unix(text) == FoldLeft(UnixStep, <<>>, text)

(* split("\n\n"): the finished blocks, and what follows the last of them.             *)
CutStep(s, c) ==
    IF c = LF /\ s.rest # <<>> /\ Last(s.rest) = LF
    THEN [blocks |-> Append(s.blocks, Front(s.rest)), rest |-> <<>>]
    ELSE [s EXCEPT !.rest = Append(@, c)]

Cut(text) == FoldLeft(CutStep, [blocks |-> <<>>, rest |-> <<>>], text)

(* split("\n")                                                                        *)
LineStep(s, c) ==
    IF c = LF THEN [done |-> Append(s.done, s.line), line |-> <<>>]
              ELSE [s EXCEPT !.line = Append(@, c)]

Divided(text) == FoldLeft(LineStep, [done |-> <<>>, line |-> <<>>], text)

(* strip(): of what it takes off at both ends only carriage returns can be there.     *)
Strip(line) ==
    LET kept == {i \in DOMAIN line : line[i] # CR}
    IN  IF kept = {} THEN <<>> ELSE SubSeq(line, Min(kept), Max(kept))

Lines(text) ==
    LET s == Divided(text)
    IN  [i \in 1..Len(s.done) + 1 |-> Strip(IF i > Len(s.done) THEN s.line ELSE s.done[i])]

IsData(line) == line # <<>> /\ line[1][1] = "begin"

(* parse_sse_line on the data lines of one block joined into one: only a single whole *)
(* event is JSON.                                                                     *)
Parsed(lines) ==
    IF Len(lines) = 1 /\ Len(lines[1]) = 2 /\ lines[1][2] = End(lines[1][1][2])
    THEN lines[1][1][2]
    ELSE Garbled

(* The data lines, in their order.                                                    *)
DataLines(text) ==
    LET lines == Lines(text)
    IN  FlattenSeq([i \in DOMAIN lines |-> IF IsData(lines[i]) THEN <<lines[i]>> ELSE <<>>])

(* The events of finished blocks; blocks without data have none.                      *)
EventIn(block) ==
    LET data == DataLines(block) IN IF data = <<>> THEN <<>> ELSE <<Parsed(data)>>

EventsOf(blocks) == FlattenSeq([i \in DOMAIN blocks |-> EventIn(blocks[i])])

(* Variants of Split: an unfinished block is thrown away; a finished one is kept.     *)
SplitDropsRest(buffer) == [events |-> EventsOf(Cut(Unix(buffer)).blocks), rest |-> <<>>]

SplitKeepsAll(buffer) == [events |-> EventsOf(Cut(Unix(buffer)).blocks), rest |-> Unix(buffer)]

(* split_sse_buffer: the events of the finished blocks, and the text left over.       *)
Split(buffer) ==
    LET cut == Cut(Unix(buffer))
    IN  [events |-> EventsOf(cut.blocks), rest |-> cut.rest]

(* The end of the stream: every line that is left is tried on its own.                *)
Flush(buffer) ==
    LET data == DataLines(Unix(buffer))
    IN  [i \in DOMAIN data |-> Parsed(<<data[i]>>)]
==================================================================================
