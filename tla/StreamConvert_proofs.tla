--------------------------- MODULE StreamConvert_proofs --------------------------
(* Proofs about streams, for every upstream and every way to cut its bytes: the       *)
(* client is told how the stream ended, once and at its end (EndsOnce); it gets every *)
(* piece that has arrived, once and in order (Delivered); and it is told the outcome  *)
(* the upstream had (OutcomeRight).                                                   *)
(*                                                                                    *)
(* The ending.  A frame of one of the three converters is either going, and then no   *)
(* chunk so far tells an end, or it is over, with one outcome and the last event of   *)
(* its protocol last.  Each handler keeps this (ChatOn, ResponsesOn, MessagesOn), so  *)
(* each fold over the events of a chunk does.  What the handlers are given has to be  *)
(* shown first: the text of the framing is made of the events the upstream has        *)
(* (SplitType), through its four folds.                                               *)
(*                                                                                    *)
(* The delivery.  EndsOnce holds whatever the buffer holds; Delivered does not, and   *)
(* needs that a cut never loses or repeats an event.  The invariant is StreamInv:     *)
(* while the stream goes on, the buffer is exactly what has arrived of the next       *)
(* event, and the frame has made what it should of the events before it (Holds).      *)
(* Receive keeps it because reading what is held back and a part of the wire after it *)
(* gives the events completed meanwhile, and holds back the next one (SplitReads);    *)
(* Break because what an added event makes of a text cut short is known (SplitBreak). *)
(* What a frame makes of one event is one lemma for each converter (ChatSteps,        *)
(* MessagesSteps, ResponsesSteps), and of its end another.                            *)
EXTENDS StreamConvert, SequenceFacts
------------------------------------------------------------------------------------
(* The symbols of the events with these numbers.                                      *)
Symbols(K) == {"begin", "end", "lf", "cr"} \X K

(* replace("\r\n", "\n") makes text of the symbols it is given.                       *)
LEMMA UnixStepType ==
  ASSUME NEW T, LF \in T, NEW t \in Seq(T), NEW c \in T
  PROVE  UnixStep(t, c) \in Seq(T)
<1>1. t # <<>> => Front(t) \in Seq(T)
  BY DEF Front
<1> QED
  BY <1>1 DEF UnixStep

(* The fold of Unix, step by step: a text after every symbol read.                    *)
LEMMA UnixSteps ==
  ASSUME NEW T, LF \in T, NEW text \in Seq(T)
  PROVE  \E c \in [0..Len(text) -> Seq(T)] :
            /\ c[0] = <<>>
            /\ \A m \in 1..Len(text) : c[m] = UnixStep(c[m - 1], text[m])
            /\ Unix(text) = c[Len(text)]
<1>0. PICK n \in Nat : n = Len(text) /\ DOMAIN text = 1..n
  OBVIOUS
<1> DEFINE X == Seq(T)
           base == <<>>
           Rule(g) == g = [s \in SUBSET (1..n) |->
                             IF s = {} THEN base ELSE UnixStep(g[Below(s)], text[Max(s)])]
           F == [i \in 1..n |-> [x \in X |-> UnixStep(x, text[i])]]
           table == CHOOSE g : Rule(g)
<1>1. Unix(text) = table[1..n]
  BY <1>0 DEF Unix, FoldLeft, MapThenFoldSet, Below
<1>2. base \in X
  OBVIOUS
<1>3. ASSUME NEW i \in 1..n, NEW x \in X PROVE UnixStep(x, text[i]) \in X
  BY <1>0, UnixStepType
<1>4. F \in [1..n -> [X -> X]]
  BY <1>3
<1> HIDE DEF X, base
<1>5. PICK g : Table(g, X, base, F, n)
  <2> HIDE DEF F
  <2> QED
    BY <1>2, <1>4, FoldExists
<1>6. ASSUME NEW s \in SUBSET (1..n), s # {}, NEW x \in X
      PROVE  F[Max(s)][x] = UnixStep(x, text[Max(s)])
  BY <1>6, BelowIn
<1> HIDE DEF F
<1>7. Rule(g)
  <2>1. \A s \in SUBSET (1..n) : s # {} => Below(s) \in SUBSET (1..n)
    BY BelowIn
  <2>2. ASSUME NEW s \in SUBSET (1..n), s # {}
        PROVE  F[Max(s)][g[Below(s)]] = UnixStep(g[Below(s)], text[Max(s)])
    BY <1>5, <1>6, <2>1, <2>2 DEF Table
  <2> QED
    BY <1>5, <2>2 DEF Table
<1>8. Rule(table)
  BY <1>7
<1> HIDE DEF table
<1>9. Follows(table, X, base, F, n)
  BY <1>6, <1>8 DEF Follows
<1>10. PICK c : Steps(c, X, base, F, n) /\ table[1..n] = c[n]
  <2> HIDE DEF Rule
  <2> QED
    BY <1>2, <1>4, <1>9, TableSteps, SMTT(40)
<1>11. ASSUME NEW m \in 1..n PROVE c[m] = UnixStep(c[m - 1], text[m])
  <2>1. c[m] = F[m][c[m - 1]] /\ c[m - 1] \in X
    BY <1>10 DEF Steps
  <2> QED
    BY <2>1 DEF F
<1> QED
  BY <1>0, <1>1, <1>10, <1>11 DEF Steps, X, base

CutType(T) == [blocks : Seq(Seq(T)), rest : Seq(T)]

(* One symbol more leaves finished blocks and a rest that are text.                   *)
LEMMA CutStepType ==
  ASSUME NEW T, NEW s \in CutType(T), NEW c \in T
  PROVE  CutStep(s, c) \in CutType(T)
<1>1. s.rest # <<>> => Front(s.rest) \in Seq(T)
  BY DEF Front, CutType
<1>2. /\ s.blocks \in Seq(Seq(T)) /\ s.rest \in Seq(T)
      /\ Append(s.rest, c) \in Seq(T)
      /\ s.rest # <<>> => Append(s.blocks, Front(s.rest)) \in Seq(Seq(T))
  BY <1>1 DEF CutType
<1>3. [s EXCEPT !.rest = Append(@, c)] \in CutType(T)
  BY <1>2 DEF CutType
<1>4. ASSUME s.rest # <<>>
      PROVE  [blocks |-> Append(s.blocks, Front(s.rest)), rest |-> <<>>] \in CutType(T)
  BY <1>2, <1>4 DEF CutType
<1> QED
  BY <1>3, <1>4 DEF CutStep

(* The fold of Cut, step by step.                                                     *)
LEMMA CutSteps ==
  ASSUME NEW T, NEW text \in Seq(T)
  PROVE  \E c \in [0..Len(text) -> CutType(T)] :
            /\ c[0] = [blocks |-> <<>>, rest |-> <<>>]
            /\ \A m \in 1..Len(text) : c[m] = CutStep(c[m - 1], text[m])
            /\ Cut(text) = c[Len(text)]
<1>0. PICK n \in Nat : n = Len(text) /\ DOMAIN text = 1..n
  OBVIOUS
<1> DEFINE X == CutType(T)
           base == [blocks |-> <<>>, rest |-> <<>>]
           Rule(g) == g = [s \in SUBSET (1..n) |->
                             IF s = {} THEN base ELSE CutStep(g[Below(s)], text[Max(s)])]
           F == [i \in 1..n |-> [x \in X |-> CutStep(x, text[i])]]
           table == CHOOSE g : Rule(g)
<1>1. Cut(text) = table[1..n]
  BY <1>0 DEF Cut, FoldLeft, MapThenFoldSet, Below
<1>2. base \in X
  BY DEF CutType
<1>3. ASSUME NEW i \in 1..n, NEW x \in X PROVE CutStep(x, text[i]) \in X
  BY <1>0, CutStepType
<1>4. F \in [1..n -> [X -> X]]
  BY <1>3
<1> HIDE DEF X, base
<1>5. PICK g : Table(g, X, base, F, n)
  <2> HIDE DEF F
  <2> QED
    BY <1>2, <1>4, FoldExists
<1>6. ASSUME NEW s \in SUBSET (1..n), s # {}, NEW x \in X
      PROVE  F[Max(s)][x] = CutStep(x, text[Max(s)])
  BY <1>6, BelowIn
<1> HIDE DEF F
<1>7. Rule(g)
  <2>1. \A s \in SUBSET (1..n) : s # {} => Below(s) \in SUBSET (1..n)
    BY BelowIn
  <2>2. ASSUME NEW s \in SUBSET (1..n), s # {}
        PROVE  F[Max(s)][g[Below(s)]] = CutStep(g[Below(s)], text[Max(s)])
    BY <1>5, <1>6, <2>1, <2>2 DEF Table
  <2> QED
    BY <1>5, <2>2 DEF Table
<1>8. Rule(table)
  BY <1>7
<1> HIDE DEF table
<1>9. Follows(table, X, base, F, n)
  BY <1>6, <1>8 DEF Follows
<1>10. PICK c : Steps(c, X, base, F, n) /\ table[1..n] = c[n]
  <2> HIDE DEF Rule
  <2> QED
    BY <1>2, <1>4, <1>9, TableSteps, SMTT(40)
<1>11. ASSUME NEW m \in 1..n PROVE c[m] = CutStep(c[m - 1], text[m])
  <2>1. c[m] = F[m][c[m - 1]] /\ c[m - 1] \in X
    BY <1>10 DEF Steps
  <2> QED
    BY <2>1 DEF F
<1> QED
  BY <1>0, <1>1, <1>10, <1>11 DEF Steps, X, base

LineType(T) == [done : Seq(Seq(T)), line : Seq(T)]

(* One symbol more leaves finished lines and a line that are text.                    *)
LEMMA LineStepType ==
  ASSUME NEW T, NEW s \in LineType(T), NEW c \in T
  PROVE  LineStep(s, c) \in LineType(T)
<1>1. s.done \in Seq(Seq(T)) /\ s.line \in Seq(T)
  BY DEF LineType
<1>2. Append(s.done, s.line) \in Seq(Seq(T)) /\ Append(s.line, c) \in Seq(T)
  BY <1>1
<1>3. [s EXCEPT !.line = Append(@, c)] \in LineType(T)
  BY <1>2 DEF LineType
<1>4. [done |-> Append(s.done, s.line), line |-> <<>>] \in LineType(T)
  BY <1>2 DEF LineType
<1> QED
  BY <1>3, <1>4 DEF LineStep

(* The fold of Divided, step by step.                                                 *)
LEMMA LineSteps ==
  ASSUME NEW T, NEW text \in Seq(T)
  PROVE  \E c \in [0..Len(text) -> LineType(T)] :
            /\ c[0] = [done |-> <<>>, line |-> <<>>]
            /\ \A m \in 1..Len(text) : c[m] = LineStep(c[m - 1], text[m])
            /\ Divided(text) = c[Len(text)]
<1>0. PICK n \in Nat : n = Len(text) /\ DOMAIN text = 1..n
  OBVIOUS
<1> DEFINE X == LineType(T)
           base == [done |-> <<>>, line |-> <<>>]
           Rule(g) == g = [s \in SUBSET (1..n) |->
                             IF s = {} THEN base ELSE LineStep(g[Below(s)], text[Max(s)])]
           F == [i \in 1..n |-> [x \in X |-> LineStep(x, text[i])]]
           table == CHOOSE g : Rule(g)
<1>1. Divided(text) = table[1..n]
  BY <1>0 DEF Divided, FoldLeft, MapThenFoldSet, Below
<1>2. base \in X
  BY DEF LineType
<1>3. ASSUME NEW i \in 1..n, NEW x \in X PROVE LineStep(x, text[i]) \in X
  BY <1>0, LineStepType
<1>4. F \in [1..n -> [X -> X]]
  BY <1>3
<1> HIDE DEF X, base
<1>5. PICK g : Table(g, X, base, F, n)
  <2> HIDE DEF F
  <2> QED
    BY <1>2, <1>4, FoldExists
<1>6. ASSUME NEW s \in SUBSET (1..n), s # {}, NEW x \in X
      PROVE  F[Max(s)][x] = LineStep(x, text[Max(s)])
  BY <1>6, BelowIn
<1> HIDE DEF F
<1>7. Rule(g)
  <2>1. \A s \in SUBSET (1..n) : s # {} => Below(s) \in SUBSET (1..n)
    BY BelowIn
  <2>2. ASSUME NEW s \in SUBSET (1..n), s # {}
        PROVE  F[Max(s)][g[Below(s)]] = LineStep(g[Below(s)], text[Max(s)])
    BY <1>5, <1>6, <2>1, <2>2 DEF Table
  <2> QED
    BY <1>5, <2>2 DEF Table
<1>8. Rule(table)
  BY <1>7
<1> HIDE DEF table
<1>9. Follows(table, X, base, F, n)
  BY <1>6, <1>8 DEF Follows
<1>10. PICK c : Steps(c, X, base, F, n) /\ table[1..n] = c[n]
  <2> HIDE DEF Rule
  <2> QED
    BY <1>2, <1>4, <1>9, TableSteps, SMTT(40)
<1>11. ASSUME NEW m \in 1..n PROVE c[m] = LineStep(c[m - 1], text[m])
  <2>1. c[m] = F[m][c[m - 1]] /\ c[m - 1] \in X
    BY <1>10 DEF Steps
  <2> QED
    BY <2>1 DEF F
<1> QED
  BY <1>0, <1>1, <1>10, <1>11 DEF Steps, X, base
----------------------------------------------------------------------------------
(* strip() takes a part of a line.                                                    *)
LEMMA StripType ==
  ASSUME NEW T, NEW line \in Seq(T)
  PROVE  Strip(line) \in Seq(T)
<1>1. PICK n \in Nat : n = Len(line) /\ DOMAIN line = 1..n
  OBVIOUS
<1> DEFINE kept == {i \in DOMAIN line : line[i] # CR}
<1>2. kept \in SUBSET (1..n)
  BY <1>1
<1>3. CASE kept # {}
  <2>1. Min(kept) \in 1..n /\ Max(kept) \in 1..n
    <3> HIDE DEF kept
    <3> QED
      BY <1>2, <1>3, MaxIn, MinIn
  <2>2. SubSeq(line, Min(kept), Max(kept)) \in Seq(T)
    <3> HIDE DEF kept
    <3> QED
      BY <1>1, <2>1
  <2> QED
    BY <1>3, <2>2 DEF Strip
<1> QED
  BY <1>3 DEF Strip

(* The lines of a text are text.                                                      *)
LEMMA LinesType ==
  ASSUME NEW T, NEW text \in Seq(T)
  PROVE  Lines(text) \in Seq(Seq(T))
<1>1. Divided(text) \in LineType(T)
  <2>1. Len(text) \in 0..Len(text)
    OBVIOUS
  <2> QED
    BY <2>1, LineSteps
<1>2. PICK done \in Seq(Seq(T)), line \in Seq(T) :
         Divided(text).done = done /\ Divided(text).line = line
  BY <1>1 DEF LineType
<1>3. PICK n \in Nat : n = Len(done) /\ DOMAIN done = 1..n
  BY <1>2
<1>4. ASSUME NEW i \in 1..(n + 1)
      PROVE  Strip(IF i > n THEN line ELSE done[i]) \in Seq(T)
  <2>1. i <= n => done[i] \in Seq(T)
    BY <1>3
  <2>2. (IF i > n THEN line ELSE done[i]) \in Seq(T)
    BY <2>1
  <2> QED
    BY <2>2, StripType
<1>5. Lines(text) = [i \in 1..(n + 1) |-> Strip(IF i > n THEN line ELSE done[i])]
  BY <1>2, <1>3 DEF Lines
<1>6. n + 1 \in Nat
  OBVIOUS
<1> QED
  BY <1>4, <1>5, <1>6

DataType(K) == {line \in Seq(Symbols(K)) : IsData(line)}

(* The data lines of a text begin with the first half of an event.                    *)
LEMMA DataLinesType ==
  ASSUME NEW K, NEW text \in Seq(Symbols(K))
  PROVE  DataLines(text) \in Seq(DataType(K))
<1>1. PICK lines \in Seq(Seq(Symbols(K))) : lines = Lines(text)
  BY LinesType
<1>2. PICK n \in Nat : n = Len(lines) /\ DOMAIN lines = 1..n
  BY <1>1
<1> DEFINE ss == [i \in 1..n |-> IF IsData(lines[i]) THEN <<lines[i]>> ELSE <<>>]
<1>3. ASSUME NEW i \in 1..n PROVE ss[i] \in Seq(DataType(K))
  <2>1. lines[i] \in Seq(Symbols(K))
    BY <1>1, <1>2
  <2>2. IsData(lines[i]) => lines[i] \in DataType(K)
    BY <2>1 DEF DataType
  <2> QED
    BY <2>2
<1>4. ss \in Seq(Seq(DataType(K)))
  <2>1. ss = [i \in 1..n |-> ss[i]]
    OBVIOUS
  <2> HIDE DEF ss
  <2> QED
    BY <1>3, <2>1, TypedList
<1>5. DataLines(text) = FlattenSeq(ss)
  BY <1>1, <1>2 DEF DataLines
<1> HIDE DEF ss
<1> QED
  BY <1>4, <1>5, FlattenType

(* parse_sse_line gives the number of an event of the text, or nothing readable.      *)
LEMMA ParsedType ==
  ASSUME NEW K, NEW lines \in Seq(DataType(K))
  PROVE  Parsed(lines) \in K \cup {Garbled}
<1>1. CASE Len(lines) = 1 /\ Len(lines[1]) = 2
  <2>1. lines[1] \in Seq(Symbols(K))
    BY <1>1 DEF DataType
  <2>2. lines[1][1] \in Symbols(K)
    BY <1>1, <2>1
  <2>3. lines[1][1][2] \in K
    BY <2>2 DEF Symbols
  <2> QED
    BY <2>3 DEF Parsed
<1> QED
  BY <1>1 DEF Parsed

(* So do all finished blocks together.                                                *)
LEMMA EventsOfType ==
  ASSUME NEW K, NEW blocks \in Seq(Seq(Symbols(K)))
  PROVE  EventsOf(blocks) \in Seq(K \cup {Garbled})
<1>1. PICK n \in Nat : n = Len(blocks) /\ DOMAIN blocks = 1..n
  OBVIOUS
<1> DEFINE ss == [i \in 1..n |-> EventIn(blocks[i])]
<1>2. ASSUME NEW i \in 1..n PROVE ss[i] \in Seq(K \cup {Garbled})
  <2>1. blocks[i] \in Seq(Symbols(K))
    BY <1>1
  <2>2. PICK e \in K \cup {Garbled} : e = Parsed(DataLines(blocks[i]))
    BY <2>1, DataLinesType, ParsedType
  <2>3. <<e>> \in Seq(K \cup {Garbled}) /\ <<>> \in Seq(K \cup {Garbled})
    BY <2>2
  <2>4. ss[i] \in {<<e>>, <<>>}
    BY <2>2 DEF EventIn
  <2> QED
    BY <2>3, <2>4
<1>3. ss \in Seq(Seq(K \cup {Garbled}))
  <2>1. ss = [i \in 1..n |-> ss[i]]
    OBVIOUS
  <2> HIDE DEF ss
  <2> QED
    BY <1>2, <2>1
<1>4. EventsOf(blocks) = FlattenSeq(ss)
  BY <1>1 DEF EventsOf
<1> HIDE DEF ss
<1> QED
  BY <1>3, <1>4, FlattenType

(* split_sse_buffer and the flush at the end give numbers of events whose text        *)
(* arrived, or nothing readable, and the text left over is of the same symbols.       *)
LEMMA SplitType ==
  ASSUME NEW K, 0 \in K, NEW received \in Seq(Symbols(K))
  PROVE  /\ Split(received).events \in Seq(K \cup {Garbled})
         /\ Split(received).rest \in Seq(Symbols(K))
         /\ Flush(received) \in Seq(K \cup {Garbled})
<1>1. LF \in Symbols(K)
  BY DEF LF, Symbols
<1>2. PICK text \in Seq(Symbols(K)) : text = Unix(received)
  <2>1. Len(received) \in 0..Len(received)
    OBVIOUS
  <2> QED
    BY <1>1, <2>1, UnixSteps
<1>3. Cut(text) \in CutType(Symbols(K))
  <2>1. Len(text) \in 0..Len(text)
    OBVIOUS
  <2> QED
    BY <2>1, CutSteps
<1>4. Cut(text).blocks \in Seq(Seq(Symbols(K))) /\ Cut(text).rest \in Seq(Symbols(K))
  BY <1>3 DEF CutType
<1>5. Split(received).events \in Seq(K \cup {Garbled})
  BY <1>2, <1>4, EventsOfType DEF Split
<1>6. Split(received).rest \in Seq(Symbols(K))
  BY <1>2, <1>4 DEF Split
<1>7. Flush(received) \in Seq(K \cup {Garbled})
  <2>1. PICK data \in Seq(DataType(K)) : data = DataLines(text)
    BY DataLinesType
  <2>2. PICK n \in Nat : n = Len(data) /\ DOMAIN data = 1..n
    BY <2>1
  <2>3. ASSUME NEW i \in 1..n PROVE Parsed(<<data[i]>>) \in K \cup {Garbled}
    <3>1. <<data[i]>> \in Seq(DataType(K))
      BY <2>1, <2>2
    <3> QED
      BY <3>1, ParsedType
  <2>4. Flush(received) = [i \in 1..n |-> Parsed(<<data[i]>>)]
    BY <1>2, <2>1, <2>2 DEF Flush
  <2> QED
    BY <2>3, <2>4
<1> QED
  BY <1>5, <1>6, <1>7
------------------------------------------------------------------------------------
(* A list with one more element is a list.                                            *)
LEMMA Appended ==
  ASSUME NEW S, NEW o \in Seq(S), NEW c \in S
  PROVE  Append(o, c) \in Seq(S)
  OBVIOUS

(* One symbol more is one step more, of each of the three folds.                      *)
LEMMA UnixAppend ==
  ASSUME NEW T, LF \in T, NEW t \in Seq(T), NEW c \in T
  PROVE  Unix(Append(t, c)) = UnixStep(Unix(t), c)
<1>1. PICK n \in Nat, k \in Nat : n = Len(t) /\ k = n + 1
  OBVIOUS
<1>2. PICK u \in Seq(T) : u = Append(t, c)
  BY Appended
<1>3. Len(u) = k /\ (\A i \in 1..n : u[i] = t[i]) /\ u[k] = c
  BY <1>1, <1>2
<1>4. PICK a : /\ a[0] = <<>>
               /\ \A m \in 1..n : a[m] = UnixStep(a[m - 1], t[m])
               /\ Unix(t) = a[n]
  BY <1>1, UnixSteps
<1>5. PICK b \in [0..k -> Seq(T)] :
         /\ b[0] = <<>>
         /\ \A m \in 1..k : b[m] = UnixStep(b[m - 1], u[m])
         /\ Unix(u) = b[k]
  BY <1>2, <1>3, UnixSteps
<1> DEFINE G == {m \in 0..n : a[m] = b[m]}
<1>6. 0 \in G
  BY <1>4, <1>5
<1>7. ASSUME NEW m \in 1..n, m - 1 \in G PROVE m \in G
  <2>1. m \in 1..k /\ u[m] = t[m] /\ a[m - 1] = b[m - 1]
    BY <1>1, <1>3, <1>7
  <2>2. a[m] = UnixStep(a[m - 1], t[m])
    BY <1>4
  <2>3. b[m] = UnixStep(b[m - 1], u[m])
    BY <1>5, <2>1
  <2>4. a[m] = b[m]
    BY <2>1, <2>2, <2>3
  <2> QED
    BY <2>4
<1>8. \A m \in 0..n : m \in G
  <2> HIDE DEF G
  <2> QED
    BY <1>6, <1>7, CountingUp
<1>9. n \in 0..n /\ k \in 1..k /\ k - 1 = n
  BY <1>1
<1> QED
  BY <1>2, <1>3, <1>4, <1>5, <1>8, <1>9

(* The blocks and the rest, one symbol later.                                         *)
LEMMA CutAppend ==
  ASSUME NEW T, NEW t \in Seq(T), NEW c \in T
  PROVE  Cut(Append(t, c)) = CutStep(Cut(t), c)
<1>1. PICK n \in Nat, k \in Nat : n = Len(t) /\ k = n + 1
  OBVIOUS
<1>2. PICK u \in Seq(T) : u = Append(t, c)
  BY Appended
<1>3. Len(u) = k /\ (\A i \in 1..n : u[i] = t[i]) /\ u[k] = c
  BY <1>1, <1>2
<1>4. PICK a : /\ a[0] = [blocks |-> <<>>, rest |-> <<>>]
               /\ \A m \in 1..n : a[m] = CutStep(a[m - 1], t[m])
               /\ Cut(t) = a[n]
  BY <1>1, CutSteps
<1>5. PICK b \in [0..k -> CutType(T)] :
         /\ b[0] = [blocks |-> <<>>, rest |-> <<>>]
         /\ \A m \in 1..k : b[m] = CutStep(b[m - 1], u[m])
         /\ Cut(u) = b[k]
  BY <1>2, <1>3, CutSteps
<1> DEFINE G == {m \in 0..n : a[m] = b[m]}
<1>6. 0 \in G
  BY <1>4, <1>5
<1>7. ASSUME NEW m \in 1..n, m - 1 \in G PROVE m \in G
  <2>1. m \in 1..k /\ u[m] = t[m] /\ a[m - 1] = b[m - 1]
    BY <1>1, <1>3, <1>7
  <2>2. a[m] = CutStep(a[m - 1], t[m])
    BY <1>4
  <2>3. b[m] = CutStep(b[m - 1], u[m])
    BY <1>5, <2>1
  <2>4. a[m] = b[m]
    BY <2>1, <2>2, <2>3
  <2> QED
    BY <2>4
<1>8. \A m \in 0..n : m \in G
  <2> HIDE DEF G
  <2> QED
    BY <1>6, <1>7, CountingUp
<1>9. n \in 0..n /\ k \in 1..k /\ k - 1 = n
  BY <1>1
<1> QED
  BY <1>2, <1>3, <1>4, <1>5, <1>8, <1>9

(* The lines, one symbol later.                                                       *)
LEMMA LineAppend ==
  ASSUME NEW T, NEW t \in Seq(T), NEW c \in T
  PROVE  Divided(Append(t, c)) = LineStep(Divided(t), c)
<1>1. PICK n \in Nat, k \in Nat : n = Len(t) /\ k = n + 1
  OBVIOUS
<1>2. PICK u \in Seq(T) : u = Append(t, c)
  BY Appended
<1>3. Len(u) = k /\ (\A i \in 1..n : u[i] = t[i]) /\ u[k] = c
  BY <1>1, <1>2
<1>4. PICK a : /\ a[0] = [done |-> <<>>, line |-> <<>>]
               /\ \A m \in 1..n : a[m] = LineStep(a[m - 1], t[m])
               /\ Divided(t) = a[n]
  BY <1>1, LineSteps
<1>5. PICK b \in [0..k -> LineType(T)] :
         /\ b[0] = [done |-> <<>>, line |-> <<>>]
         /\ \A m \in 1..k : b[m] = LineStep(b[m - 1], u[m])
         /\ Divided(u) = b[k]
  BY <1>2, <1>3, LineSteps
<1> DEFINE G == {m \in 0..n : a[m] = b[m]}
<1>6. 0 \in G
  BY <1>4, <1>5
<1>7. ASSUME NEW m \in 1..n, m - 1 \in G PROVE m \in G
  <2>1. m \in 1..k /\ u[m] = t[m] /\ a[m - 1] = b[m - 1]
    BY <1>1, <1>3, <1>7
  <2>2. a[m] = LineStep(a[m - 1], t[m])
    BY <1>4
  <2>3. b[m] = LineStep(b[m - 1], u[m])
    BY <1>5, <2>1
  <2>4. a[m] = b[m]
    BY <2>1, <2>2, <2>3
  <2> QED
    BY <2>4
<1>8. \A m \in 0..n : m \in G
  <2> HIDE DEF G
  <2> QED
    BY <1>6, <1>7, CountingUp
<1>9. n \in 0..n /\ k \in 1..k /\ k - 1 = n
  BY <1>1
<1> QED
  BY <1>2, <1>3, <1>4, <1>5, <1>8, <1>9

------------------------------------------------------------------------------------
(* The wire: an event is as many symbols as its format has.                           *)
SizeOf(crlf) == IF crlf THEN 6 ELSE 4

SymbolAt(k, p, crlf) == Formatted(k, crlf)[p + 1]

(* What of event k is in the buffer when p of its symbols have been read, line ends   *)
(* converted, but for a carriage return whose line feed has not arrived.              *)
Clear(k, p, crlf) ==
    IF p = 0 THEN <<>>
    ELSE IF p = 1 THEN <<Begin(k)>>
    ELSE IF p = 2 \/ (p = 3 /\ crlf) THEN <<Begin(k), End(k)>>
    ELSE <<Begin(k), End(k), LF>>

Pending(p, crlf) == crlf /\ p \in {3, 5}

Held(k, p, crlf) == IF Pending(p, crlf) THEN Append(Clear(k, p, crlf), CR) ELSE Clear(k, p, crlf)

Whole(k) == <<Begin(k), End(k)>>

(* U is the text so far, line ends converted: these blocks are finished, and p symbol *)
(* of event k follow.                                                                 *)
At(T, U, blocks, k, p, crlf) ==
    \E V \in Seq(T) :
        /\ Cut(V) = [blocks |-> blocks, rest |-> Clear(k, p, crlf)]
        /\ V = <<>> \/ Last(V) # CR
        /\ U = IF Pending(p, crlf) THEN Append(V, CR) ELSE V

(* The symbols are different.                                                         *)
LEMMA SymbolsDiffer ==
  ASSUME NEW k
  PROVE  /\ Begin(k) # LF /\ Begin(k) # CR /\ End(k) # LF /\ End(k) # CR /\ LF # CR
         /\ Begin(k)[1] = "begin" /\ Begin(k)[2] = k /\ LF[1] # "begin" /\ CR[1] # "begin"
         /\ End(k)[1] # "begin"
  BY DEF Begin, End, LF, CR

(* The last element of a list, and those before it.                                   *)
LEMMA AppendLast ==
  ASSUME NEW T, NEW t \in Seq(T), NEW c \in T
  PROVE  /\ Append(t, c) \in Seq(T) /\ Append(t, c) # <<>>
         /\ Last(Append(t, c)) = c /\ Front(Append(t, c)) = t
  BY DEF Last, Front

(* The symbols of an event, one by one.                                               *)
LEMMA SymbolsAre ==
  ASSUME NEW k, NEW crlf \in BOOLEAN
  PROVE  /\ SymbolAt(k, 0, crlf) = Begin(k) /\ SymbolAt(k, 1, crlf) = End(k)
         /\ SymbolAt(k, 2, crlf) = IF crlf THEN CR ELSE LF
         /\ SymbolAt(k, 3, crlf) = LF
         /\ crlf => SymbolAt(k, 4, crlf) = CR /\ SymbolAt(k, 5, crlf) = LF
         /\ Len(Formatted(k, crlf)) = SizeOf(crlf)
<1>1. PICK f : f = Formatted(k, crlf)
  OBVIOUS
<1>2. CASE crlf
  <2>1. /\ Len(f) = 6 /\ f[1] = Begin(k) /\ f[2] = End(k)
        /\ f[3] = CR /\ f[4] = LF /\ f[5] = CR /\ f[6] = LF
    BY <1>1, <1>2 DEF Formatted, Terminator
  <2>2. \A p : SymbolAt(k, p, crlf) = f[p + 1]
    BY <1>1 DEF SymbolAt
  <2>3. 0 + 1 = 1 /\ 1 + 1 = 2 /\ 2 + 1 = 3 /\ 3 + 1 = 4 /\ 4 + 1 = 5 /\ 5 + 1 = 6
    OBVIOUS
  <2> QED
    BY <1>1, <1>2, <2>1, <2>2, <2>3, Zenon DEF SizeOf
<1>3. CASE ~crlf
  <2>1. Len(f) = 4 /\ f[1] = Begin(k) /\ f[2] = End(k) /\ f[3] = LF /\ f[4] = LF
    BY <1>1, <1>3 DEF Formatted, Terminator
  <2> QED
    BY <1>1, <1>3, <2>1 DEF SymbolAt, SizeOf
<1> QED
  BY <1>2, <1>3

(* Text of event k.                                                                   *)
TextOf(T, k) == {Begin(k), End(k), LF, CR} \subseteq T

(* What has been read of an event, and what is held back of it, are texts.            *)
LEMMA ClearType ==
  ASSUME NEW T, NEW k, TextOf(T, k), NEW p, NEW crlf \in BOOLEAN
  PROVE  Clear(k, p, crlf) \in Seq(T) /\ Held(k, p, crlf) \in Seq(T)
<1>1. Begin(k) \in T /\ End(k) \in T /\ LF \in T /\ CR \in T
  BY DEF TextOf
<1>2. /\ <<>> \in Seq(T) /\ <<Begin(k)>> \in Seq(T) /\ <<Begin(k), End(k)>> \in Seq(T)
      /\ <<Begin(k), End(k), LF>> \in Seq(T)
  BY <1>1
<1>3. Clear(k, p, crlf) \in Seq(T)
  BY <1>2 DEF Clear
<1> QED
  BY <1>1, <1>3, Appended DEF Held

(* One symbol other than a line feed.                                                 *)
LEMMA PlainStep ==
  ASSUME NEW T, LF \in T, NEW U \in Seq(T), NEW c \in T, c # LF
  PROVE  UnixStep(U, c) = Append(U, c)
  BY DEF UnixStep

(* A line feed, after a carriage return or not.                                       *)
LEMMA LineFeedStep ==
  ASSUME NEW T, LF \in T, CR \in T, NEW V \in Seq(T), V = <<>> \/ Last(V) # CR,
         NEW U, U = V \/ U = Append(V, CR)
  PROVE  UnixStep(U, LF) = Append(V, LF)
<1>1. Append(V, CR) # <<>> /\ Last(Append(V, CR)) = CR /\ Front(Append(V, CR)) = V
  BY AppendLast
<1> QED
  BY <1>1 DEF UnixStep

(* The text goes on within its last line, or its last block.                          *)
LEMMA CutGoesOn ==
  ASSUME NEW T, NEW V \in Seq(T), NEW c \in T, NEW blocks, NEW rest,
         Cut(V) = [blocks |-> blocks, rest |-> rest],
         c # LF \/ rest = <<>> \/ Last(rest) # LF
  PROVE  Cut(Append(V, c)) = [blocks |-> blocks, rest |-> Append(rest, c)]
<1>1. Cut(Append(V, c)) = CutStep(Cut(V), c)
  BY CutAppend
<1>2. PICK s : s = Cut(V) /\ s.blocks = blocks /\ s.rest = rest /\ s = [blocks |-> blocks, rest |-> rest]
  OBVIOUS
<1>3. CutStep(s, c) = [s EXCEPT !.rest = Append(@, c)]
  BY <1>2 DEF CutStep
<1> QED
  BY <1>1, <1>2, <1>3

(* An empty line finishes a block.                                                    *)
LEMMA CutFinishes ==
  ASSUME NEW T, LF \in T, NEW V \in Seq(T), NEW blocks, NEW rest,
         Cut(V) = [blocks |-> blocks, rest |-> rest], rest # <<>>, Last(rest) = LF
  PROVE  Cut(Append(V, LF)) = [blocks |-> Append(blocks, Front(rest)), rest |-> <<>>]
<1>1. Cut(Append(V, LF)) = CutStep(Cut(V), LF)
  BY CutAppend
<1>2. PICK s : s = Cut(V) /\ s.blocks = blocks /\ s.rest = rest
  OBVIOUS
<1>3. CutStep(s, LF) = [blocks |-> Append(blocks, Front(rest)), rest |-> <<>>]
  BY <1>2 DEF CutStep
<1> QED
  BY <1>1, <1>2, <1>3

(* Lists of one, two and three elements are what Append makes of them.                *)
LEMMA FirstOf ==
  ASSUME NEW b
  PROVE  Append(<<>>, b) = <<b>>
<1>1. PICK s, t : s = Append(<<>>, b) /\ t = <<b>>
  OBVIOUS
<1>2. s[1] = b
  BY <1>1
<1>3. t[1] = b
  BY <1>1
<1>4. s = [i \in 1..1 |-> s[i]]
  BY <1>1
<1>5. t = [i \in 1..1 |-> t[i]]
  BY <1>1
<1>6. \A i \in 1..1 : s[i] = t[i]
  <2>1. \A i \in 1..1 : i = 1
    OBVIOUS
  <2> QED
    BY <1>2, <1>3, <2>1
<1> QED
  BY <1>1, <1>4, <1>5, <1>6

(* A second element,                                                                  *)
LEMMA SecondOf ==
  ASSUME NEW b, NEW e
  PROVE  Append(<<b>>, e) = <<b, e>>
<1>1. PICK s, t : s = Append(<<b>>, e) /\ t = <<b, e>>
  OBVIOUS
<1>2. s[1] = b /\ s[2] = e
  BY <1>1
<1>3. t[1] = b /\ t[2] = e
  BY <1>1
<1>4. s = [i \in 1..2 |-> s[i]]
  BY <1>1
<1>5. t = [i \in 1..2 |-> t[i]]
  BY <1>1
<1>6. \A i \in 1..2 : s[i] = t[i]
  <2>1. \A i \in 1..2 : i = 1 \/ i = 2
    OBVIOUS
  <2> QED
    BY <1>2, <1>3, <2>1
<1> QED
  BY <1>1, <1>4, <1>5, <1>6

(* a third.                                                                           *)
LEMMA ThirdOf ==
  ASSUME NEW b, NEW e, NEW l
  PROVE  Append(<<b, e>>, l) = <<b, e, l>>
<1>1. PICK s, t : s = Append(<<b, e>>, l) /\ t = <<b, e, l>>
  OBVIOUS
<1>2. s[1] = b /\ s[2] = e /\ s[3] = l
  BY <1>1
<1>3. t[1] = b /\ t[2] = e /\ t[3] = l
  BY <1>1
<1>4. s = [i \in 1..3 |-> s[i]]
  BY <1>1
<1>5. t = [i \in 1..3 |-> t[i]]
  BY <1>1
<1>6. \A i \in 1..3 : s[i] = t[i]
  <2>1. \A i \in 1..3 : i = 1 \/ i = 2 \/ i = 3
    OBVIOUS
  <2> QED
    BY <1>2, <1>3, <2>1
<1> QED
  BY <1>1, <1>4, <1>5, <1>6

(* A symbol that goes into the buffer.                                                *)
LEMMA ClearGrows ==
  ASSUME NEW k, NEW crlf \in BOOLEAN
  PROVE  /\ Clear(k, 0, crlf) = <<>>
         /\ Append(Clear(k, 0, crlf), Begin(k)) = Clear(k, 1, crlf)
         /\ Append(Clear(k, 1, crlf), End(k)) = Clear(k, 2, crlf)
         /\ Append(Clear(k, 2, crlf), LF) = Clear(k, 4, crlf)
         /\ Clear(k, 3, crlf) = IF crlf THEN Clear(k, 2, crlf) ELSE Clear(k, 4, crlf)
         /\ Clear(k, 5, crlf) = Clear(k, 4, crlf)
         /\ Clear(k, 2, crlf) = Whole(k)
<1>1. PICK b, e, l : b = Begin(k) /\ e = End(k) /\ l = LF
  OBVIOUS
<1>2. /\ Clear(k, 0, crlf) = <<>> /\ Clear(k, 1, crlf) = <<b>> /\ Clear(k, 2, crlf) = <<b, e>>
      /\ Clear(k, 4, crlf) = <<b, e, l>> /\ Clear(k, 5, crlf) = <<b, e, l>>
  BY <1>1 DEF Clear
<1>3. Append(<<>>, b) = <<b>> /\ Append(<<b>>, e) = <<b, e>> /\ Append(<<b, e>>, l) = <<b, e, l>>
  BY FirstOf, SecondOf, ThirdOf
<1>4. Clear(k, 3, crlf) = IF crlf THEN <<b, e>> ELSE <<b, e, l>>
  BY <1>1 DEF Clear
<1>5. Whole(k) = <<b, e>>
  BY <1>1 DEF Whole
<1> QED
  BY <1>1, <1>2, <1>3, <1>4, <1>5

(* What the next symbol of the wire makes of the text so far.                         *)
Moves(T, U, blocks, k, p, crlf) ==
    IF p + 1 = SizeOf(crlf)
    THEN At(T, UnixStep(U, SymbolAt(k, p, crlf)), Append(blocks, Whole(k)), k + 1, 0, crlf)
    ELSE At(T, UnixStep(U, SymbolAt(k, p, crlf)), blocks, k, p + 1, crlf)

(* One symbol more of the wire moves the framing one position on: it is in the same   *)
(* event, further, or at the start of the next, with a block more.                    *)
LEMMA AtMoves ==
  ASSUME NEW T, NEW k, TextOf(T, k), NEW crlf \in BOOLEAN, NEW p \in 0..(SizeOf(crlf) - 1),
         NEW U, NEW blocks, At(T, U, blocks, k, p, crlf)
  PROVE  Moves(T, U, blocks, k, p, crlf)
<1>0. Begin(k) \in T /\ End(k) \in T /\ LF \in T /\ CR \in T
  BY DEF TextOf
<1>1. PICK rest \in Seq(T) : rest = Clear(k, p, crlf)
  BY ClearType
<1>2. PICK V \in Seq(T) :
         /\ Cut(V) = [blocks |-> blocks, rest |-> rest]
         /\ V = <<>> \/ Last(V) # CR
         /\ U = IF Pending(p, crlf) THEN Append(V, CR) ELSE V
  BY <1>1 DEF At
<1>3. PICK c : c = SymbolAt(k, p, crlf)
  OBVIOUS
<1>4. ASSUME NEW W \in Seq(T), NEW more, NEW j, NEW q,
             UnixStep(U, c) = (IF Pending(q, crlf) THEN Append(W, CR) ELSE W),
             W = <<>> \/ Last(W) # CR,
             Cut(W) = [blocks |-> more, rest |-> Clear(j, q, crlf)]
      PROVE  At(T, UnixStep(U, c), more, j, q, crlf)
  BY <1>4 DEF At
<1>5. ASSUME p \in {0, 1} PROVE Moves(T, U, blocks, k, p, crlf)
  <2>0. /\ c = IF p = 0 THEN Begin(k) ELSE End(k)
        /\ ~Pending(p, crlf) /\ ~Pending(p + 1, crlf)
    BY <1>3, <1>5, SymbolsAre DEF Pending
  <2>1. /\ c \in {Begin(k), End(k)} /\ ~Pending(p, crlf) /\ ~Pending(p + 1, crlf)
        /\ Append(rest, c) = Clear(k, p + 1, crlf)
    <3>1. CASE p = 0
      BY <1>1, <2>0, <3>1, ClearGrows
    <3>2. CASE p = 1
      BY <1>1, <2>0, <3>2, ClearGrows
    <3> QED
      BY <1>5, <3>1, <3>2
  <2>2. c \in T /\ c # LF /\ c # CR
    BY <1>0, <2>1, SymbolsDiffer
  <2>3. PICK W \in Seq(T) : W = Append(V, c) /\ Last(W) = c
    <3>1. Append(V, c) \in Seq(T) /\ Last(Append(V, c)) = c
      BY <2>2, AppendLast
    <3> QED
      BY <3>1
  <2>4. UnixStep(U, c) = W
    BY <1>0, <1>2, <2>1, <2>2, <2>3, PlainStep
  <2>5. Cut(W) = [blocks |-> blocks, rest |-> Append(rest, c)]
    BY <1>2, <2>2, <2>3, CutGoesOn
  <2>6. At(T, UnixStep(U, c), blocks, k, p + 1, crlf)
    BY <1>4, <2>1, <2>2, <2>3, <2>4, <2>5
  <2> QED
    BY <1>3, <1>5, <2>6 DEF Moves, SizeOf
<1>6. ASSUME p \in {2, 4}, crlf PROVE Moves(T, U, blocks, k, p, crlf)
  <2>1. c = CR /\ ~Pending(p, crlf) /\ Pending(p + 1, crlf) /\ Clear(k, p + 1, crlf) = rest
    <3>1. CASE p = 2
      <4>1. p + 1 = 3
        BY <3>1
      <4>2. SymbolAt(k, 2, crlf) = CR /\ Clear(k, 3, crlf) = Clear(k, 2, crlf)
        BY <1>6, SymbolsAre, ClearGrows
      <4>3. 2 \notin {3, 5} /\ 3 \in {3, 5}
        OBVIOUS
      <4>4. ~Pending(p, crlf) /\ Pending(p + 1, crlf)
        BY <1>6, <3>1, <4>1, <4>3, Zenon DEF Pending
      <4> QED
        BY <1>1, <1>3, <3>1, <4>1, <4>2, <4>4
    <3>2. CASE p = 4
      <4>1. p + 1 = 5
        BY <3>2
      <4>2. SymbolAt(k, 4, crlf) = CR /\ Clear(k, 5, crlf) = Clear(k, 4, crlf)
        BY <1>6, SymbolsAre, ClearGrows
      <4>3. 4 \notin {3, 5} /\ 5 \in {3, 5}
        OBVIOUS
      <4>4. ~Pending(p, crlf) /\ Pending(p + 1, crlf)
        BY <1>6, <3>2, <4>1, <4>3, Zenon DEF Pending
      <4> QED
        BY <1>1, <1>3, <3>2, <4>1, <4>2, <4>4
    <3> QED
      BY <1>6, <3>1, <3>2
  <2>2. UnixStep(U, c) = Append(V, CR)
    BY <1>0, <1>2, <2>1, SymbolsDiffer, PlainStep
  <2>3. At(T, UnixStep(U, c), blocks, k, p + 1, crlf)
    BY <1>2, <1>4, <2>1, <2>2
  <2>4. p + 1 # SizeOf(crlf)
    BY <1>6 DEF SizeOf
  <2> QED
    BY <1>3, <2>3, <2>4 DEF Moves
<1>7. ASSUME \/ p = 2 /\ ~crlf
             \/ p = 3 /\ crlf
      PROVE  Moves(T, U, blocks, k, p, crlf)
  <2>1. c = LF /\ ~Pending(p + 1, crlf) /\ rest = Whole(k) /\ Append(rest, LF) = Clear(k, p + 1, crlf)
    BY <1>1, <1>3, <1>7, SymbolsAre, ClearGrows DEF Pending
  <2>2. PICK W \in Seq(T) : W = Append(V, LF) /\ Last(W) = LF
    BY <1>0, AppendLast
  <2>3. UnixStep(U, c) = W
    BY <1>0, <1>2, <2>1, <2>2, LineFeedStep
  <2>4. Last(rest) # LF
    BY <2>1, SymbolsDiffer DEF Last, Whole
  <2>5. Cut(W) = [blocks |-> blocks, rest |-> Append(rest, LF)]
    BY <1>0, <1>2, <2>2, <2>4, CutGoesOn
  <2>6. At(T, UnixStep(U, c), blocks, k, p + 1, crlf)
    BY <1>4, <2>1, <2>2, <2>3, <2>5, SymbolsDiffer
  <2>7. p + 1 # SizeOf(crlf)
    BY <1>7 DEF SizeOf
  <2> QED
    BY <1>3, <2>6, <2>7 DEF Moves
<1>8. ASSUME \/ p = 3 /\ ~crlf
             \/ p = 5 /\ crlf
      PROVE  Moves(T, U, blocks, k, p, crlf)
  <2>1. c = LF /\ p + 1 = SizeOf(crlf) /\ ~Pending(0, crlf)
    BY <1>3, <1>8, SymbolsAre DEF Pending, SizeOf
  <2>2. rest = Append(Whole(k), LF) /\ Clear(k + 1, 0, crlf) = <<>>
    BY <1>1, <1>8, ClearGrows
  <2>3. Whole(k) \in Seq(T)
    BY <1>0 DEF Whole
  <2>4. rest # <<>> /\ Last(rest) = LF /\ Front(rest) = Whole(k)
    BY <1>0, <2>2, <2>3, AppendLast
  <2>5. PICK W \in Seq(T) : W = Append(V, LF) /\ Last(W) = LF
    BY <1>0, AppendLast
  <2>6. UnixStep(U, c) = W
    BY <1>0, <1>2, <2>1, <2>5, LineFeedStep
  <2>7. Cut(W) = [blocks |-> Append(blocks, Whole(k)), rest |-> <<>>]
    BY <1>0, <1>2, <2>4, <2>5, CutFinishes
  <2>8. At(T, UnixStep(U, c), Append(blocks, Whole(k)), k + 1, 0, crlf)
    BY <1>4, <2>1, <2>2, <2>5, <2>6, <2>7, SymbolsDiffer
  <2> QED
    BY <1>3, <2>1, <2>8 DEF Moves
<1>9. p \in 0..3 \/ (crlf /\ p \in 4..5)
  BY DEF SizeOf
<1> QED
  BY <1>5, <1>6, <1>7, <1>8, <1>9

(* What is in the buffer is as it would be read again.                                *)
LEMMA ClearReads ==
  ASSUME NEW T, NEW k, TextOf(T, k), NEW crlf \in BOOLEAN, NEW p \in 0..5
  PROVE  /\ Unix(Clear(k, p, crlf)) = Clear(k, p, crlf)
         /\ Cut(Clear(k, p, crlf)) = [blocks |-> <<>>, rest |-> Clear(k, p, crlf)]
         /\ Clear(k, p, crlf) = <<>> \/ Last(Clear(k, p, crlf)) # CR
<1>0. Begin(k) \in T /\ End(k) \in T /\ LF \in T /\ CR \in T
  BY DEF TextOf
<1> DEFINE Reads(t) == /\ Unix(t) = t /\ Cut(t) = [blocks |-> <<>>, rest |-> t]
                       /\ t = <<>> \/ Last(t) # CR
<1>1. PICK a \in Seq(T), b \in Seq(T), c \in Seq(T), d \in Seq(T) :
         /\ a = Clear(k, 0, crlf) /\ b = Clear(k, 1, crlf)
         /\ c = Clear(k, 2, crlf) /\ d = Clear(k, 4, crlf)
  BY ClearType
<1>2. a = <<>> /\ b = Append(a, Begin(k)) /\ c = Append(b, End(k)) /\ d = Append(c, LF) /\ c = Whole(k)
  BY <1>1, ClearGrows
<1>3. Reads(a)
  <2>1. a = <<>> /\ Len(a) = 0
    BY <1>2
  <2>2. PICK f \in [0..Len(a) -> Seq(T)] : f[0] = <<>> /\ Unix(a) = f[Len(a)]
    BY <1>0, UnixSteps
  <2>3. PICK g \in [0..Len(a) -> CutType(T)] : g[0] = [blocks |-> <<>>, rest |-> <<>>] /\ Cut(a) = g[Len(a)]
    BY CutSteps
  <2> QED
    BY <2>1, <2>2, <2>3
<1>4. ASSUME NEW t \in Seq(T), NEW x \in {Begin(k), End(k)}, Reads(t) PROVE Reads(Append(t, x))
  <2>1. x \in T /\ x # LF /\ x # CR
    BY <1>0, SymbolsDiffer
  <2>2. Unix(Append(t, x)) = UnixStep(t, x)
    BY <1>0, <1>4, <2>1, UnixAppend
  <2>3. UnixStep(t, x) = Append(t, x)
    BY <1>0, <2>1, PlainStep
  <2>4. Cut(Append(t, x)) = [blocks |-> <<>>, rest |-> Append(t, x)]
    BY <1>4, <2>1, CutGoesOn
  <2>5. Last(Append(t, x)) = x
    BY <2>1, AppendLast
  <2> QED
    BY <2>1, <2>2, <2>3, <2>4, <2>5
<1>5. Reads(b)
  <2> HIDE DEF Reads
  <2> QED
    BY <1>2, <1>3, <1>4
<1>6. Reads(c)
  <2> HIDE DEF Reads
  <2> QED
    BY <1>2, <1>4, <1>5
<1>7. Reads(d)
  <2>1. Unix(d) = UnixStep(c, LF)
    BY <1>0, <1>2, <1>6, UnixAppend
  <2>2. UnixStep(c, LF) = d
    BY <1>0, <1>2, <1>6, LineFeedStep
  <2>3. Last(c) # LF
    BY <1>2, SymbolsDiffer DEF Last, Whole
  <2>4. Cut(d) = [blocks |-> <<>>, rest |-> d]
    <3>1. PICK none : none = <<>> /\ Cut(c) = [blocks |-> none, rest |-> c]
      BY <1>6
    <3>2. Cut(Append(c, LF)) = [blocks |-> none, rest |-> Append(c, LF)]
      BY <1>0, <2>3, <3>1, CutGoesOn
    <3> QED
      BY <1>2, <3>1, <3>2
  <2>5. Last(d) = LF
    <3>1. Last(Append(c, LF)) = LF
      BY <1>0, AppendLast
    <3> QED
      BY <1>2, <3>1
  <2> QED
    BY <2>1, <2>2, <2>4, <2>5, SymbolsDiffer
<1>8. Clear(k, p, crlf) \in {a, b, c, d}
  <2>1. p \in {0, 1, 2, 3, 4, 5}
    OBVIOUS
  <2> QED
    BY <1>1, <2>1, ClearGrows
<1>9. Reads(Clear(k, p, crlf))
  <2> HIDE DEF Reads
  <2> QED
    BY <1>3, <1>5, <1>6, <1>7, <1>8
<1> QED
  BY <1>9

(* What is held back, read again by itself, is at the same position of its event.     *)
LEMMA HeldAt ==
  ASSUME NEW T, NEW k, TextOf(T, k), NEW crlf \in BOOLEAN, NEW p \in 0..5
  PROVE  /\ At(T, Unix(Held(k, p, crlf)), <<>>, k, p, crlf)
         /\ Unix(Held(k, p, crlf)) = Held(k, p, crlf)
<1>0. LF \in T /\ CR \in T
  BY DEF TextOf
<1>1. PICK V \in Seq(T) : V = Clear(k, p, crlf)
  BY ClearType
<1>2. /\ Unix(V) = V /\ Cut(V) = [blocks |-> <<>>, rest |-> V]
      /\ V = <<>> \/ Last(V) # CR
  BY <1>1, ClearReads
<1>3. Unix(Append(V, CR)) = Append(V, CR)
  <2>1. Unix(Append(V, CR)) = UnixStep(V, CR)
    BY <1>0, <1>2, UnixAppend
  <2> QED
    BY <1>0, <2>1, PlainStep, SymbolsDiffer
<1>4. Unix(Held(k, p, crlf)) = Held(k, p, crlf)
  BY <1>1, <1>2, <1>3 DEF Held
<1> QED
  BY <1>1, <1>2, <1>4 DEF At, Held

(* What follows the finished blocks is what the buffer holds.                         *)
LEMMA AtSplits ==
  ASSUME NEW T, NEW k, TextOf(T, k), NEW crlf \in BOOLEAN, NEW p, NEW U, NEW blocks,
         At(T, U, blocks, k, p, crlf)
  PROVE  Cut(U) = [blocks |-> blocks, rest |-> Held(k, p, crlf)]
<1>0. CR \in T
  BY DEF TextOf
<1>1. PICK rest : rest = Clear(k, p, crlf)
  OBVIOUS
<1>2. PICK V \in Seq(T) :
         /\ Cut(V) = [blocks |-> blocks, rest |-> rest]
         /\ U = IF Pending(p, crlf) THEN Append(V, CR) ELSE V
  BY <1>1 DEF At
<1>3. Cut(Append(V, CR)) = [blocks |-> blocks, rest |-> Append(rest, CR)]
  BY <1>0, <1>2, SymbolsDiffer, CutGoesOn
<1> QED
  BY <1>1, <1>2, <1>3 DEF Held
------------------------------------------------------------------------------------
(* Positions on the wire: the event that stands there and how far into it.            *)
EventAt(q, crlf) == (q \div SizeOf(crlf)) + 1

OffsetAt(q, crlf) == q % SizeOf(crlf)

Buffered(q, crlf) == Held(EventAt(q, crlf), OffsetAt(q, crlf), crlf)

(* A chunk of the wire, from position q on.                                           *)
OnWire(chunk, q, crlf) ==
    \A i \in 1..Len(chunk) :
        chunk[i] = SymbolAt(EventAt(q + i - 1, crlf), OffsetAt(q + i - 1, crlf), crlf)

(* The blocks of the events from a up to b, without b, and their numbers.             *)
Wholes(a, b) == [j \in 1..(b - a) |-> Whole((a + j) - 1)]

Following(a, b) == [j \in 1..(b - a) |-> (a + j) - 1]

Text == Symbols(Int)

(* Every event is written with the symbols of Text.                                   *)
LEMMA TextOfAll ==
  ASSUME NEW k \in Int
  PROVE  TextOf(Text, k)
  BY DEF Text, TextOf, Symbols, Begin, End, LF, CR

(* A position in an event, whichever its line ends.                                   *)
LEMMA PositionBound ==
  ASSUME NEW crlf \in BOOLEAN, NEW p \in 0..(SizeOf(crlf) - 1)
  PROVE  p \in 0..5
  BY DEF SizeOf

(* The line ends are symbols of Text.                                                 *)
LEMMA LineEnds == LF \in Text /\ CR \in Text
  BY DEF Text, Symbols, LF, CR

(* How many events have been sent at a position, and how much of the last.            *)
LEMMA PositionType ==
  ASSUME NEW q \in Nat, NEW crlf \in BOOLEAN
  PROVE  /\ EventAt(q, crlf) \in Nat \ {0} /\ OffsetAt(q, crlf) \in 0..(SizeOf(crlf) - 1)
         /\ SizeOf(crlf) \in {4, 6} /\ OffsetAt(q, crlf) \in 0..5
<1>1. CASE crlf
  BY <1>1 DEF EventAt, OffsetAt, SizeOf
<1>2. CASE ~crlf
  BY <1>2 DEF EventAt, OffsetAt, SizeOf
<1> QED
  BY <1>1, <1>2

(* One symbol further.                                                                *)
LEMMA PositionMoves ==
  ASSUME NEW q \in Nat, NEW crlf \in BOOLEAN
  PROVE  /\ OffsetAt(q, crlf) + 1 = SizeOf(crlf)
               => EventAt(q + 1, crlf) = EventAt(q, crlf) + 1 /\ OffsetAt(q + 1, crlf) = 0
         /\ OffsetAt(q, crlf) + 1 # SizeOf(crlf)
               => EventAt(q + 1, crlf) = EventAt(q, crlf) /\ OffsetAt(q + 1, crlf) = OffsetAt(q, crlf) + 1
<1>1. CASE crlf
  BY <1>1 DEF EventAt, OffsetAt, SizeOf
<1>2. CASE ~crlf
  BY <1>2 DEF EventAt, OffsetAt, SizeOf
<1> QED
  BY <1>1, <1>2

(* An event is a text.                                                                *)
LEMMA WholeType ==
  ASSUME NEW k \in Int
  PROVE  Whole(k) \in Seq(Text)
<1>1. Begin(k) \in Text /\ End(k) \in Text
  BY TextOfAll DEF TextOf
<1> QED
  BY <1>1 DEF Whole

(* One block more.                                                                    *)
LEMMA WholesGrow ==
  ASSUME NEW a \in Nat, NEW b \in Nat, a <= b
  PROVE  Append(Wholes(a, b), Whole(b)) = Wholes(a, b + 1) /\ Wholes(a, a) = <<>>
<1>1. PICK n \in Nat : n = b - a
  OBVIOUS
<1>2. PICK s, t, u : s = Wholes(a, b) /\ t = Append(s, Whole(b)) /\ u = Wholes(a, b + 1)
  OBVIOUS
<1>3. s = [j \in 1..n |-> Whole((a + j) - 1)]
  BY <1>1, <1>2 DEF Wholes
<1>4. Len(s) = n /\ \A j \in 1..n : s[j] = Whole((a + j) - 1)
  BY <1>1, <1>3
<1>5. t = [j \in 1..(n + 1) |-> IF j = n + 1 THEN Whole(b) ELSE s[j]]
  <2>1. \A j \in 1..n : Whole((a + j) - 1) \in Seq(Text)
    BY WholeType
  <2>2. s \in Seq(Seq(Text)) /\ Whole(b) \in Seq(Text)
    BY <1>3, <2>1, WholeType
  <2> HIDE DEF Text
  <2>3. t \in Seq(Seq(Text)) /\ Len(t) = n + 1 /\ (\A j \in 1..n : t[j] = s[j]) /\ t[n + 1] = Whole(b)
    BY <1>2, <1>4, <2>2, AppendProperties
  <2>4. t = [j \in 1..(n + 1) |-> t[j]]
    BY <2>3
  <2>5. \A j \in 1..(n + 1) : t[j] = IF j = n + 1 THEN Whole(b) ELSE s[j]
    BY <2>3
  <2> QED
    BY <2>4, <2>5
<1>6. ASSUME NEW j \in 1..(n + 1)
      PROVE  (IF j = n + 1 THEN Whole(b) ELSE s[j]) = Whole((a + j) - 1)
  <2>1. j = n + 1 => (a + j) - 1 = b
    BY <1>1
  <2>2. j # n + 1 => j \in 1..n
    BY <1>1
  <2> QED
    BY <1>4, <2>1, <2>2
<1>7. u = [j \in 1..(n + 1) |-> Whole((a + j) - 1)]
  <2>1. n + 1 = (b + 1) - a
    BY <1>1
  <2> QED
    BY <1>2, <2>1 DEF Wholes
<1>8. t = u
  BY <1>5, <1>6, <1>7
<1>9. Wholes(a, a) = <<>>
  BY DEF Wholes
<1> QED
  BY <1>2, <1>8, <1>9

(* Reading a chunk symbol by symbol, the text stands at the position reached.         *)
LEMMA ChunkReads ==
  ASSUME NEW crlf \in BOOLEAN, NEW q \in Nat, NEW chunk \in Seq(Text), OnWire(chunk, q, crlf)
  PROVE  LET e == EventAt(q + Len(chunk), crlf)
         IN  At(Text, Unix(Buffered(q, crlf) \o chunk), Wholes(EventAt(q, crlf), e), e,
                OffsetAt(q + Len(chunk), crlf), crlf)
<1>1. PICK n \in Nat : n = Len(chunk)
  OBVIOUS
<1>2. PICK h \in Seq(Text) : h = Buffered(q, crlf)
  BY PositionType, TextOfAll, ClearType DEF Buffered
<1> DEFINE upto(m) == h \o SubSeq(chunk, 1, m)
           Stands(m) == At(Text, Unix(upto(m)), Wholes(EventAt(q, crlf), EventAt(q + m, crlf)),
                           EventAt(q + m, crlf), OffsetAt(q + m, crlf), crlf)
           G == {m \in 0..n : Stands(m) /\ EventAt(q, crlf) <= EventAt(q + m, crlf)}
<1>3. 0 \in G
  <2>1. upto(0) = h
    <3>1. SubSeq(chunk, 1, 0) = <<>>
      OBVIOUS
    <3> QED
      BY <1>2, <3>1, ConcatEmptySeq
  <2>1a. PICK k \in Nat, p \in 0..5 : k = EventAt(q, crlf) /\ p = OffsetAt(q, crlf)
    BY PositionType
  <2>2. At(Text, Unix(h), <<>>, k, p, crlf)
    <3>1. TextOf(Text, k)
      BY TextOfAll
    <3> QED
      BY <1>2, <2>1a, <3>1, HeldAt DEF Buffered
  <2>3. Wholes(k, k) = <<>>
    BY WholesGrow
  <2>4. q + 0 = q
    OBVIOUS
  <2>5. EventAt(q + 0, crlf) = k /\ OffsetAt(q + 0, crlf) = p /\ k <= k
    BY <2>1a, <2>4
  <2> HIDE DEF upto
  <2>6. Stands(0)
    BY <2>1, <2>1a, <2>2, <2>3, <2>5, Zenon
  <2> HIDE DEF Stands
  <2> QED
    BY <2>1a, <2>5, <2>6
<1>4. ASSUME NEW m \in 1..n, m - 1 \in G PROVE m \in G
  <2>1. PICK r \in Nat : r = q + (m - 1) /\ r + 1 = q + m /\ r = q + m - 1
    OBVIOUS
  <2>2. PICK k \in Nat, p \in 0..(SizeOf(crlf) - 1), a \in Nat :
           k = EventAt(r, crlf) /\ p = OffsetAt(r, crlf) /\ a = EventAt(q, crlf)
    BY PositionType
  <2>3. PICK t \in Seq(Text), c \in Text : /\ t = upto(m - 1) /\ c = chunk[m]
                                           /\ upto(m) = Append(t, c)
    <3>1. chunk[m] \in Text /\ m - 1 \in Int /\ m \in 1..Len(chunk) /\ m \in m..Len(chunk)
      BY <1>1, ElementOfSeq
    <3>2. PICK s \in Seq(Text), o \in Seq(Text) : s = SubSeq(chunk, 1, m - 1) /\ o = <<chunk[m]>>
      <4>1. \A i \in 1..(m - 1) : chunk[i] \in Text
        BY <1>1, ElementOfSeq
      <4>2. SubSeq(chunk, 1, m - 1) \in Seq(Text)
        BY <3>1, <4>1, SubSeqProperties
      <4>3. <<chunk[m]>> \in Seq(Text)
        BY <3>1
      <4> QED
        BY <4>2, <4>3
    <3>3. SubSeq(chunk, 1, m) = s \o o
      BY <3>1, <3>2, SubSeqRecursiveSecond
    <3>4. h \o (s \o o) = (h \o s) \o o
      BY <1>1, <3>2, ConcatAssociative, SMTT(30)
    <3>5. h \o s \in Seq(Text)
      BY ConcatProperties
    <3>6. Append(h \o s, chunk[m]) = (h \o s) \o o
      BY <3>1, <3>2, <3>5, AppendIsConcat
    <3> QED
      BY <3>1, <3>2, <3>3, <3>4, <3>5, <3>6
  <2>4. c = SymbolAt(k, p, crlf)
    BY <1>1, <2>1, <2>2, <2>3 DEF OnWire
  <2>5. At(Text, Unix(t), Wholes(a, k), k, p, crlf) /\ a <= k
    BY <1>4, <2>1, <2>2, <2>3
  <2>6. Unix(upto(m)) = UnixStep(Unix(t), c)
    BY <2>3, LineEnds, UnixAppend
  <2>7. Moves(Text, Unix(t), Wholes(a, k), k, p, crlf)
    BY <2>2, <2>5, TextOfAll, AtMoves
  <2>8. CASE p + 1 = SizeOf(crlf)
    <3>1. EventAt(q + m, crlf) = k + 1 /\ OffsetAt(q + m, crlf) = 0
      BY <2>1, <2>2, <2>8, PositionMoves
    <3>2. Append(Wholes(a, k), Whole(k)) = Wholes(a, k + 1)
      BY <2>5, WholesGrow
    <3> QED
      BY <2>2, <2>4, <2>5, <2>6, <2>7, <2>8, <3>1, <3>2 DEF Moves
  <2>9. CASE p + 1 # SizeOf(crlf)
    <3>1. EventAt(q + m, crlf) = k /\ OffsetAt(q + m, crlf) = p + 1
      BY <2>1, <2>2, <2>9, PositionMoves
    <3> QED
      BY <2>2, <2>4, <2>5, <2>6, <2>7, <2>9, <3>1 DEF Moves
  <2> QED
    BY <2>8, <2>9
<1>5. \A m \in 0..n : m \in G
  <2> HIDE DEF G
  <2> QED
    BY <1>3, <1>4, CountingUp
<1>6. Stands(n) /\ SubSeq(chunk, 1, n) = chunk
  <2>1. n \in G
    BY <1>5
  <2> QED
    BY <1>1, <2>1
<1> QED
  BY <1>1, <1>2, <1>6
------------------------------------------------------------------------------------
(* Lists of one element each, put together.                                           *)
LEMMA FlattenSingles ==
  ASSUME NEW S, NEW f \in Seq(S), NEW ss, ss = [i \in 1..Len(f) |-> <<f[i]>>]
  PROVE  FlattenSeq(ss) = f
<1>0. PICK n \in Nat : n = Len(f)
  OBVIOUS
<1>1. \A i \in 1..n : ss[i] = <<f[i]>> /\ f[i] \in S /\ ss[i] \in Seq(S)
  BY <1>0
<1>2. ss \in Seq(Seq(S)) /\ Len(ss) = n
  <2>1. ss = [i \in 1..n |-> ss[i]]
    BY <1>0
  <2> QED
    BY <1>1, <2>1, TypedList
<1>3. CASE n = 0
  <2>1. f = <<>>
    BY <1>0, <1>3, EmptySeq
  <2>2. ss = <<>> /\ Len(ss) = 0
    BY <1>2, <1>3
  <2> QED
    BY <2>1, <2>2 DEF FlattenSeq
<1>4. CASE n # 0
  <2>1. PICK c \in [1..n -> Seq(S)] : /\ c[1] = ss[1]
                                      /\ \A i \in 2..n : c[i] = c[i - 1] \o ss[i]
                                      /\ FlattenSeq(ss) = c[n]
    BY <1>2, <1>4, FlattenSteps
  <2>2. PICK l \in Nat : l = n - 1
    BY <1>4
  <2> DEFINE G == {m \in 0..l : c[m + 1] = SubSeq(f, 1, m + 1)}
  <2>3. 0 \in G
    <3>1. 1 \in 1..Len(f) /\ 1 \in 1..n /\ 1 \in Int /\ f[1] \in S
      BY <1>0, <1>1, <1>4
    <3>2. SubSeq(f, 1, 1) = SubSeq(f, 1, 0) \o <<f[1]>>
      BY <3>1, SubSeqRecursiveSecond
    <3>3. SubSeq(f, 1, 0) = <<>> /\ <<f[1]>> \in Seq(S)
      BY <3>1, SubSeqEmpty
    <3>4. SubSeq(f, 1, 1) = <<f[1]>>
      BY <3>2, <3>3, ConcatEmptySeq
    <3> QED
      BY <1>1, <2>1, <2>2, <3>1, <3>4
  <2>4. ASSUME NEW m \in 1..l, m - 1 \in G PROVE m \in G
    <3>1. /\ m + 1 \in 2..n /\ (m + 1) - 1 = m /\ (m - 1) + 1 = m
          /\ m + 1 \in 1..Len(f) /\ 1 \in 1..Len(f) /\ m + 1 \in 1..n
      BY <1>0, <2>2
    <3>2. c[m + 1] = c[m] \o ss[m + 1]
      BY <2>1, <3>1
    <3>3. c[m] = SubSeq(f, 1, m)
      BY <2>4, <3>1
    <3>4. ss[m + 1] = <<f[m + 1]>>
      BY <1>1, <3>1
    <3>5. SubSeq(f, 1, m + 1) = SubSeq(f, 1, m) \o <<f[m + 1]>>
      BY <3>1, SubSeqRecursiveSecond
    <3>6. c[m + 1] = SubSeq(f, 1, m + 1)
      BY <3>2, <3>3, <3>4, <3>5
    <3>7. m \in 0..l
      OBVIOUS
    <3> QED
      BY <3>6, <3>7
  <2>5. l \in G
    <3> HIDE DEF G
    <3>1. \A m \in 0..l : m \in G
      BY <2>2, <2>3, <2>4, CountingUp
    <3>2. l \in 0..l
      BY <2>2
    <3> QED
      BY <3>1, <3>2
  <2> QED
    BY <1>0, <2>1, <2>2, <2>5, SubSeqFull
<1> QED
  BY <1>3, <1>4

(* A line that begins and ends with something else than a carriage return.            *)
LEMMA StripWhole ==
  ASSUME NEW T, NEW line \in Seq(T), line # <<>>, line[1] # CR, Last(line) # CR
  PROVE  Strip(line) = line
<1>1. PICK n \in Nat \ {0} : n = Len(line) /\ DOMAIN line = 1..n
  BY LenProperties, EmptySeq
<1>2. PICK kept : kept = {i \in DOMAIN line : line[i] # CR}
  OBVIOUS
<1>3. kept \in SUBSET (1..n) /\ 1 \in kept /\ n \in kept
  BY <1>1, <1>2 DEF Last
<1>4. Min(kept) = 1
  <2>1. Min(kept) \in 1..n /\ Min(kept) <= 1
    BY <1>3, MinIn
  <2> QED
    BY <2>1
<1>5. Max(kept) = n
  <2>1. Max(kept) \in 1..n /\ n <= Max(kept)
    BY <1>3, MaxIn
  <2> QED
    BY <2>1
<1>6. SubSeq(line, 1, n) = line
  BY <1>1, SubSeqFull
<1> QED
  BY <1>2, <1>3, <1>4, <1>5, <1>6 DEF Strip

(* The last line goes on, or ends.                                                    *)
LEMMA LineGoesOn ==
  ASSUME NEW T, NEW V \in Seq(T), NEW c \in T, c # LF, NEW done, NEW line,
         Divided(V) = [done |-> done, line |-> line]
  PROVE  Divided(Append(V, c)) = [done |-> done, line |-> Append(line, c)]
<1>1. Divided(Append(V, c)) = LineStep(Divided(V), c)
  BY LineAppend
<1>2. PICK s : s = Divided(V) /\ s.done = done /\ s.line = line /\ s = [done |-> done, line |-> line]
  OBVIOUS
<1>3. LineStep(s, c) = [s EXCEPT !.line = Append(@, c)]
  BY DEF LineStep
<1> QED
  BY <1>1, <1>2, <1>3

(* A line feed finishes a line.                                                       *)
LEMMA LineFinishes ==
  ASSUME NEW T, LF \in T, NEW V \in Seq(T), NEW done, NEW line,
         Divided(V) = [done |-> done, line |-> line]
  PROVE  Divided(Append(V, LF)) = [done |-> Append(done, line), line |-> <<>>]
<1>1. Divided(Append(V, LF)) = LineStep(Divided(V), LF)
  BY LineAppend
<1>2. PICK s : s = Divided(V) /\ s.done = done /\ s.line = line
  OBVIOUS
<1>3. LineStep(s, LF) = [done |-> Append(done, line), line |-> <<>>]
  BY <1>2 DEF LineStep
<1> QED
  BY <1>1, <1>2, <1>3

(* A text of one data line, and a text of two.                                        *)
LEMMA OneDataLine ==
  ASSUME NEW t, NEW line \in Seq(Text), Divided(t) = [done |-> <<>>, line |-> line],
         line # <<>>, line[1][1] = "begin", Last(line) # CR
  PROVE  DataLines(t) = <<line>>
<1>1. line[1] # CR
  BY SymbolsDiffer
<1>2. Strip(line) = line
  BY <1>1, StripWhole
<1>3. PICK s : s = Divided(t) /\ s.done = <<>> /\ s.line = line
  OBVIOUS
<1>4. Len(s.done) + 1 = 1
  BY <1>3
<1>5. PICK lines : lines = Lines(t) /\ lines = [i \in 1..1 |-> line]
  <2>1. Lines(t) = [i \in 1..1 |-> Strip(IF i > Len(s.done) THEN s.line ELSE s.done[i])]
    BY <1>3, <1>4 DEF Lines
  <2>2. \A i \in 1..1 : i > Len(s.done)
    BY <1>3
  <2> QED
    BY <1>2, <1>3, <2>1, <2>2
<1>6. IsData(line)
  BY DEF IsData
<1>7. PICK f \in Seq(Seq(Text)) : f = <<line>> /\ Len(f) = 1 /\ f[1] = line
  <2> HIDE DEF Text
  <2>1. <<line>> \in Seq(Seq(Text)) /\ Len(<<line>>) = 1 /\ <<line>>[1] = line
    OBVIOUS
  <2> QED
    BY <2>1
<1>8. PICK ss : ss = [i \in DOMAIN lines |-> IF IsData(lines[i]) THEN <<lines[i]>> ELSE <<>>]
  OBVIOUS
<1>9. ss = [i \in 1..Len(f) |-> <<f[i]>>]
  <2>1. DOMAIN lines = 1..1 /\ \A i \in 1..1 : lines[i] = line /\ f[i] = line
    BY <1>5, <1>7
  <2> QED
    BY <1>6, <1>7, <1>8, <2>1
<1>10. DataLines(t) = FlattenSeq(ss)
  BY <1>5, <1>8 DEF DataLines
<1>11. FlattenSeq(ss) = f
  <2> HIDE DEF Text
  <2> QED
    BY <1>9, FlattenSingles
<1> QED
  BY <1>7, <1>10, <1>11

(* A text of two data lines: its data are both of them.                               *)
LEMMA TwoDataLines ==
  ASSUME NEW t, NEW first, NEW line, Divided(t) = [done |-> <<first>>, line |-> line],
         NEW l \in Seq(Text), l = Strip(first), IsData(l),
         NEW m \in Seq(Text), m = Strip(line), IsData(m)
  PROVE  DataLines(t) = <<l, m>>
<1>1. PICK s : s = Divided(t) /\ s.done = <<first>> /\ s.line = line
  OBVIOUS
<1>2. Len(s.done) + 1 = 2 /\ Len(s.done) = 1 /\ s.done[1] = first
  BY <1>1
<1>3. PICK lines : lines = Lines(t) /\ DOMAIN lines = 1..2 /\ lines[1] = l /\ lines[2] = m
  <2>1. Lines(t) = [i \in 1..2 |-> Strip(IF i > Len(s.done) THEN s.line ELSE s.done[i])]
    BY <1>1, <1>2 DEF Lines
  <2>2. ~(1 > Len(s.done)) /\ 2 > Len(s.done)
    BY <1>2
  <2>3. 1 \in 1..2 /\ 2 \in 1..2
    OBVIOUS
  <2> QED
    BY <1>1, <1>2, <2>1, <2>2, <2>3
<1>4. PICK f \in Seq(Seq(Text)) : f = <<l, m>> /\ Len(f) = 2 /\ f[1] = l /\ f[2] = m
  <2> HIDE DEF Text
  <2>1. <<l, m>> \in Seq(Seq(Text)) /\ Len(<<l, m>>) = 2 /\ <<l, m>>[1] = l /\ <<l, m>>[2] = m
    OBVIOUS
  <2> QED
    BY <2>1
<1>5. PICK ss : ss = [i \in DOMAIN lines |-> IF IsData(lines[i]) THEN <<lines[i]>> ELSE <<>>]
  OBVIOUS
<1>6. ss = [i \in 1..Len(f) |-> <<f[i]>>]
  <2>1. \A i \in 1..2 : lines[i] = f[i] /\ IsData(lines[i])
    <3>1. \A i \in 1..2 : i = 1 \/ i = 2
      OBVIOUS
    <3> QED
      BY <1>3, <1>4, <3>1
  <2> QED
    BY <1>3, <1>4, <1>5, <2>1
<1>7. DataLines(t) = FlattenSeq(ss)
  BY <1>3, <1>5 DEF DataLines
<1>8. FlattenSeq(ss) = f
  <2> HIDE DEF Text
  <2> QED
    BY <1>6, FlattenSingles
<1> QED
  BY <1>4, <1>7, <1>8

(* A text of no more than its first half is divided as it stands.                     *)
LEMMA EmptyDivided == Divided(<<>>) = [done |-> <<>>, line |-> <<>>]
<1>1. PICK none \in Seq(Text) : none = <<>> /\ Len(none) = 0
  <2>1. <<>> \in Seq(Text) /\ Len(<<>>) = 0
    OBVIOUS
  <2> QED
    BY <2>1
<1>2. PICK c \in [0..Len(none) -> LineType(Text)] :
         c[0] = [done |-> <<>>, line |-> <<>>] /\ Divided(none) = c[Len(none)]
  BY LineSteps
<1> QED
  BY <1>1, <1>2

(* The lines of what the buffer holds, but for a whole one.                           *)
Halves(k, p, crlf) ==
    IF p \in {0, 1, 2} \/ (p = 3 /\ crlf)
    THEN [done |-> <<>>, line |-> Held(k, p, crlf)]
    ELSE [done |-> <<Whole(k)>>, line |-> IF p = 5 THEN <<CR>> ELSE <<>>]

(* And they are the lines _lines makes of it.                                         *)
LEMMA HeldDivided ==
  ASSUME NEW k \in Int, NEW crlf \in BOOLEAN, NEW p \in 0..(SizeOf(crlf) - 1)
  PROVE  Divided(Held(k, p, crlf)) = Halves(k, p, crlf)
<1>0. Begin(k) \in Text /\ End(k) \in Text /\ LF \in Text /\ CR \in Text
  BY TextOfAll DEF TextOf
<1>0a. Begin(k) # LF /\ End(k) # LF /\ CR # LF /\ TextOf(Text, k)
  BY SymbolsDiffer, TextOfAll
<1>0b. PICK none : none = <<>>
  OBVIOUS
<1>1. PICK a \in Seq(Text), b \in Seq(Text), c \in Seq(Text), d \in Seq(Text) :
         /\ a = Clear(k, 0, crlf) /\ b = Clear(k, 1, crlf)
         /\ c = Clear(k, 2, crlf) /\ d = Clear(k, 4, crlf)
  BY <1>0a, ClearType
<1>2. a = <<>> /\ b = Append(a, Begin(k)) /\ c = Append(b, End(k)) /\ d = Append(c, LF) /\ c = Whole(k)
  BY <1>1, ClearGrows
<1>3. Divided(a) = [done |-> none, line |-> a]
  BY <1>0b, <1>1, <1>2, EmptyDivided
<1>4. Divided(b) = [done |-> none, line |-> b]
  BY <1>0, <1>2, <1>3, <1>0a, LineGoesOn
<1>5. Divided(c) = [done |-> none, line |-> c]
  <2>1. PICK x \in Text : x = End(k) /\ x # LF
    BY <1>0, <1>0a
  <2>2. Divided(Append(b, x)) = [done |-> none, line |-> Append(b, x)]
    BY <1>4, <2>1, LineGoesOn
  <2> QED
    BY <1>2, <2>1, <2>2
<1>6. Divided(d) = [done |-> Append(none, c), line |-> <<>>]
  BY <1>0, <1>2, <1>5, LineFinishes
<1>7. Divided(Append(c, CR)) = [done |-> none, line |-> Append(c, CR)]
  BY <1>0, <1>5, <1>0a, LineGoesOn
<1>8. PICK one : one = Append(none, c) /\ one = <<Whole(k)>>
  BY <1>0b, <1>1, <1>2, FirstOf
<1>9. Divided(Append(d, CR)) = [done |-> one, line |-> <<CR>>]
  <2>1. PICK l : l = <<>> /\ Divided(d) = [done |-> one, line |-> l]
    BY <1>6, <1>8
  <2>2. Divided(Append(d, CR)) = [done |-> one, line |-> Append(l, CR)]
    BY <1>0, <2>1, <1>0a, LineGoesOn
  <2> QED
    BY <2>1, <2>2, FirstOf
<1>10. CASE p \in {0, 1, 2}
  <2>1. Held(k, p, crlf) \in {a, b, c}
    BY <1>1, <1>10 DEF Held, Pending
  <2> QED
    BY <1>0b, <1>1, <1>3, <1>4, <1>5, <1>10, <2>1 DEF Halves
<1>11. CASE p = 3 /\ crlf
  <2>1. Held(k, p, crlf) = Append(c, CR)
    BY <1>1, <1>11, ClearGrows DEF Held, Pending
  <2> QED
    BY <1>0b, <1>1, <1>7, <1>11, <2>1 DEF Halves
<1>12. CASE (p = 3 /\ ~crlf) \/ p = 4
  <2>1. Held(k, p, crlf) = d
    BY <1>1, <1>12, ClearGrows DEF Held, Pending
  <2> QED
    BY <1>6, <1>8, <1>12, <2>1 DEF Halves
<1>13. CASE p = 5
  <2>1. Held(k, p, crlf) = Append(d, CR)
    BY <1>1, <1>13, ClearGrows DEF Held, Pending, SizeOf
  <2>2. Halves(k, 5, crlf) = [done |-> <<Whole(k)>>, line |-> <<CR>>]
    BY DEF Halves
  <2> QED
    BY <1>8, <1>9, <1>13, <2>1, <2>2
<1>14. p \in 0..5
  BY DEF SizeOf
<1> QED
  BY <1>10, <1>11, <1>12, <1>13, <1>14

(* strip() leaves a whole data line as it is,                                         *)
LEMMA WholeStrip ==
  ASSUME NEW k \in Int
  PROVE  Strip(Whole(k)) = Whole(k)
<1>1. PICK w \in Seq(Text) : w = Whole(k)
  BY WholeType
<1>2. w # <<>> /\ w[1] # CR /\ Last(w) # CR
  BY <1>1, SymbolsDiffer DEF Whole, Last
<1> QED
  BY <1>1, <1>2, StripWhole

(* and takes away a carriage return left before it.                                   *)
LEMMA LateStrip ==
  ASSUME NEW k \in Int
  PROVE  Strip(<<CR, Begin(k), End(k)>>) = Whole(k)
<1>1. PICK line : line = <<CR, Begin(k), End(k)>>
  OBVIOUS
<1>2. Len(line) = 3 /\ DOMAIN line = 1..3 /\ line[1] = CR /\ line[2] = Begin(k) /\ line[3] = End(k)
  BY <1>1
<1>3. PICK kept : kept = {i \in DOMAIN line : line[i] # CR}
  OBVIOUS
<1>4. kept \in SUBSET (1..3) /\ 2 \in kept /\ 3 \in kept /\ 1 \notin kept
  BY <1>2, <1>3, SymbolsDiffer
<1>5. Min(kept) = 2
  <2>1. Min(kept) \in kept /\ Min(kept) \in 1..3 /\ Min(kept) <= 2
    BY <1>4, MinIn
  <2>2. Min(kept) # 1
    BY <1>4, <2>1
  <2> QED
    BY <2>1, <2>2
<1>6. Max(kept) = 3
  <2>1. Max(kept) \in 1..3 /\ 3 <= Max(kept)
    BY <1>4, MaxIn
  <2> QED
    BY <2>1
<1>7. SubSeq(line, 2, 3) = Whole(k)
  <2>1. PICK s : s = SubSeq(line, 2, 3)
    OBVIOUS
  <2>2. Len(s) = 2 /\ s[1] = Begin(k) /\ s[2] = End(k) /\ s = [i \in 1..2 |-> s[i]]
    BY <1>2, <2>1
  <2>3. PICK b, e : b = Begin(k) /\ e = End(k)
    OBVIOUS
  <2>3a. PICK w : w = <<b, e>>
    OBVIOUS
  <2>3b. w[1] = b /\ w[2] = e /\ w = Whole(k)
    BY <2>3, <2>3a DEF Whole
  <2>3c. w = [i \in 1..2 |-> w[i]]
    BY <2>3a
  <2>4. \A i \in 1..2 : s[i] = w[i]
    <3>1. \A i \in 1..2 : i = 1 \/ i = 2
      OBVIOUS
    <3> QED
      BY <2>2, <2>3, <2>3b, <3>1
  <2> QED
    BY <2>1, <2>2, <2>3b, <2>3c, <2>4
<1>8. kept # {}
  BY <1>4
<1> QED
  BY <1>1, <1>3, <1>5, <1>6, <1>7, <1>8 DEF Strip

(* parse_sse_line on a whole event, and on anything longer.                           *)
LEMMA WholeParsed ==
  ASSUME NEW k \in Int
  PROVE  EventIn(Whole(k)) = <<k>> /\ DataLines(Whole(k)) = <<Whole(k)>> /\ Parsed(<<Whole(k)>>) = k
<1>1. PICK w \in Seq(Text) : w = Whole(k)
  BY WholeType
<1>2. Len(w) = 2 /\ w[1] = Begin(k) /\ w[2] = End(k) /\ w # <<>> /\ Last(w) = End(k)
  BY <1>1 DEF Whole, Last
<1>3. Divided(w) = [done |-> <<>>, line |-> w]
  <2>1. Whole(k) = Held(k, 2, FALSE)
    BY ClearGrows DEF Held, Pending
  <2>2. Divided(Held(k, 2, FALSE)) = Halves(k, 2, FALSE)
    <3>1. PICK crlf \in BOOLEAN : crlf = FALSE
      OBVIOUS
    <3>2. PICK p \in 0..(SizeOf(crlf) - 1) : p = 2
      BY <3>1 DEF SizeOf
    <3>3. Divided(Held(k, p, crlf)) = Halves(k, p, crlf)
      BY HeldDivided
    <3> QED
      BY <3>1, <3>2, <3>3
  <2> QED
    BY <1>1, <2>1, <2>2 DEF Halves
<1>4. DataLines(w) = <<w>>
  BY <1>2, <1>3, SymbolsDiffer, OneDataLine
<1>5. Parsed(<<w>>) = k
  BY <1>2, SymbolsDiffer DEF Parsed
<1> QED
  BY <1>1, <1>4, <1>5 DEF EventIn

(* An event that is cut short makes the next one unreadable.                          *)
Broken(k, p, crlf, b) == Append(Append(Held(k, p, crlf), Begin(b)), End(b))

(* With nothing held back the added event is read; after a part of an event there is  *)
(* one block of two data lines, which json.loads refuses.                             *)
LEMMA BrokenParsed ==
  ASSUME NEW k \in Int, NEW crlf \in BOOLEAN, NEW p \in 0..(SizeOf(crlf) - 1), NEW b \in Int
  PROVE  EventIn(Broken(k, p, crlf, b)) = IF p = 0 THEN <<b>> ELSE <<Garbled>>
<1>1. /\ Begin(b) \in Text /\ End(b) \in Text /\ Begin(k) \in Text /\ End(k) \in Text
      /\ LF \in Text /\ CR \in Text
  BY TextOfAll DEF TextOf
<1>2. Begin(b) # LF /\ End(b) # LF /\ End(b) # CR /\ Begin(b) # CR /\ TextOf(Text, k)
  BY SymbolsDiffer, TextOfAll
<1>3. PICK h \in Seq(Text) : h = Held(k, p, crlf)
  BY <1>2, ClearType
<1>4. PICK u \in Seq(Text) : u = Append(h, Begin(b))
  BY <1>1, Appended
<1>5. PICK t \in Seq(Text) : t = Append(u, End(b)) /\ Last(t) = End(b) /\ t = Broken(k, p, crlf, b)
  BY <1>1, <1>3, <1>4, AppendLast DEF Broken
<1>6. ASSUME NEW done, NEW line \in Seq(Text), Divided(h) = [done |-> done, line |-> line]
      PROVE  Divided(t) = [done |-> done, line |-> Append(Append(line, Begin(b)), End(b))]
  <2>1. Divided(u) = [done |-> done, line |-> Append(line, Begin(b))]
    <3>1. PICK x \in Text : x = Begin(b) /\ x # LF
      BY <1>1, <1>2
    <3> QED
      BY <1>4, <1>6, <3>1, LineGoesOn
  <2>2. PICK l : l = Append(line, Begin(b)) /\ Divided(u) = [done |-> done, line |-> l]
    BY <2>1
  <2>3. Divided(t) = [done |-> done, line |-> Append(l, End(b))]
    <3>1. PICK x \in Text : x = End(b) /\ x # LF
      BY <1>1, <1>2
    <3>2. t = Append(u, x)
      BY <1>3, <1>4, <1>5, <3>1 DEF Broken
    <3> QED
      BY <2>2, <3>1, <3>2, LineGoesOn
  <2> QED
    BY <2>2, <2>3
<1>7. CASE p = 0
  <2>1. h = <<>>
    BY <1>3, <1>7, ClearGrows DEF Held, Pending
  <2>2. t = Whole(b)
    BY <1>4, <1>5, <2>1, FirstOf, SecondOf DEF Whole
  <2> QED
    BY <1>5, <1>7, <2>2, WholeParsed
<1>8. CASE p \in {1, 2} \/ (p = 3 /\ crlf)
  <2>1. Divided(h) = [done |-> <<>>, line |-> h]
    <3>1. Divided(h) = Halves(k, p, crlf)
      BY <1>3, HeldDivided
    <3> QED
      BY <1>3, <1>8, <3>1 DEF Halves
  <2>2. Divided(t) = [done |-> <<>>, line |-> t]
    BY <1>4, <1>5, <1>6, <2>1
  <2>3. Len(h) >= 1 /\ h[1] = Begin(k)
    <3>1. CASE p = 1
      BY <1>3, <3>1 DEF Held, Pending, Clear
    <3>2. CASE p = 2
      BY <1>3, <3>2 DEF Held, Pending, Clear
    <3>3. CASE p = 3 /\ crlf
      <4>1. h = Append(Whole(k), CR)
        BY <1>3, <3>3, ClearGrows DEF Held, Pending
      <4> QED
        BY <4>1 DEF Whole
    <3> QED
      BY <1>8, <3>1, <3>2, <3>3
  <2>4. Len(t) >= 3 /\ t[1] = Begin(k)
    <3>1. Len(u) = Len(h) + 1 /\ u[1] = h[1]
      BY <1>1, <1>4, <2>3, AppendProperties
    <3>2. Len(t) = Len(u) + 1 /\ t[1] = u[1]
      <4>1. PICK x \in Text : x = End(b) /\ t = Append(u, x)
        BY <1>1, <1>3, <1>4, <1>5 DEF Broken
      <4>2. 1 \in 1..Len(u)
        BY <2>3, <3>1
      <4> HIDE DEF Text
      <4> QED
        BY <4>1, <4>2, AppendProperties
    <3> QED
      BY <2>3, <3>1, <3>2
  <2>5. DataLines(t) = <<t>>
    BY <1>2, <1>5, <2>2, <2>4, SymbolsDiffer, OneDataLine
  <2>6. Parsed(<<t>>) = Garbled
    <3>1. PICK ls : ls = <<t>>
      OBVIOUS
    <3>2. ls[1] = t
      BY <3>1
    <3>3. PICK n \in Nat : n = Len(t) /\ n >= 3
      BY <2>4
    <3>4. Len(t) # 2
      BY <3>3
    <3> QED
      BY <3>1, <3>2, <3>4 DEF Parsed
  <2>7. p # 0
    BY <1>8
  <2> QED
    BY <1>5, <2>5, <2>6, <2>7 DEF EventIn
<1>9. CASE (p = 3 /\ ~crlf) \/ p \in {4, 5}
  <2>1. PICK l \in Seq(Text) : /\ l = IF p = 5 THEN <<CR>> ELSE <<>>
                               /\ Divided(h) = [done |-> <<Whole(k)>>, line |-> l]
    <3>1. Divided(h) = Halves(k, p, crlf)
      BY <1>3, HeldDivided
    <3>2. <<>> \in Seq(Text) /\ <<CR>> \in Seq(Text)
      BY <1>1
    <3>3. PICK l \in Seq(Text) : l = IF p = 5 THEN <<CR>> ELSE <<>>
      BY <3>2
    <3>4. p \notin {0, 1, 2} /\ ~(p = 3 /\ crlf)
      <4>1. CASE p = 3 /\ ~crlf
        BY <4>1
      <4>2. CASE p \in {4, 5}
        BY <4>2
      <4> QED
        BY <1>9, <4>1, <4>2
    <3>5. Halves(k, p, crlf) = [done |-> <<Whole(k)>>, line |-> l]
      BY <3>3, <3>4 DEF Halves
    <3> QED
      BY <3>1, <3>3, <3>5
  <2>2. PICK line : line = Append(Append(l, Begin(b)), End(b)) /\ Divided(t) = [done |-> <<Whole(k)>>, line |-> line]
    BY <1>6, <2>1
  <2>3. Strip(line) = Whole(b)
    <3>1. CASE p # 5
      <4>1. line = Whole(b)
        BY <2>1, <2>2, <3>1, FirstOf, SecondOf DEF Whole
      <4> QED
        BY <4>1, WholeStrip
    <3>2. CASE p = 5
      <4>0. PICK x, y, z : x = CR /\ y = Begin(b) /\ z = End(b)
        OBVIOUS
      <4>0a. l = <<x>> /\ line = Append(Append(l, y), z)
        BY <2>1, <2>2, <3>2, <4>0
      <4>0b. Append(l, y) = <<x, y>>
        BY <4>0a, SecondOf
      <4>0c. Append(<<x, y>>, z) = <<x, y, z>>
        BY ThirdOf
      <4>1. line = <<CR, Begin(b), End(b)>>
        BY <4>0, <4>0a, <4>0b, <4>0c
      <4> QED
        BY <4>1, LateStrip
    <3> QED
      BY <3>1, <3>2
  <2>4. Strip(Whole(k)) = Whole(k)
    BY WholeStrip
  <2>5. PICK first \in Seq(Text), second \in Seq(Text) :
           first = Whole(k) /\ second = Whole(b) /\ IsData(first) /\ IsData(second)
    <3>1. Whole(k) \in Seq(Text) /\ Whole(b) \in Seq(Text)
      BY WholeType
    <3>2. IsData(Whole(k)) /\ IsData(Whole(b))
      BY SymbolsDiffer DEF IsData, Whole
    <3> QED
      BY <3>1, <3>2
  <2>6. DataLines(t) = <<first, second>>
    <3> HIDE DEF Text
    <3>1. Divided(t) = [done |-> <<first>>, line |-> line]
      BY <2>2, <2>5
    <3>2. first = Strip(first) /\ second = Strip(line)
      BY <2>3, <2>4, <2>5
    <3> QED
      BY <2>5, <3>1, <3>2, TwoDataLines
  <2>7. Parsed(<<first, second>>) = Garbled
    BY DEF Parsed
  <2>8. p # 0
    BY <1>9
  <2> QED
    BY <1>5, <2>6, <2>7, <2>8 DEF EventIn
<1>10. p \in {0, 1, 2, 3, 4, 5}
  BY DEF SizeOf
<1> QED
  BY <1>7, <1>8, <1>9, <1>10
------------------------------------------------------------------------------------
(* One symbol more at the end of a text added to another.                             *)
LEMMA JoinsAppend ==
  ASSUME NEW T, NEW h \in Seq(T), NEW s \in Seq(T), NEW x \in T
  PROVE  h \o Append(s, x) = Append(h \o s, x)
<1>1. PICK o \in Seq(T) : o = <<x>>
  <2>1. <<x>> \in Seq(T)
    OBVIOUS
  <2> QED
    BY <2>1
<1>2. Append(s, x) = s \o o
  BY <1>1, AppendIsConcat
<1>3. h \o (s \o o) = (h \o s) \o o
  BY ConcatAssociative
<1>4. h \o s \in Seq(T)
  BY ConcatProperties
<1>5. Append(h \o s, x) = (h \o s) \o o
  BY <1>1, <1>4, AppendIsConcat
<1> QED
  BY <1>2, <1>3, <1>4, <1>5

(* The position moves forward.                                                        *)
LEMMA PositionsOrdered ==
  ASSUME NEW q \in Nat, NEW n \in Nat, NEW crlf \in BOOLEAN
  PROVE  EventAt(q, crlf) <= EventAt(q + n, crlf)
<1>1. CASE crlf
  BY <1>1 DEF EventAt, SizeOf
<1>2. CASE ~crlf
  BY <1>2 DEF EventAt, SizeOf
<1> QED
  BY <1>1, <1>2

(* Every finished block is its event.                                                 *)
LEMMA EventsOfWholes ==
  ASSUME NEW a \in Nat, NEW b \in Nat, a <= b
  PROVE  EventsOf(Wholes(a, b)) = Following(a, b)
<1>1. PICK n \in Nat : n = b - a
  OBVIOUS
<1>2. PICK f \in Seq(Int) : /\ f = Following(a, b) /\ Len(f) = n
                            /\ \A j \in 1..n : f[j] = (a + j) - 1
  <2>1. [j \in 1..n |-> (a + j) - 1] \in Seq(Int) /\ Len([j \in 1..n |-> (a + j) - 1]) = n
    OBVIOUS
  <2>2. Following(a, b) = [j \in 1..n |-> (a + j) - 1]
    BY <1>1 DEF Following
  <2> QED
    BY <2>1, <2>2
<1>3. PICK w : w = Wholes(a, b) /\ DOMAIN w = 1..n /\ \A j \in 1..n : w[j] = Whole((a + j) - 1)
  <2>1. PICK w : w = Wholes(a, b)
    OBVIOUS
  <2>2. w = [j \in 1..n |-> Whole((a + j) - 1)]
    BY <1>1, <2>1 DEF Wholes
  <2>3. DOMAIN w = 1..n /\ \A j \in 1..n : w[j] = Whole((a + j) - 1)
    BY <2>2
  <2> QED
    BY <2>1, <2>3
<1>4. ASSUME NEW j \in 1..n PROVE EventIn(w[j]) = <<f[j]>>
  <2>1. PICK k \in Int : k = (a + j) - 1
    OBVIOUS
  <2>2. EventIn(Whole(k)) = <<k>>
    BY WholeParsed
  <2> QED
    BY <1>2, <1>3, <2>1, <2>2
<1>5. PICK ss : ss = [i \in DOMAIN w |-> EventIn(w[i])]
  OBVIOUS
<1>6. ss = [i \in 1..Len(f) |-> <<f[i]>>]
  BY <1>2, <1>3, <1>4, <1>5
<1>7. FlattenSeq(ss) = f
  BY <1>6, FlattenSingles
<1> QED
  BY <1>2, <1>3, <1>5, <1>7 DEF EventsOf

(* Wherever the wire is cut, split_sse_buffer returns the events that have become     *)
(* whole, each once and in order, and keeps exactly the beginning of the next.        *)
THEOREM SplitReads ==
  ASSUME NEW crlf \in BOOLEAN, NEW q \in Nat, NEW chunk \in Seq(Text), OnWire(chunk, q, crlf)
  PROVE  Split(Buffered(q, crlf) \o chunk)
            = [events |-> Following(EventAt(q, crlf), EventAt(q + Len(chunk), crlf)),
               rest   |-> Buffered(q + Len(chunk), crlf)]
<1>1. PICK r \in Nat : r = q + Len(chunk)
  OBVIOUS
<1>2. PICK a \in Nat, e \in Nat, p \in 0..5 :
         a = EventAt(q, crlf) /\ e = EventAt(r, crlf) /\ p = OffsetAt(r, crlf)
  BY PositionType
<1>3. PICK U : U = Unix(Buffered(q, crlf) \o chunk)
  OBVIOUS
<1>4. At(Text, U, Wholes(a, e), e, p, crlf)
  BY <1>1, <1>2, <1>3, ChunkReads
<1>5. Cut(U) = [blocks |-> Wholes(a, e), rest |-> Held(e, p, crlf)]
  BY <1>4, TextOfAll, AtSplits
<1>6. a <= e
  BY <1>1, <1>2, PositionsOrdered
<1>7. EventsOf(Wholes(a, e)) = Following(a, e)
  BY <1>6, EventsOfWholes
<1>8. PICK cut : cut = Cut(U) /\ cut.blocks = Wholes(a, e) /\ cut.rest = Held(e, p, crlf)
  BY <1>5
<1>9. Split(Buffered(q, crlf) \o chunk) = [events |-> EventsOf(cut.blocks), rest |-> cut.rest]
  BY <1>3, <1>8 DEF Split
<1> QED
  BY <1>1, <1>2, <1>7, <1>8, <1>9 DEF Buffered

(* A symbol that nothing is made of.                                                  *)
LEMMA UnixKeeps ==
  ASSUME NEW T, LF \in T, NEW V \in Seq(T), NEW c \in T, Unix(V) = V,
         c # LF \/ Last(V) # CR
  PROVE  Unix(Append(V, c)) = Append(V, c)
<1>1. Unix(Append(V, c)) = UnixStep(V, c)
  BY UnixAppend
<1> QED
  BY <1>1 DEF UnixStep

(* An event that safe_upstream_stream adds, after what it finds in the buffer: by     *)
(* itself it is read as it is, behind the beginning of another event the two of them  *)
(* cannot be read.                                                                    *)
THEOREM SplitBreak ==
  ASSUME NEW k \in Int, NEW crlf \in BOOLEAN, NEW p \in 0..(SizeOf(crlf) - 1), NEW b \in Int
  PROVE  Split(Held(k, p, crlf) \o Formatted(b, FALSE))
            = [events |-> IF p = 0 THEN <<b>> ELSE <<Garbled>>, rest |-> <<>>]
<1>1. PICK x \in Text, y \in Text, l \in Text : x = Begin(b) /\ y = End(b) /\ l = LF
  BY TextOfAll DEF TextOf
<1>2. x # LF /\ y # LF /\ x # CR /\ y # CR /\ l # CR
  BY <1>1, SymbolsDiffer
<1>3. PICK h \in Seq(Text) : h = Held(k, p, crlf)
  BY TextOfAll, ClearType
<1> HIDE DEF Text
<1>4. PICK g \in Seq(Text), t \in Seq(Text), u \in Seq(Text), v \in Seq(Text) :
         /\ g = Append(h, x) /\ t = Append(g, y) /\ u = Append(t, l) /\ v = Append(u, l)
         /\ Last(g) = x /\ Last(t) = y /\ Last(u) = l /\ Front(u) = t /\ u # <<>>
  <2>1. PICK g \in Seq(Text) : g = Append(h, x) /\ Last(g) = x
    BY AppendLast
  <2>2. PICK t \in Seq(Text) : t = Append(g, y) /\ Last(t) = y
    BY AppendLast
  <2>3. PICK u \in Seq(Text) : u = Append(t, l) /\ Last(u) = l /\ Front(u) = t /\ u # <<>>
    BY AppendLast
  <2>4. PICK v \in Seq(Text) : v = Append(u, l)
    BY AppendLast
  <2> QED
    BY <2>1, <2>2, <2>3, <2>4
<1>5. h \o Formatted(b, FALSE) = v
  <2>0. \A r, s \in Seq(Text) : \A c \in Text : r \o Append(s, c) = Append(r \o s, c)
    BY JoinsAppend
  <2>1. PICK none \in Seq(Text) : none = <<>> /\ h \o none = h
    <3>1. <<>> \in Seq(Text) /\ h \o <<>> = h
      BY ConcatEmptySeq
    <3> QED
      BY <3>1
  <2>2. PICK w \in Seq(Text), w1 \in Seq(Text), w2 \in Seq(Text), w3 \in Seq(Text) :
           w1 = Append(none, x) /\ w = Append(w1, y) /\ w2 = Append(none, l) /\ w3 = Append(w2, l)
    <3>1. \A s \in Seq(Text), c \in Text : Append(s, c) \in Seq(Text)
      OBVIOUS
    <3> QED
      BY <3>1
  <2>3. w = <<x, y>> /\ w3 = <<l, l>>
    BY <2>1, <2>2, FirstOf, SecondOf
  <2>4. Formatted(b, FALSE) = w \o w3
    BY <1>1, <2>3 DEF Formatted, Terminator
  <2>5. h \o w1 = g /\ h \o w = t
    BY <1>4, <2>1, <2>2, JoinsAppend
  <2>6. w \o w2 = Append(w, l) /\ w \o w3 = Append(Append(w, l), l)
    <3>1. w \o none = w
      BY <2>1, ConcatEmptySeq
    <3>2. w \o Append(none, l) = Append(w \o none, l)
      BY <2>0, SMTT(30)
    <3>3. w \o Append(w2, l) = Append(w \o w2, l)
      BY <2>0, SMTT(30)
    <3> QED
      BY <2>2, <3>1, <3>2, <3>3
  <2>7. PICK w4 \in Seq(Text) : w4 = Append(w, l)
    BY AppendLast
  <2>8. h \o w4 = u /\ h \o Append(w4, l) = v
    <3>1. h \o Append(w, l) = Append(h \o w, l)
      BY <2>0, SMTT(30)
    <3>2. h \o Append(w4, l) = Append(h \o w4, l)
      BY <2>0, SMTT(30)
    <3> QED
      BY <1>4, <2>5, <2>7, <3>1, <3>2
  <2> QED
    BY <2>4, <2>6, <2>7, <2>8
<1>6. Unix(v) = v
  <2>1. Unix(h) = h
    BY <1>3, TextOfAll, HeldAt, PositionBound
  <2>2. Unix(g) = g
    BY <1>2, <1>4, <2>1, LineEnds, UnixKeeps
  <2>3. Unix(t) = t
    BY <1>2, <1>4, <2>2, LineEnds, UnixKeeps
  <2>4. Unix(u) = u
    BY <1>2, <1>4, <2>3, LineEnds, UnixKeeps
  <2> QED
    BY <1>2, <1>4, <2>4, LineEnds, UnixKeeps
<1>7. Cut(v) = [blocks |-> Append(<<>>, t), rest |-> <<>>]
  <2>0. PICK none : none = <<>>
    OBVIOUS
  <2>1. Cut(h) = [blocks |-> none, rest |-> h]
    <3>1. At(Text, h, <<>>, k, p, crlf)
      BY <1>3, TextOfAll, HeldAt, PositionBound
    <3> QED
      BY <1>3, <2>0, <3>1, TextOfAll, AtSplits
  <2>2. Cut(g) = [blocks |-> none, rest |-> g]
    BY <1>2, <1>4, <2>1, CutGoesOn
  <2>3. Cut(t) = [blocks |-> none, rest |-> t]
    <3>1. Cut(Append(g, y)) = [blocks |-> none, rest |-> Append(g, y)]
      BY <1>2, <2>2, CutGoesOn
    <3> QED
      BY <1>4, <3>1
  <2>4. Cut(u) = [blocks |-> none, rest |-> u]
    <3>1. Last(t) # LF
      BY <1>2, <1>4
    <3>2. Cut(Append(t, l)) = [blocks |-> none, rest |-> Append(t, l)]
      BY <2>3, <3>1, CutGoesOn
    <3> QED
      BY <1>4, <3>2
  <2>5. Cut(v) = [blocks |-> Append(none, t), rest |-> <<>>]
    <3>1. Cut(Append(u, LF)) = [blocks |-> Append(none, Front(u)), rest |-> <<>>]
      <4>1. u # <<>> /\ Last(u) = LF
        BY <1>1, <1>4
      <4> QED
        BY <2>4, <4>1, LineEnds, CutFinishes
    <3> QED
      BY <1>1, <1>4, <3>1
  <2> QED
    BY <2>0, <2>5
<1>8. PICK o \in Int : o = (IF p = 0 THEN b ELSE Garbled) /\ EventIn(t) = <<o>>
  <2>1. t = Broken(k, p, crlf, b)
    BY <1>1, <1>3, <1>4 DEF Broken
  <2>2. EventIn(t) = IF p = 0 THEN <<b>> ELSE <<Garbled>>
    BY <2>1, BrokenParsed
  <2>3. Garbled \in Int
    BY DEF Garbled
  <2> QED
    BY <2>2, <2>3
<1>9. EventsOf(Append(<<>>, t)) = <<o>>
  <2>1. PICK bs : bs = Append(<<>>, t) /\ bs = <<t>>
    BY FirstOf
  <2>2. DOMAIN bs = 1..1 /\ bs[1] = t
    BY <2>1
  <2>3. PICK f \in Seq(Int) : f = <<o>> /\ Len(f) = 1 /\ f[1] = o
    <3>1. <<o>> \in Seq(Int) /\ Len(<<o>>) = 1 /\ <<o>>[1] = o
      OBVIOUS
    <3> QED
      BY <3>1
  <2>4. PICK ss : ss = [i \in DOMAIN bs |-> EventIn(bs[i])]
    OBVIOUS
  <2>5. ss = [i \in 1..Len(f) |-> <<f[i]>>]
    BY <1>8, <2>2, <2>3, <2>4
  <2>6. FlattenSeq(ss) = f
    BY <2>5, FlattenSingles
  <2> QED
    BY <2>1, <2>3, <2>4, <2>6 DEF EventsOf
<1>10. PICK cut : cut = Cut(Unix(v)) /\ cut.blocks = Append(<<>>, t) /\ cut.rest = <<>>
  <2>1. PICK cut : cut = Cut(v)
    OBVIOUS
  <2>2. cut.blocks = Append(<<>>, t) /\ cut.rest = <<>>
    BY <1>7, <2>1
  <2> QED
    BY <1>6, <2>1, <2>2
<1>11. Split(v) = [events |-> EventsOf(cut.blocks), rest |-> cut.rest]
  BY <1>10 DEF Split
<1> QED
  BY <1>3, <1>5, <1>8, <1>9, <1>10, <1>11

(* The end of the stream: nothing is left, or the last event without its terminator.  *)
LEMMA FlushNothing == Flush(<<>>) = <<>>
<1>1. PICK none \in Seq(Text) : none = <<>> /\ Len(none) = 0
  <2>1. <<>> \in Seq(Text) /\ Len(<<>>) = 0
    OBVIOUS
  <2> QED
    BY <2>1
<1>2. Unix(none) = none
  <2>1. PICK c : c[0] = <<>> /\ Unix(none) = c[Len(none)]
    BY LineEnds, UnixSteps
  <2> QED
    BY <1>1, <2>1
<1>3. PICK s : s = Divided(none) /\ s.done = <<>> /\ s.line = <<>>
  BY <1>1, EmptyDivided
<1>4. Strip(<<>>) = <<>>
  BY DEF Strip
<1>5. PICK lines : lines = Lines(none) /\ DOMAIN lines = 1..1 /\ lines[1] = <<>>
  <2>1. Len(s.done) + 1 = 1 /\ Len(s.done) = 0
    BY <1>3
  <2>2. Lines(none) = [i \in 1..1 |-> Strip(IF i > Len(s.done) THEN s.line ELSE s.done[i])]
    BY <1>3, <2>1 DEF Lines
  <2>3. \A i \in 1..1 : i > Len(s.done)
    BY <2>1
  <2> QED
    BY <1>3, <1>4, <2>2, <2>3
<1>6. PICK ss \in Seq(Seq(Int)) : /\ ss = [i \in DOMAIN lines |-> IF IsData(lines[i]) THEN <<lines[i]>> ELSE <<>>]
                                  /\ Len(ss) = 1 /\ ss[1] = <<>>
  <2>1. PICK ss : ss = [i \in DOMAIN lines |-> IF IsData(lines[i]) THEN <<lines[i]>> ELSE <<>>]
    OBVIOUS
  <2>2. ~IsData(<<>>)
    BY DEF IsData
  <2>3. ss = [i \in 1..1 |-> <<>>]
    BY <1>5, <2>1, <2>2
  <2>4. [i \in 1..1 |-> <<>>] \in Seq(Seq(Int)) /\ Len([i \in 1..1 |-> <<>>]) = 1
    OBVIOUS
  <2>5. Len(ss) = 1 /\ ss[1] = <<>> /\ ss \in Seq(Seq(Int))
    BY <2>3, <2>4
  <2> QED
    BY <2>1, <2>5
<1>7. FlattenSeq(ss) = <<>>
  <2>0. PICK n \in Nat : n = Len(ss) /\ n = 1
    BY <1>6
  <2>1. PICK f \in [1..Len(ss) -> Seq(Int)] : f[1] = ss[1] /\ FlattenSeq(ss) = f[Len(ss)]
    <3>1. Len(ss) # 0
      BY <2>0
    <3> QED
      BY <3>1, FlattenSteps
  <2> QED
    BY <1>6, <2>1
<1>8. DataLines(none) = FlattenSeq(ss)
  BY <1>5, <1>6 DEF DataLines
<1>9. PICK data : data = DataLines(Unix(none)) /\ data = <<>>
  BY <1>2, <1>7, <1>8
<1>10. Flush(none) = [i \in DOMAIN data |-> Parsed(<<data[i]>>)]
  BY <1>9 DEF Flush
<1>11. DOMAIN data = {}
  BY <1>9
<1>12. Flush(none) = <<>>
  BY <1>10, <1>11
<1> QED
  BY <1>1, <1>12

(* A whole event left without its empty line is read by flush.                        *)
LEMMA FlushWhole ==
  ASSUME NEW k \in Int
  PROVE  Flush(Whole(k)) = <<k>>
<1>1. PICK w : w = Whole(k)
  OBVIOUS
<1>2. Unix(w) = w
  <2>1. PICK crlf \in BOOLEAN : crlf = FALSE
    OBVIOUS
  <2>2. PICK p \in 0..5 : p = 2
    OBVIOUS
  <2>3. Unix(Clear(k, p, crlf)) = Clear(k, p, crlf)
    BY TextOfAll, ClearReads
  <2>4. Clear(k, 2, crlf) = Whole(k)
    BY ClearGrows
  <2> QED
    BY <1>1, <2>2, <2>3, <2>4
<1>3. PICK data : data = DataLines(w) /\ data = <<w>>
  BY <1>1, WholeParsed
<1>4. DOMAIN data = 1..1 /\ data[1] = w
  BY <1>3
<1>5. Flush(w) = [i \in DOMAIN data |-> Parsed(<<data[i]>>)]
  BY <1>2, <1>3 DEF Flush
<1>6. Parsed(<<w>>) = k
  BY <1>1, WholeParsed
<1>7. Flush(w) = [i \in 1..1 |-> k]
  BY <1>4, <1>5, <1>6
<1> QED
  BY <1>1, <1>7

(* The buffer holds less than one event.                                              *)
LEMMA HeldShort ==
  ASSUME NEW k \in Int, NEW crlf \in BOOLEAN, NEW p \in 0..(SizeOf(crlf) - 1)
  PROVE  /\ Len(Held(k, p, crlf)) \in 0..(SizeOf(crlf) - 1)
         /\ Held(k, p, crlf) = <<>> <=> p = 0
<1>1. CASE p \in {0, 1, 2}
  BY <1>1 DEF Held, Pending, Clear, SizeOf
<1>2. CASE p = 3 /\ crlf
  <2>1. PICK b, e, c : b = Begin(k) /\ e = End(k) /\ c = CR
    OBVIOUS
  <2>2. Held(k, p, crlf) = <<b, e, c>>
    BY <1>2, <2>1, ThirdOf DEF Held, Pending, Clear
  <2>3. PICK w : w = <<b, e, c>> /\ Len(w) = 3
    <3>1. Len(<<b, e, c>>) = 3
      OBVIOUS
    <3> QED
      BY <3>1
  <2>4. w # <<>> /\ SizeOf(crlf) = 6 /\ p # 0
    BY <1>2, <2>3 DEF SizeOf
  <2> QED
    BY <2>2, <2>3, <2>4
<1>3. CASE (p = 3 /\ ~crlf) \/ p = 4
  <2>1. Held(k, p, crlf) = <<Begin(k), End(k), LF>>
    BY <1>3 DEF Held, Pending, Clear
  <2> QED
    BY <1>3, <2>1 DEF SizeOf
<1>4. CASE p = 5
  <2>1. crlf
    BY <1>4 DEF SizeOf
  <2>2. PICK w \in Seq(Text), c \in Text : w = <<Begin(k), End(k), LF>> /\ c = CR
    <3>1. Begin(k) \in Text /\ End(k) \in Text /\ LF \in Text /\ CR \in Text
      BY TextOfAll DEF TextOf
    <3> HIDE DEF Text
    <3>2. <<Begin(k), End(k), LF>> \in Seq(Text)
      BY <3>1
    <3> QED
      BY <3>1, <3>2
  <2> HIDE DEF Text
  <2>3. Held(k, p, crlf) = Append(w, c) /\ Len(w) = 3
    BY <1>4, <2>1, <2>2 DEF Held, Pending, Clear
  <2>4. Len(Append(w, c)) = 4 /\ Append(w, c) # <<>>
    BY <2>2, <2>3
  <2>5. SizeOf(crlf) = 6 /\ p # 0 /\ 4 \in 0..5
    BY <1>4, <2>1 DEF SizeOf
  <2> QED
    BY <2>3, <2>4, <2>5
<1>5. p \in {0, 1, 2, 3, 4, 5}
  BY DEF SizeOf
<1> QED
  BY <1>1, <1>2, <1>3, <1>4, <1>5
------------------------------------------------------------------------------------
(* What a client sees of an end, in the chunks alone: none of these types before the  *)
(* end, then one outcome, with the last type of the protocol last.                    *)
Marks == Outcomes \cup {"done", "message_stop"}

Plain == {"role", "created", "in_progress", "message_start", "open", "close", "delta", "content",
          "reasoning", "failed", "block"}

Chunks == [type : Marks \cup Plain, item : Int, val : Seq(Int)]

PlacesIn(o, S) == {i \in 1..Len(o) : o[i].type \in S}

Quiet(o) == o \in Seq(Chunks) /\ PlacesIn(o, Marks) = {}

Opened(o) == Cardinality(PlacesIn(o, {"open"}))

Finals == {"completed", "incomplete"}

Finale(o, last) ==
    /\ Cardinality(PlacesIn(o, Outcomes)) = 1
    /\ PlacesIn(o, last) = {Len(o)}
    /\ \A i \in PlacesIn(o, Finals) : o[i].val = [n \in 1..Opened(o) |-> n]

(* The types that tell the end, one by one; no other type is one of them.             *)
LEMMA MarksAre ==
  /\ Outcomes = {"error", "completed", "incomplete", "max_tokens", "tool_use", "end_turn",
                 "stop", "length", "tool_calls", "content_filter"}
  /\ Marks = {"error", "completed", "incomplete", "max_tokens", "tool_use", "end_turn",
              "stop", "length", "tool_calls", "content_filter", "done", "message_stop"}
  /\ Plain \cap Marks = {}
  BY DEF Outcomes, Marks, Plain, Chat!Reasons

(* Where the types stand after one more chunk.                                        *)
LEMMA AppendPlaces ==
  ASSUME NEW o \in Seq(Chunks), NEW c \in Chunks, NEW S
  PROVE  /\ Append(o, c) \in Seq(Chunks) /\ Len(Append(o, c)) = Len(o) + 1
         /\ PlacesIn(Append(o, c), S) =
               IF c.type \in S THEN PlacesIn(o, S) \cup {Len(o) + 1} ELSE PlacesIn(o, S)
         /\ \A i \in 1..Len(o) : Append(o, c)[i] = o[i]
         /\ Append(o, c)[Len(o) + 1] = c
<1>1. PICK n \in Nat : n = Len(o)
  OBVIOUS
<1>2. PICK p \in Seq(Chunks) : p = Append(o, c)
  BY Appended
<1>3. Len(p) = n + 1 /\ (\A i \in 1..n : p[i] = o[i]) /\ p[n + 1] = c
  BY <1>1, <1>2, AppendProperties
<1>4. \A i : i \in 1..(n + 1) <=> i \in 1..n \/ i = n + 1
  OBVIOUS
<1>5. PlacesIn(p, S) = IF c.type \in S THEN PlacesIn(o, S) \cup {n + 1} ELSE PlacesIn(o, S)
  BY <1>1, <1>3, <1>4 DEF PlacesIn
<1> QED
  BY <1>1, <1>2, <1>3, <1>5

(* Only so many chunks can have a type.                                               *)
LEMMA PlacesFinite ==
  ASSUME NEW o \in Seq(Chunks), NEW S
  PROVE  IsFiniteSet(PlacesIn(o, S)) /\ Cardinality(PlacesIn(o, S)) \in Nat
<1>1. PlacesIn(o, S) \in SUBSET (1..Len(o)) /\ Len(o) \in Nat
  BY DEF PlacesIn
<1>2. IsFiniteSet(1..Len(o))
  BY <1>1, FS_Interval
<1> QED
  BY <1>1, <1>2, FS_Subset, FS_CardinalityType

(* Only a chunk of type "open" opens an item.                                         *)
LEMMA AppendOpened ==
  ASSUME NEW o \in Seq(Chunks), NEW c \in Chunks
  PROVE  Opened(Append(o, c)) = IF c.type = "open" THEN Opened(o) + 1 ELSE Opened(o)
<1>1. CASE c.type = "open"
  <2>1. PlacesIn(Append(o, c), {"open"}) = PlacesIn(o, {"open"}) \cup {Len(o) + 1}
    BY <1>1, AppendPlaces
  <2>2. Len(o) + 1 \notin PlacesIn(o, {"open"})
    BY DEF PlacesIn
  <2> QED
    BY <1>1, <2>1, <2>2, PlacesFinite, FS_AddElement DEF Opened
<1>2. CASE c.type # "open"
  <2>1. PlacesIn(Append(o, c), {"open"}) = PlacesIn(o, {"open"})
    BY <1>2, AppendPlaces
  <2> QED
    BY <1>2, <2>1 DEF Opened
<1> QED
  BY <1>1, <1>2

(* A chunk that tells no end leaves the stream quiet,                                 *)
LEMMA QuietAppend ==
  ASSUME NEW o, Quiet(o), NEW c \in Chunks, c.type \notin Marks
  PROVE  Quiet(Append(o, c))
<1>1. o \in Seq(Chunks) /\ PlacesIn(o, Marks) = {}
  BY DEF Quiet
<1>2. PlacesIn(Append(o, c), Marks) = PlacesIn(o, Marks) /\ Append(o, c) \in Seq(Chunks)
  BY <1>1, AppendPlaces
<1> QED
  BY <1>1, <1>2 DEF Quiet

(* and so does the first one.                                                         *)
LEMMA QuietFirst ==
  ASSUME NEW c \in Chunks, c.type \notin Marks
  PROVE  <<c>> \in Seq(Chunks) /\ Quiet(<<c>>)
<1>1. <<c>> \in Seq(Chunks) /\ Len(<<c>>) = 1 /\ <<c>>[1] = c
  OBVIOUS
<1>2. PICK o \in Seq(Chunks) : o = <<c>> /\ Len(o) = 1 /\ o[1] = c
  BY <1>1
<1>3. \A i \in 1..1 : i = 1
  OBVIOUS
<1> QED
  BY <1>2, <1>3 DEF Quiet, PlacesIn

(* A quiet stream has none of the types that tell an end.                             *)
LEMMA QuietHasNone ==
  ASSUME NEW o, Quiet(o), NEW S, S \subseteq Marks
  PROVE  PlacesIn(o, S) = {}
  BY DEF Quiet, PlacesIn

(* The client is told the outcome, then the end.                                      *)
LEMMA EndInTwo ==
  ASSUME NEW o, Quiet(o), NEW c \in Chunks, NEW d \in Chunks, NEW last \in SUBSET Marks,
         c.type \in Outcomes, c.type \notin last \cup Finals,
         d.type \notin Outcomes, d.type \in last
  PROVE  Finale(Append(Append(o, c), d), last) /\ Append(Append(o, c), d) \in Seq(Chunks)
<1>1. /\ o \in Seq(Chunks) /\ PlacesIn(o, Outcomes) = {} /\ PlacesIn(o, last) = {}
      /\ PlacesIn(o, Finals) = {}
  BY QuietHasNone, MarksAre DEF Quiet, Finals
<1>2. PICK p \in Seq(Chunks) : p = Append(o, c)
  BY <1>1, Appended
<1>3. /\ PlacesIn(p, Outcomes) = {Len(o) + 1} /\ PlacesIn(p, last) = {}
      /\ PlacesIn(p, Finals) = {}
  BY <1>1, <1>2, AppendPlaces
<1>4. PICK q \in Seq(Chunks) : q = Append(p, d)
  BY <1>2, Appended
<1>5. d.type \notin Finals
  BY MarksAre DEF Finals
<1>6. /\ PlacesIn(q, Outcomes) = {Len(o) + 1} /\ PlacesIn(q, last) = {Len(q)}
      /\ PlacesIn(q, Finals) = {}
  BY <1>3, <1>4, <1>5, AppendPlaces
<1>7. Cardinality({Len(o) + 1}) = 1
  BY FS_Singleton
<1> QED
  BY <1>2, <1>4, <1>6, <1>7 DEF Finale

(* One chunk is both.                                                                 *)
LEMMA EndInOne ==
  ASSUME NEW o, Quiet(o), NEW c \in Chunks, NEW last \in SUBSET Marks,
         c.type \in Outcomes, c.type \in last,
         c.type \in Finals => c.val = [n \in 1..Opened(o) |-> n]
  PROVE  Finale(Append(o, c), last) /\ Append(o, c) \in Seq(Chunks)
<1>1. /\ o \in Seq(Chunks) /\ PlacesIn(o, Outcomes) = {} /\ PlacesIn(o, last) = {}
      /\ PlacesIn(o, Finals) = {}
  BY QuietHasNone, MarksAre DEF Quiet, Finals
<1>2. PICK p \in Seq(Chunks) : p = Append(o, c)
  BY <1>1, Appended
<1>3. /\ PlacesIn(p, Outcomes) = {Len(p)} /\ PlacesIn(p, last) = {Len(p)}
      /\ PlacesIn(p, Finals) = IF c.type \in Finals THEN {Len(p)} ELSE {}
      /\ p[Len(p)] = c
  BY <1>1, <1>2, AppendPlaces
<1>4. Cardinality({Len(p)}) = 1
  BY FS_Singleton
<1>5. Opened(p) = Opened(o)
  BY <1>1, <1>2, AppendOpened, MarksAre
<1> QED
  BY <1>2, <1>3, <1>4, <1>5 DEF Finale
------------------------------------------------------------------------------------
(* What chunks carry besides lists of items.                                          *)
LEMMA PieceType ==
  /\ 0 \in Int /\ <<>> \in Seq(Int)
  /\ \A k \in Int : <<k>> \in Seq(Int)
  OBVIOUS

(* The types the converters use.                                                      *)
LEMMA PlainTags ==
  /\ "role" \in Plain /\ "created" \in Plain /\ "in_progress" \in Plain
  /\ "message_start" \in Plain /\ "open" \in Plain /\ "close" \in Plain /\ "delta" \in Plain
  /\ "content" \in Plain /\ "reasoning" \in Plain /\ "failed" \in Plain
  /\ \A t \in Plain : t \in Marks \cup Plain /\ t \notin Marks
  /\ Marks \subseteq Marks \cup Plain /\ "done" \in Marks /\ "message_stop" \in Marks
  /\ Chat!Reasons \cup Finals \cup {"error", "max_tokens", "tool_use", "end_turn"} \subseteq Marks
  BY MarksAre DEF Plain, Finals, Chat!Reasons
----------------------------------------------------------------------------------
(* to_chat_stream.                                                                    *)
IsChunk(c, type, val) == c \in Chunks /\ c.type = type /\ c.val = val

(* A chunk is a chunk, and keeps what it is made of.                                  *)
LEMMA ChatChunk ==
  ASSUME NEW type \in Marks \cup Plain, NEW item \in Int, NEW val \in Seq(Int)
  PROVE  IsChunk(Chat!Chunk(type, item, val), type, val)
<1>1. PICK c : c = [type |-> type, item |-> item, val |-> val]
  OBVIOUS
<1>2. c \in Chunks /\ c.type = type /\ c.val = val
  BY <1>1 DEF Chunks
<1> QED
  BY <1>1, <1>2 DEF Chat!Chunk, IsChunk

ChatFrames == [out : Seq(Chunks), over : BOOLEAN, calls : SUBSET Int, tool : BOOLEAN,
               finish : Chat!Reasons]

ChatGoing == {s \in ChatFrames : ~s.over /\ Quiet(s.out)}

ChatEnded == {s \in ChatFrames : s.over /\ Finale(s.out, {"done"})}

(* A chunk that tells no end leaves the stream going.                                 *)
LEMMA ChatEmit ==
  ASSUME NEW s \in ChatGoing, NEW type \in Plain, NEW item \in Int, NEW val \in Seq(Int)
  PROVE  Chat!Emit(s, type, item, val) \in ChatGoing
<1>1. PICK c : c = Chat!Chunk(type, item, val) /\ IsChunk(c, type, val)
  BY ChatChunk
<1>1a. c \in Chunks /\ c.type = type
  BY <1>1 DEF IsChunk
<1>2. Quiet(Append(s.out, c))
  BY <1>1, <1>1a, QuietAppend, MarksAre DEF ChatGoing
<1>3. PICK o \in Seq(Chunks) : o = Append(s.out, c) /\ Quiet(o)
  BY <1>2 DEF Quiet
<1>4. Chat!Emit(s, type, item, val) = [s EXCEPT !.out = o]
  BY <1>1, <1>3 DEF Chat!Emit
<1> QED
  BY <1>3, <1>4 DEF ChatGoing, ChatFrames

(* The outcome, then [DONE]: an error, or the reason.                                 *)
LEMMA ChatEnd ==
  ASSUME NEW s \in ChatGoing, NEW type \in Chat!Reasons \cup {"error"}
  PROVE  [Chat!Emit(Chat!Emit(s, type, 0, <<>>), "done", 0, <<>>) EXCEPT !.over = TRUE] \in ChatEnded
<1>0. /\ type \in Marks \cup Plain /\ "done" \in Marks \cup Plain
      /\ 0 \in Int /\ <<>> \in Seq(Int)
  BY PieceType, PlainTags
<1>1. PICK c : c = Chat!Chunk(type, 0, <<>>) /\ IsChunk(c, type, <<>>)
  BY <1>0, ChatChunk
<1>1a. c \in Chunks /\ c.type = type
  BY <1>1 DEF IsChunk
<1>2. PICK d : d = Chat!Chunk("done", 0, <<>>) /\ IsChunk(d, "done", <<>>)
  BY <1>0, ChatChunk
<1>2a. d \in Chunks /\ d.type = "done"
  BY <1>2 DEF IsChunk
<1>3. /\ c.type \in Outcomes /\ c.type \notin {"done"} \cup Finals
      /\ d.type \notin Outcomes /\ {"done"} \in SUBSET Marks
  BY <1>1a, <1>2a, MarksAre DEF Finals, Chat!Reasons
<1>4. PICK o \in Seq(Chunks) : o = Append(Append(s.out, c), d) /\ Finale(o, {"done"})
  BY <1>1a, <1>2a, <1>3, EndInTwo DEF ChatGoing
<1>5. [Chat!Emit(Chat!Emit(s, type, 0, <<>>), "done", 0, <<>>) EXCEPT !.over = TRUE]
         = [s EXCEPT !.out = o, !.over = TRUE]
  BY <1>1, <1>2, <1>4 DEF Chat!Emit, ChatGoing, ChatFrames
<1> QED
  BY <1>4, <1>5 DEF ChatEnded, ChatGoing, ChatFrames

(* The announcement of a tool call is no end.                                         *)
LEMMA ChatToolStart ==
  ASSUME NEW s \in ChatGoing, NEW src \in Int
  PROVE  Chat!ToolStart(s, src) \in ChatGoing
<1>1. PICK t \in ChatGoing : t = Chat!Emit(s, "open", src, <<>>)
  BY ChatEmit, PieceType, PlainTags
<1>2. PICK calls \in SUBSET Int : calls = t.calls \cup {src}
  BY DEF ChatGoing, ChatFrames
<1>3. PICK u : u = [t EXCEPT !.calls = calls, !.tool = TRUE]
  OBVIOUS
<1>4. Chat!ToolStart(s, src) = u
  BY <1>1, <1>2, <1>3 DEF Chat!ToolStart
<1>5. u \in ChatFrames /\ u.out = t.out /\ u.over = t.over
  BY <1>3 DEF ChatGoing, ChatFrames
<1> QED
  BY <1>4, <1>5 DEF ChatGoing

(* Every event leaves a stream going or ends it with an error.                        *)
LEMMA ChatOn ==
  ASSUME NEW s \in ChatGoing, NEW e, e.src \in Int, NEW k \in Int
  PROVE  Chat!On(s, e, k) \in ChatGoing \cup ChatEnded
<1>1. CASE e.kind = "error"
  BY <1>1, ChatEnd DEF Chat!On, Chat!Reasons
<1>2. CASE e.kind = "text"
  <2>1. Chat!Emit(s, "content", 0, <<k>>) \in ChatGoing
    BY ChatEmit, PieceType, PlainTags
  <2> QED
    BY <1>2, <2>1 DEF Chat!On, Chat!Reasons
<1>3. CASE e.kind = "reasoning"
  <2>1. Chat!Emit(s, "reasoning", 0, <<k>>) \in ChatGoing
    BY ChatEmit, PieceType, PlainTags
  <2> QED
    BY <1>3, <2>1 DEF Chat!On, Chat!Reasons
<1>4. CASE e.kind = "start"
  BY <1>4, ChatToolStart DEF Chat!On, Chat!Reasons
<1>5. CASE e.kind = "args"
  <2>1. PICK t \in ChatGoing : t = IF e.src \in s.calls THEN s ELSE Chat!ToolStart(s, e.src)
    BY ChatToolStart
  <2>2. Chat!ToolArgs(s, e.src, k) = Chat!Emit(t, "delta", e.src, <<k>>)
    BY <2>1 DEF Chat!ToolArgs
  <2>3. Chat!Emit(t, "delta", e.src, <<k>>) \in ChatGoing
    BY ChatEmit, PieceType, PlainTags
  <2> QED
    BY <1>5, <2>2, <2>3 DEF Chat!On, Chat!Reasons
<1>6. CASE e.kind \in Chat!Reasons
  <2>1. [s EXCEPT !.finish = e.kind] \in ChatGoing
    BY <1>6 DEF ChatGoing, ChatFrames
  <2>2. Chat!On(s, e, k) = [s EXCEPT !.finish = e.kind]
    BY <1>6 DEF Chat!On, Chat!Reasons
  <2> QED
    BY <2>1, <2>2
<1>7. CASE e.kind \notin {"error", "text", "reasoning", "start", "args"} \cup Chat!Reasons
  BY <1>7 DEF Chat!On, Chat!Reasons
<1> QED
  BY <1>1, <1>2, <1>3, <1>4, <1>5, <1>6, <1>7

(* The end of the upstream ends the stream with its reason.                           *)
LEMMA ChatClose ==
  ASSUME NEW s \in ChatGoing
  PROVE  Chat!Close(s) \in ChatEnded
<1>1. PICK reason \in Chat!Reasons :
         reason = IF s.tool /\ s.finish = "stop" THEN "tool_calls" ELSE s.finish
  BY DEF ChatGoing, ChatFrames, Chat!Reasons
<1> QED
  BY <1>1, ChatEnd DEF Chat!Close

(* The first chunk is no end.                                                         *)
LEMMA ChatOpening == Chat!Opening \in ChatGoing
<1>0. "role" \in Marks \cup Plain /\ 0 \in Int /\ <<>> \in Seq(Int)
  BY PieceType, PlainTags
<1>1. PICK c : c = Chat!Chunk("role", 0, <<>>) /\ IsChunk(c, "role", <<>>)
  BY <1>0, ChatChunk
<1>2. c \in Chunks /\ c.type \notin Marks
  BY <1>1, PlainTags DEF IsChunk
<1>3. <<c>> \in Seq(Chunks) /\ Quiet(<<c>>)
  BY <1>2, QuietFirst
<1> QED
  BY <1>1, <1>3 DEF Chat!Opening, ChatGoing, ChatFrames, Chat!Reasons
------------------------------------------------------------------------------------
(* to_anthropic_stream.                                                               *)
Dict(V) == UNION {[D -> V] : D \in SUBSET Int}

StopReasons == {"max_tokens", "tool_use", "end_turn"}

MessagesFrames == [out : Seq(Chunks), over : BOOLEAN, open : {"none", "text", "thinking", "tool"},
                   item : Int, next : Int, where : Dict(Int), tool : BOOLEAN, finish : StopReasons]

MessagesGoing == {s \in MessagesFrames : ~s.over /\ Quiet(s.out)}

MessagesEnded == {s \in MessagesFrames : s.over /\ Finale(s.out, {"message_stop"})}

(* A new dictionary is one.                                                           *)
LEMMA DictEmpty == ASSUME NEW V PROVE <<>> \in Dict(V)
<1>1. <<>> \in [{} -> V]
  OBVIOUS
<1>2. {} \in SUBSET Int
  OBVIOUS
<1> QED
  BY <1>1, <1>2 DEF Dict

(* It stays one under f[x] = v,                                                       *)
LEMMA DictPut ==
  ASSUME NEW V, NEW f \in Dict(V), NEW x \in Int, NEW v \in V
  PROVE  Messages!Put(f, x, v) \in Dict(V)
<1>1. PICK D \in SUBSET Int : f \in [D -> V]
  BY DEF Dict
<1>2. Messages!Put(f, x, v) \in [D \cup {x} -> V]
  BY <1>1 DEF Messages!Put
<1>3. D \cup {x} \in SUBSET Int
  BY <1>1
<1> QED
  BY <1>2, <1>3 DEF Dict

(* and what it has for a key is one of its values.                                    *)
LEMMA DictAt ==
  ASSUME NEW V, NEW f \in Dict(V), NEW x \in DOMAIN f
  PROVE  f[x] \in V
<1>1. PICK D \in SUBSET Int : f \in [D -> V]
  BY DEF Dict
<1> QED
  BY <1>1

(* As ChatChunk.                                                                      *)
LEMMA MessagesChunk ==
  ASSUME NEW type \in Marks \cup Plain, NEW item \in Int, NEW val \in Seq(Int)
  PROVE  IsChunk(Messages!Chunk(type, item, val), type, val)
<1>1. PICK c : c = [type |-> type, item |-> item, val |-> val]
  OBVIOUS
<1>2. c \in Chunks /\ c.type = type /\ c.val = val
  BY <1>1 DEF Chunks
<1> QED
  BY <1>1, <1>2 DEF Messages!Chunk, IsChunk

(* A chunk that tells no end leaves the stream going.                                 *)
LEMMA MessagesEmit ==
  ASSUME NEW s \in MessagesGoing, NEW type \in Plain, NEW item \in Int, NEW val \in Seq(Int)
  PROVE  Messages!Emit(s, type, item, val) \in MessagesGoing
<1>1. PICK c : c = Messages!Chunk(type, item, val) /\ IsChunk(c, type, val)
  BY MessagesChunk
<1>2. c \in Chunks /\ c.type \notin Marks
  BY <1>1, PlainTags DEF IsChunk
<1>3. Quiet(Append(s.out, c))
  BY <1>2, QuietAppend DEF MessagesGoing
<1>4. PICK o \in Seq(Chunks) : o = Append(s.out, c) /\ Quiet(o)
  BY <1>3 DEF Quiet
<1>5. Messages!Emit(s, type, item, val) = [s EXCEPT !.out = o]
  BY <1>1, <1>4 DEF Messages!Emit
<1> QED
  BY <1>4, <1>5 DEF MessagesGoing, MessagesFrames

(* The outcome, then message_stop: an error, or the stop reason.                      *)
LEMMA MessagesEnd ==
  ASSUME NEW s \in MessagesGoing, NEW type \in StopReasons \cup {"error"}
  PROVE  [Messages!Emit(Messages!Emit(s, type, 0, <<>>), "message_stop", 0, <<>>)
             EXCEPT !.over = TRUE] \in MessagesEnded
<1>0. /\ type \in Marks \cup Plain /\ "message_stop" \in Marks \cup Plain
      /\ 0 \in Int /\ <<>> \in Seq(Int)
  BY PieceType, PlainTags DEF StopReasons
<1>1. PICK c : c = Messages!Chunk(type, 0, <<>>) /\ IsChunk(c, type, <<>>)
  BY <1>0, MessagesChunk
<1>2. PICK d : d = Messages!Chunk("message_stop", 0, <<>>) /\ IsChunk(d, "message_stop", <<>>)
  BY <1>0, MessagesChunk
<1>3. c \in Chunks /\ c.type = type /\ d \in Chunks /\ d.type = "message_stop"
  BY <1>1, <1>2 DEF IsChunk
<1>4. /\ c.type \in Outcomes /\ c.type \notin {"message_stop"} \cup Finals
      /\ d.type \notin Outcomes /\ {"message_stop"} \in SUBSET Marks
  BY <1>3, MarksAre DEF Finals, StopReasons
<1>5. PICK o \in Seq(Chunks) : o = Append(Append(s.out, c), d) /\ Finale(o, {"message_stop"})
  BY <1>3, <1>4, EndInTwo DEF MessagesGoing
<1>6. [Messages!Emit(Messages!Emit(s, type, 0, <<>>), "message_stop", 0, <<>>) EXCEPT !.over = TRUE]
         = [s EXCEPT !.out = o, !.over = TRUE]
  BY <1>1, <1>2, <1>5 DEF Messages!Emit, MessagesGoing, MessagesFrames
<1> QED
  BY <1>5, <1>6 DEF MessagesEnded, MessagesGoing, MessagesFrames

(* Closing the open block is no end,                                                  *)
LEMMA MessagesStop ==
  ASSUME NEW s \in MessagesGoing
  PROVE  Messages!Stop(s) \in MessagesGoing
<1>1. s.item \in Int
  BY DEF MessagesGoing, MessagesFrames
<1>2. PICK t \in MessagesGoing : t = Messages!Emit(s, "close", s.item, <<>>)
  BY <1>1, MessagesEmit, PieceType, PlainTags
<1>3. [t EXCEPT !.open = "none"] \in MessagesGoing
  BY DEF MessagesGoing, MessagesFrames
<1> QED
  BY <1>2, <1>3 DEF Messages!Stop

(* nor is opening one,                                                                *)
LEMMA MessagesStart ==
  ASSUME NEW s \in MessagesGoing, NEW kind \in {"text", "thinking", "tool"}
  PROVE  Messages!Start(s, kind) \in MessagesGoing
<1>1. PICK c \in MessagesGoing : c = Messages!Stop(s)
  BY MessagesStop
<1>2. c.next \in Int
  BY DEF MessagesGoing, MessagesFrames
<1>3. PICK t \in MessagesGoing : t = Messages!Emit(c, "open", c.next, <<>>)
  BY <1>2, MessagesEmit, PieceType, PlainTags
<1>4. PICK n \in Int : n = t.next + 1
  BY DEF MessagesGoing, MessagesFrames
<1>5. Messages!Start(s, kind) = [t EXCEPT !.open = kind, !.item = c.next, !.next = n]
  BY <1>1, <1>3, <1>4 DEF Messages!Start
<1>6. [t EXCEPT !.open = kind, !.item = c.next, !.next = n] \in MessagesFrames
  BY <1>2 DEF MessagesGoing, MessagesFrames
<1>7. /\ [t EXCEPT !.open = kind, !.item = c.next, !.next = n].over = t.over
      /\ [t EXCEPT !.open = kind, !.item = c.next, !.next = n].out = t.out
  BY DEF MessagesGoing, MessagesFrames
<1> QED
  BY <1>5, <1>6, <1>7 DEF MessagesGoing

(* nor a piece of one;                                                                *)
LEMMA MessagesPiece ==
  ASSUME NEW s \in MessagesGoing, NEW kind \in {"text", "thinking"}, NEW k \in Int
  PROVE  Messages!Piece(s, kind, k) \in MessagesGoing
<1>1. PICK t \in MessagesGoing : t = IF s.open = kind THEN s ELSE Messages!Start(s, kind)
  BY MessagesStart
<1>2. t.item \in Int
  BY DEF MessagesGoing, MessagesFrames
<1>3. Messages!Emit(t, "delta", t.item, <<k>>) \in MessagesGoing
  BY <1>2, MessagesEmit, PieceType, PlainTags
<1> QED
  BY <1>1, <1>3 DEF Messages!Piece

(* a tool call gets a block,                                                          *)
LEMMA MessagesToolStart ==
  ASSUME NEW s \in MessagesGoing, NEW src \in Int
  PROVE  Messages!ToolStart(s, src) \in MessagesGoing /\ src \in DOMAIN Messages!ToolStart(s, src).where
<1>1. PICK t \in MessagesGoing : t = Messages!Start(s, "tool")
  BY MessagesStart
<1>2. t.item \in Int /\ t.where \in Dict(Int)
  BY DEF MessagesGoing, MessagesFrames
<1>3. PICK f \in Dict(Int) : f = Messages!Put(t.where, src, t.item)
  BY <1>2, DictPut
<1>4. src \in DOMAIN f
  BY <1>3 DEF Messages!Put
<1>5. Messages!ToolStart(s, src) = [t EXCEPT !.tool = TRUE, !.where = f]
  BY <1>1, <1>3 DEF Messages!ToolStart
<1> QED
  BY <1>4, <1>5 DEF MessagesGoing, MessagesFrames

(* and its arguments find it.                                                         *)
LEMMA MessagesToolArgs ==
  ASSUME NEW s \in MessagesGoing, NEW src \in Int, NEW k \in Int
  PROVE  Messages!ToolArgs(s, src, k) \in MessagesGoing
<1>1. PICK t \in MessagesGoing :
         /\ t = IF src \in DOMAIN s.where THEN s ELSE Messages!ToolStart(s, src)
         /\ src \in DOMAIN t.where
  BY MessagesToolStart
<1>2. t.where[src] \in Int
  <2>1. t.where \in Dict(Int)
    BY DEF MessagesGoing, MessagesFrames
  <2> QED
    BY <1>1, <2>1, DictAt
<1>3. [t EXCEPT !.tool = TRUE] \in MessagesGoing
  BY DEF MessagesGoing, MessagesFrames
<1>4. Messages!Emit([t EXCEPT !.tool = TRUE], "delta", t.where[src], <<k>>) \in MessagesGoing
  BY <1>2, <1>3, MessagesEmit, PieceType, PlainTags
<1> QED
  BY <1>1, <1>4 DEF Messages!ToolArgs

(* Every event leaves a stream going or ends it with an error.                        *)
LEMMA MessagesOn ==
  ASSUME NEW s \in MessagesGoing, NEW e, e.src \in Int, NEW k \in Int
  PROVE  Messages!On(s, e, k) \in MessagesGoing \cup MessagesEnded
<1>1. CASE e.kind = "error"
  <2>1. Messages!Failed(s) \in MessagesEnded
    BY MessagesStop, MessagesEnd DEF Messages!Failed
  <2> QED
    BY <1>1, <2>1 DEF Messages!On, Messages!Reasons
<1>2. CASE e.kind = "text"
  BY <1>2, MessagesPiece DEF Messages!On, Messages!Reasons
<1>3. CASE e.kind = "reasoning"
  BY <1>3, MessagesPiece DEF Messages!On, Messages!Reasons
<1>4. CASE e.kind = "start"
  BY <1>4, MessagesToolStart DEF Messages!On, Messages!Reasons
<1>5. CASE e.kind = "args"
  BY <1>5, MessagesToolArgs DEF Messages!On, Messages!Reasons
<1>6. CASE e.kind \in Messages!Reasons
  <2>1. Messages!StopReason(e.kind) \in StopReasons
    BY <1>6 DEF Messages!Reasons, Messages!StopReason, StopReasons
  <2>2. [s EXCEPT !.finish = Messages!StopReason(e.kind)] \in MessagesGoing
    BY <2>1 DEF MessagesGoing, MessagesFrames
  <2>3. Messages!On(s, e, k) = [s EXCEPT !.finish = Messages!StopReason(e.kind)]
    BY <1>6 DEF Messages!On, Messages!Reasons
  <2> QED
    BY <2>2, <2>3
<1>7. CASE e.kind \notin {"error", "text", "reasoning", "start", "args"} \cup Messages!Reasons
  BY <1>7 DEF Messages!On
<1> QED
  BY <1>1, <1>2, <1>3, <1>4, <1>5, <1>6, <1>7

(* The end of the upstream ends the stream with a stop reason.                        *)
LEMMA MessagesClose ==
  ASSUME NEW s \in MessagesGoing
  PROVE  Messages!Close(s) \in MessagesEnded
<1>1. PICK c \in MessagesGoing : c = Messages!Stop(s)
  BY MessagesStop
<1>2. PICK reason \in StopReasons :
         reason = IF c.tool /\ c.finish = "end_turn" THEN "tool_use" ELSE c.finish
  BY DEF MessagesGoing, MessagesFrames, StopReasons
<1> QED
  BY <1>1, <1>2, MessagesEnd DEF Messages!Close

(* The first chunk is no end.                                                         *)
LEMMA MessagesOpening == Messages!Opening \in MessagesGoing
<1>0. "message_start" \in Marks \cup Plain /\ 0 \in Int /\ <<>> \in Seq(Int)
  BY PieceType, PlainTags
<1>1. PICK c : c = Messages!Chunk("message_start", 0, <<>>) /\ IsChunk(c, "message_start", <<>>)
  BY <1>0, MessagesChunk
<1>2. c \in Chunks /\ c.type \notin Marks
  BY <1>1, PlainTags DEF IsChunk
<1>3. <<c>> \in Seq(Chunks) /\ Quiet(<<c>>)
  BY <1>2, QuietFirst
<1> QED
  BY <1>1, <1>3, DictEmpty DEF Messages!Opening, MessagesGoing, MessagesFrames, StopReasons
------------------------------------------------------------------------------------
(* to_responses_stream.                                                               *)
Items == {"message", "reasoning", "tool"}

ResponsesFrames == [out : Seq(Chunks), over : BOOLEAN, open : {"none"} \cup Items, item : Int,
                    src : Int, next : Nat \ {0}, text : Seq(Int), reason : Seq(Int),
                    args : Dict(Seq(Int)), where : Dict(Int), items : Seq(Int),
                    finish : Responses!Reasons]

Numbers(m) == [n \in 1..m |-> n]

(* Every item opened is in the list, but for the one that is open.                    *)
Counted(s) ==
    /\ Opened(s.out) = s.next - 1
    /\ s.items = Numbers(IF s.open = "none" THEN s.next - 1 ELSE s.next - 2)
    /\ s.open # "none" => s.next > 1 /\ s.item = s.next - 1

(* Every tool call that has an item has its arguments.                                *)
ResponsesParts ==
    {s \in ResponsesFrames : /\ ~s.over /\ Quiet(s.out) /\ Counted(s)
                             /\ DOMAIN s.where \subseteq DOMAIN s.args}

Gathered(s) == s.open = "tool" => s.src \in DOMAIN s.args

ResponsesGoing == {s \in ResponsesParts : Gathered(s)}

ResponsesEnded ==
    {s \in ResponsesFrames : s.over /\ Finale(s.out, {"completed", "incomplete", "error"})}

(* The fields of such a frame.                                                        *)
LEMMA ResponsesTyped ==
  ASSUME NEW s \in ResponsesParts
  PROVE  /\ s \in ResponsesFrames /\ ~s.over /\ Quiet(s.out) /\ Counted(s)
         /\ s.out \in Seq(Chunks) /\ s.open \in {"none"} \cup Items /\ s.item \in Int /\ s.src \in Int
         /\ s.next \in Nat \ {0} /\ s.text \in Seq(Int) /\ s.reason \in Seq(Int)
         /\ s.args \in Dict(Seq(Int)) /\ s.where \in Dict(Int) /\ s.items \in Seq(Int)
         /\ DOMAIN s.where \subseteq DOMAIN s.args
  BY DEF ResponsesParts, ResponsesFrames

(* The first m numbers are a list of length m;                                        *)
LEMMA NumbersType ==
  ASSUME NEW m \in Nat
  PROVE  Numbers(m) \in Seq(Int) /\ Len(Numbers(m)) = m /\ \A i \in 1..m : Numbers(m)[i] = i
<1>1. \A i \in 1..m : i \in Int
  OBVIOUS
<1> QED
  BY <1>1 DEF Numbers

(* one more and they are the first m + 1.                                             *)
LEMMA NumbersAppend ==
  ASSUME NEW m \in Nat, NEW n \in Int, n = m + 1
  PROVE  Append(Numbers(m), n) = Numbers(n)
<1>1. PICK s \in Seq(Int) : s = Numbers(m)
  BY NumbersType
<1>2. Len(s) = m /\ \A i \in 1..m : s[i] = i
  BY <1>1, NumbersType
<1>3. PICK t \in Seq(Int) : t = Append(s, n)
  BY Appended
<1>4. Len(t) = n /\ t[n] = n /\ \A i \in 1..m : t[i] = i
  BY <1>2, <1>3, AppendProperties
<1>5. \A i \in 1..n : t[i] = i
  <2>1. \A i \in 1..n : i \in 1..m \/ i = n
    OBVIOUS
  <2> QED
    BY <1>4, <2>1
<1>6. t = [i \in 1..n |-> t[i]]
  BY <1>4
<1>7. t = Numbers(n)
  BY <1>5, <1>6 DEF Numbers
<1> QED
  BY <1>1, <1>3, <1>7

(* As ChatChunk.                                                                      *)
LEMMA ResponsesChunk ==
  ASSUME NEW type \in Marks \cup Plain, NEW item \in Int, NEW val \in Seq(Int)
  PROVE  IsChunk(Responses!Chunk(type, item, val), type, val)
<1>1. PICK c : c = [type |-> type, item |-> item, val |-> val]
  OBVIOUS
<1>2. c \in Chunks /\ c.type = type /\ c.val = val
  BY <1>1 DEF Chunks
<1> QED
  BY <1>1, <1>2 DEF Responses!Chunk, IsChunk

(* The rest of the frame.                                                             *)
Keeps(s, t) == t.open = s.open /\ t.item = s.item /\ t.src = s.src /\ t.args = s.args
                 /\ t.where = s.where /\ t.next = s.next /\ t.items = s.items

ResponsesPut(s, t) == t \in ResponsesParts /\ Keeps(s, t)

(* A chunk that neither tells an end nor opens an item keeps the count.               *)
LEMMA ResponsesEmit ==
  ASSUME NEW s \in ResponsesParts, NEW type \in Plain \ {"open"}, NEW item \in Int, NEW val \in Seq(Int)
  PROVE  ResponsesPut(s, Responses!Emit(s, type, item, val))
<1>1. PICK c : c = Responses!Chunk(type, item, val) /\ IsChunk(c, type, val)
  BY ResponsesChunk
<1>2. c \in Chunks /\ c.type \notin Marks /\ c.type # "open"
  BY <1>1, PlainTags DEF IsChunk
<1>3. Quiet(Append(s.out, c)) /\ Opened(Append(s.out, c)) = Opened(s.out)
  BY <1>2, QuietAppend, AppendOpened, ResponsesTyped
<1>4. PICK o \in Seq(Chunks) : o = Append(s.out, c) /\ Quiet(o) /\ Opened(o) = Opened(s.out)
  BY <1>3 DEF Quiet
<1>5. PICK t : t = [s EXCEPT !.out = o]
  OBVIOUS
<1>6. Responses!Emit(s, type, item, val) = t
  BY <1>1, <1>4, <1>5 DEF Responses!Emit
<1>7. t \in ResponsesFrames /\ Keeps(s, t) /\ t.out = o /\ t.over = s.over
  BY <1>4, <1>5 DEF ResponsesParts, ResponsesFrames, Keeps
<1>8. t \in ResponsesParts
  BY <1>4, <1>7 DEF ResponsesParts, Counted, Keeps
<1> QED
  BY <1>6, <1>7, <1>8 DEF ResponsesPut

(* The last chunk.                                                                    *)
LEMMA ResponsesEnd ==
  ASSUME NEW s \in ResponsesParts, NEW type \in {"completed", "incomplete", "error"},
         NEW val \in Seq(Int), type \in Finals => val = Numbers(Opened(s.out))
  PROVE  [Responses!Emit(s, type, 0, val) EXCEPT !.over = TRUE] \in ResponsesEnded
<1>0. type \in Marks \cup Plain /\ 0 \in Int
  BY PlainTags DEF Finals
<1>1. PICK c : c = Responses!Chunk(type, 0, val) /\ IsChunk(c, type, val)
  BY <1>0, ResponsesChunk
<1>2. c \in Chunks /\ c.type = type /\ c.val = val
  BY <1>1 DEF IsChunk
<1>3. c.type \in Outcomes /\ {"completed", "incomplete", "error"} \in SUBSET Marks
  BY <1>2, MarksAre
<1>4. c.type \in Finals => c.val = [n \in 1..Opened(s.out) |-> n]
  BY <1>2 DEF Numbers
<1>5. PICK o \in Seq(Chunks) : o = Append(s.out, c) /\ Finale(o, {"completed", "incomplete", "error"})
  BY <1>2, <1>3, <1>4, EndInOne, ResponsesTyped
<1>6. [Responses!Emit(s, type, 0, val) EXCEPT !.over = TRUE] = [s EXCEPT !.out = o, !.over = TRUE]
  BY <1>1, <1>5, ResponsesTyped DEF Responses!Emit, ResponsesFrames
<1>7. PICK t : t = [s EXCEPT !.out = o, !.over = TRUE]
  OBVIOUS
<1>8. t \in ResponsesFrames
  BY <1>7, ResponsesTyped DEF ResponsesFrames
<1>9. t.out = o /\ t.over = TRUE
  BY <1>7, ResponsesTyped DEF ResponsesFrames
<1> QED
  BY <1>5, <1>6, <1>7, <1>8, <1>9 DEF ResponsesEnded

Closed(s, t) == t \in ResponsesParts /\ t.open = "none" /\ t.args = s.args /\ t.where = s.where

(* Closing the open item puts it on the list: all items opened are there.             *)
LEMMA ResponsesCloseOpen ==
  ASSUME NEW s \in ResponsesGoing
  PROVE  Closed(s, Responses!CloseOpen(s))
<1>0. s \in ResponsesParts /\ Gathered(s)
  BY DEF ResponsesGoing
<1>1. CASE s.open = "none"
  BY <1>0, <1>1 DEF Responses!CloseOpen, Closed
<1>2. CASE s.open # "none"
  <2>1. Responses!Accumulated(s) \in Seq(Int)
    <3>1. s.open = "tool" => s.args[s.src] \in Seq(Int)
      BY <1>0, DictAt, ResponsesTyped DEF Gathered
    <3> QED
      BY <1>0, <1>2, <3>1, ResponsesTyped DEF Responses!Accumulated, Items
  <2>2. PICK t : t = Responses!Emit(s, "close", s.item, Responses!Accumulated(s)) /\ ResponsesPut(s, t)
    BY <1>0, <2>1, ResponsesEmit, ResponsesTyped, PlainTags
  <2>3. t \in ResponsesParts /\ t.open = s.open /\ t.args = s.args /\ t.where = s.where /\ t.item = s.item
    BY <2>2 DEF ResponsesPut, Keeps
  <2>4. /\ t.next \in Nat /\ t.next > 1 /\ t.item = t.next - 1
        /\ t.items = Numbers(t.next - 2)
    BY <1>2, <2>3, ResponsesTyped DEF Counted
  <2>5. PICK items \in Seq(Int) : items = Append(t.items, s.item) /\ items = Numbers(t.next - 1)
    <3>1. PICK m \in Nat : m = t.next - 2
      BY <2>4
    <3>2. PICK n \in Int : n = m + 1 /\ n = t.next - 1 /\ n = s.item
      BY <2>3, <2>4, <3>1
    <3>3. Append(Numbers(m), n) = Numbers(n) /\ Numbers(m) \in Seq(Int)
      BY <3>2, NumbersAppend, NumbersType
    <3> QED
      BY <2>4, <3>1, <3>2, <3>3, Appended
  <2>6. PICK u : u = [t EXCEPT !.open = "none", !.items = items]
    OBVIOUS
  <2>7. Responses!CloseOpen(s) = u
    BY <1>2, <2>2, <2>5, <2>6 DEF Responses!CloseOpen
  <2>8. /\ u \in ResponsesFrames /\ u.over = t.over /\ u.out = t.out /\ u.next = t.next
        /\ u.args = t.args /\ u.where = t.where /\ u.open = "none" /\ u.items = items
    BY <2>3, <2>5, <2>6, ResponsesTyped DEF ResponsesFrames
  <2>9. u \in ResponsesParts
    BY <2>3, <2>5, <2>8, ResponsesTyped DEF ResponsesParts, Counted
  <2> QED
    BY <2>3, <2>7, <2>8, <2>9 DEF Closed
<1> QED
  BY <1>1, <1>2

Begun(s, t, kind) == t \in ResponsesParts /\ t.open = kind /\ t.args = s.args /\ t.where = s.where

(* start_message, start_reasoning, and the first half of start_tool.                  *)
LEMMA ResponsesOpen ==
  ASSUME NEW s \in ResponsesGoing, NEW kind \in Items
  PROVE  Begun(s, Responses!Open(s, kind), kind)
<1>1. PICK c : c = Responses!CloseOpen(s) /\ Closed(s, c)
  BY ResponsesCloseOpen
<1>2. c \in ResponsesParts /\ c.open = "none" /\ c.args = s.args /\ c.where = s.where
  BY <1>1 DEF Closed
<1>3. c.items = Numbers(c.next - 1) /\ Opened(c.out) = c.next - 1
  BY <1>2, ResponsesTyped DEF Counted
<1>4. PICK d : d = Responses!Chunk("open", c.next, <<>>) /\ IsChunk(d, "open", <<>>)
  <2>1. "open" \in Marks \cup Plain /\ c.next \in Int /\ <<>> \in Seq(Int)
    BY <1>2, ResponsesTyped, PlainTags, PieceType
  <2> QED
    BY <2>1, ResponsesChunk
<1>5. d \in Chunks /\ d.type = "open" /\ d.type \notin Marks
  BY <1>4, PlainTags DEF IsChunk
<1>6. Quiet(Append(c.out, d)) /\ Opened(Append(c.out, d)) = Opened(c.out) + 1
  BY <1>2, <1>5, QuietAppend, AppendOpened, ResponsesTyped
<1>7. PICK o \in Seq(Chunks) : o = Append(c.out, d) /\ Quiet(o) /\ Opened(o) = c.next
  <2>1. c.next \in Nat \ {0} /\ c.out \in Seq(Chunks)
    BY <1>2, ResponsesTyped
  <2>2. Opened(Append(c.out, d)) = c.next
    BY <1>3, <1>6, <2>1
  <2>3. Append(c.out, d) \in Seq(Chunks)
    BY <1>5, <2>1, Appended
  <2> QED
    BY <1>6, <2>2, <2>3
<1>8. PICK n \in Nat \ {0} : n = c.next + 1
  BY <1>2, ResponsesTyped
<1>9. PICK t : t = [c EXCEPT !.out = o]
  OBVIOUS
<1>10. /\ t \in ResponsesFrames /\ t.out = o /\ t.over = c.over /\ t.next = c.next
       /\ t.items = c.items /\ t.args = s.args /\ t.where = s.where
  BY <1>2, <1>7, <1>9, ResponsesTyped DEF ResponsesFrames
<1>11. PICK u : u = [t EXCEPT !.open = kind, !.item = c.next, !.next = n]
  OBVIOUS
<1>12. Responses!Open(s, kind) = u
  BY <1>1, <1>4, <1>7, <1>8, <1>9, <1>10, <1>11 DEF Responses!Open, Responses!Emit
<1>13. c.next \in Int
  BY <1>2, ResponsesTyped
<1>14. /\ u \in ResponsesFrames /\ u.out = t.out /\ u.over = t.over /\ u.items = t.items
       /\ u.args = t.args /\ u.where = t.where /\ u.open = kind /\ u.item = c.next /\ u.next = n
  BY <1>8, <1>10, <1>11, <1>13 DEF ResponsesFrames
<1>15. Counted(u)
  BY <1>3, <1>2, <1>7, <1>8, <1>10, <1>14, ResponsesTyped DEF Counted, Items
<1>16. u \in ResponsesParts
  BY <1>2, <1>7, <1>10, <1>14, <1>15, ResponsesTyped DEF ResponsesParts
<1> QED
  BY <1>10, <1>12, <1>14, <1>16 DEF Begun

(* A piece of a message or a reasoning has its item.                                  *)
LEMMA ResponsesInItem ==
  ASSUME NEW s \in ResponsesGoing, NEW kind \in {"message", "reasoning"}
  PROVE  Responses!InItem(s, kind) \in ResponsesGoing
<1>1. PICK t : t = Responses!Open(s, kind) /\ Begun(s, t, kind)
  BY ResponsesOpen DEF Items
<1>2. t \in ResponsesGoing
  BY <1>1 DEF Begun, ResponsesGoing, Gathered
<1> QED
  BY <1>1, <1>2 DEF Responses!InItem

(* A piece is no end and changes no count.                                            *)
LEMMA ResponsesDelta ==
  ASSUME NEW s \in ResponsesGoing, NEW item \in Int, NEW k \in Int
  PROVE  Responses!Emit(s, "delta", item, <<k>>) \in ResponsesGoing
<1>1. PICK t : t = Responses!Emit(s, "delta", item, <<k>>) /\ ResponsesPut(s, t)
  BY ResponsesEmit, PieceType, PlainTags DEF ResponsesGoing
<1> QED
  BY <1>1 DEF ResponsesPut, Keeps, ResponsesGoing, Gathered

(* Text and reasoning leave the stream going.                                         *)
LEMMA ResponsesText ==
  ASSUME NEW s \in ResponsesGoing, NEW k \in Int
  PROVE  Responses!Text(s, k) \in ResponsesGoing /\ Responses!Reasoning(s, k) \in ResponsesGoing
<1>0. s \in ResponsesParts
  BY DEF ResponsesGoing
<1>1. PICK text \in Seq(Int), reason \in Seq(Int) : text = Append(s.text, k) /\ reason = Append(s.reason, k)
  BY <1>0, Appended, ResponsesTyped
<1>2. [s EXCEPT !.text = text] \in ResponsesGoing /\ [s EXCEPT !.reason = reason] \in ResponsesGoing
  BY <1>1 DEF ResponsesGoing, ResponsesParts, ResponsesFrames, Counted, Gathered
<1>3. PICK t \in ResponsesGoing, u \in ResponsesGoing :
         /\ t = Responses!InItem([s EXCEPT !.text = Append(@, k)], "message")
         /\ u = Responses!InItem([s EXCEPT !.reason = Append(@, k)], "reasoning")
  BY <1>1, <1>2, ResponsesInItem
<1>4. t.item \in Int /\ u.item \in Int
  BY DEF ResponsesGoing, ResponsesParts, ResponsesFrames
<1>5. /\ Responses!Emit(t, "delta", t.item, <<k>>) \in ResponsesGoing
      /\ Responses!Emit(u, "delta", u.item, <<k>>) \in ResponsesGoing
  BY <1>4, ResponsesDelta
<1> QED
  BY <1>3, <1>5 DEF Responses!Text, Responses!Reasoning

Announced(t, src) == t \in ResponsesGoing /\ src \in DOMAIN t.where

(* start_tool gives a call its item and its arguments, kept or new.                   *)
LEMMA ResponsesToolStart ==
  ASSUME NEW s \in ResponsesGoing, NEW src \in Int
  PROVE  Announced(Responses!ToolStart(s, src), src)
<1>1. PICK t : t = Responses!Open(s, "tool") /\ Begun(s, t, "tool")
  BY ResponsesOpen DEF Items
<1>2. t \in ResponsesParts
  BY <1>1 DEF Begun
<1>3. /\ t.item \in Int /\ t.where \in Dict(Int) /\ t.args \in Dict(Seq(Int)) /\ <<>> \in Seq(Int)
      /\ DOMAIN t.where \subseteq DOMAIN t.args
  BY <1>2, ResponsesTyped, PieceType
<1>4. PICK where \in Dict(Int) :
         where = Responses!Put(t.where, src, t.item) /\ DOMAIN where = DOMAIN t.where \cup {src}
  <2>1. Responses!Put(t.where, src, t.item) = Messages!Put(t.where, src, t.item)
    BY DEF Responses!Put, Messages!Put
  <2>2. DOMAIN Responses!Put(t.where, src, t.item) = DOMAIN t.where \cup {src}
    BY DEF Responses!Put
  <2> QED
    BY <1>3, <2>1, <2>2, DictPut
<1>5. PICK more \in Dict(Seq(Int)) :
         more = Responses!Put(t.args, src, <<>>) /\ DOMAIN more = DOMAIN t.args \cup {src}
  <2>1. Responses!Put(t.args, src, <<>>) = Messages!Put(t.args, src, <<>>)
    BY DEF Responses!Put, Messages!Put
  <2>2. DOMAIN Responses!Put(t.args, src, <<>>) = DOMAIN t.args \cup {src}
    BY DEF Responses!Put
  <2> QED
    BY <1>3, <2>1, <2>2, DictPut
<1>6. PICK args \in Dict(Seq(Int)) :
         args = (IF src \in DOMAIN t.args THEN t.args ELSE more) /\ DOMAIN args = DOMAIN t.args \cup {src}
  BY <1>3, <1>5
<1>7. PICK u : u = [t EXCEPT !.src = src, !.where = where, !.args = args]
  OBVIOUS
<1>8. Responses!ToolStart(s, src) = u
  BY <1>1, <1>2, <1>4, <1>5, <1>6, <1>7, ResponsesTyped DEF Responses!ToolStart, ResponsesFrames
<1>9. /\ u \in ResponsesFrames /\ u.out = t.out /\ u.over = t.over /\ u.items = t.items
      /\ u.next = t.next /\ u.item = t.item /\ u.open = t.open
      /\ u.src = src /\ u.where = where /\ u.args = args
  <2>1. t \in ResponsesFrames
    BY <1>2, ResponsesTyped
  <2>2. u \in ResponsesFrames
    BY <1>4, <1>6, <1>7, <2>1 DEF ResponsesFrames
  <2>3. u.src = src /\ u.where = where /\ u.args = args
    BY <1>7, <2>1 DEF ResponsesFrames
  <2>4. u.out = t.out /\ u.over = t.over /\ u.items = t.items
    BY <1>7, <2>1 DEF ResponsesFrames
  <2>5. u.next = t.next /\ u.item = t.item /\ u.open = t.open
    BY <1>7, <2>1 DEF ResponsesFrames
  <2> QED
    BY <2>2, <2>3, <2>4, <2>5
<1>10. Counted(u)
  BY <1>2, <1>9, ResponsesTyped DEF Counted
<1>11. u \in ResponsesParts /\ Gathered(u)
  BY <1>2, <1>3, <1>4, <1>6, <1>9, <1>10, ResponsesTyped DEF ResponsesParts, Gathered
<1> QED
  BY <1>4, <1>8, <1>9, <1>11 DEF Announced, ResponsesGoing

(* Arguments find the item of their call and what came before.                        *)
LEMMA ResponsesToolArgs ==
  ASSUME NEW s \in ResponsesGoing, NEW src \in Int, NEW k \in Int
  PROVE  Responses!ToolArgs(s, src, k) \in ResponsesGoing
<1>1. PICK t : t = (IF src \in DOMAIN s.where THEN s ELSE Responses!ToolStart(s, src)) /\ Announced(t, src)
  BY ResponsesToolStart DEF Announced
<1>2. t \in ResponsesParts /\ Gathered(t) /\ src \in DOMAIN t.where
  BY <1>1 DEF Announced, ResponsesGoing
<1>3. /\ t.where \in Dict(Int) /\ t.args \in Dict(Seq(Int)) /\ src \in DOMAIN t.args
      /\ DOMAIN t.where \subseteq DOMAIN t.args
  BY <1>2, ResponsesTyped
<1>4. PICK D \in SUBSET Int : t.args \in [D -> Seq(Int)]
  BY <1>3 DEF Dict
<1>5. Append(t.args[src], k) \in Seq(Int)
  BY <1>3, DictAt, Appended
<1>6. PICK args : args = [t.args EXCEPT ![src] = Append(@, k)]
  OBVIOUS
<1>7. args \in Dict(Seq(Int)) /\ DOMAIN args = DOMAIN t.args
  <2>1. args \in [D -> Seq(Int)]
    BY <1>4, <1>5, <1>6
  <2> QED
    BY <1>4, <2>1 DEF Dict
<1>8. PICK u : u = [t EXCEPT !.args = args]
  OBVIOUS
<1>9. u = [t EXCEPT !.args[src] = Append(@, k)]
  BY <1>6, <1>8
<1>10. /\ u \in ResponsesFrames /\ u.out = t.out /\ u.over = t.over /\ u.items = t.items
       /\ u.next = t.next /\ u.item = t.item /\ u.open = t.open
       /\ u.src = t.src /\ u.where = t.where /\ u.args = args
  BY <1>2, <1>7, <1>8, ResponsesTyped DEF ResponsesFrames
<1>11. Counted(u)
  BY <1>2, <1>10, ResponsesTyped DEF Counted
<1>12. u \in ResponsesGoing
  BY <1>2, <1>3, <1>7, <1>10, <1>11, ResponsesTyped DEF ResponsesGoing, ResponsesParts, Gathered
<1>13. t.where[src] \in Int
  BY <1>2, <1>3, DictAt
<1>14. Responses!Emit(u, "delta", t.where[src], <<k>>) \in ResponsesGoing
  BY <1>12, <1>13, ResponsesDelta
<1> QED
  BY <1>1, <1>9, <1>14 DEF Responses!ToolArgs

(* An error ends the stream as failed, with the error last.                           *)
LEMMA ResponsesFailed ==
  ASSUME NEW s \in ResponsesGoing
  PROVE  Responses!Failed(s) \in ResponsesEnded
<1>1. PICK c : c = Responses!CloseOpen(s) /\ Closed(s, c)
  BY ResponsesCloseOpen
<1>2. c \in ResponsesParts
  BY <1>1 DEF Closed
<1>3. PICK t : t = Responses!Emit(c, "failed", 0, <<>>) /\ ResponsesPut(c, t)
  BY <1>2, ResponsesEmit, PieceType, PlainTags
<1>4. t \in ResponsesParts
  BY <1>3 DEF ResponsesPut
<1>5. "error" \in {"completed", "incomplete", "error"} /\ "error" \notin Finals /\ <<>> \in Seq(Int)
  BY PieceType DEF Finals
<1>6. [Responses!Emit(t, "error", 0, <<>>) EXCEPT !.over = TRUE] \in ResponsesEnded
  BY <1>4, <1>5, ResponsesEnd
<1> QED
  BY <1>1, <1>3, <1>6 DEF Responses!Failed

(* Every event leaves a stream going or ends it with an error.                        *)
LEMMA ResponsesOn ==
  ASSUME NEW s \in ResponsesGoing, NEW e, e.src \in Int, NEW k \in Int
  PROVE  Responses!On(s, e, k) \in ResponsesGoing \cup ResponsesEnded
<1>1. CASE e.kind = "error"
  BY <1>1, ResponsesFailed DEF Responses!On, Responses!Reasons
<1>2. CASE e.kind = "text"
  BY <1>2, ResponsesText DEF Responses!On, Responses!Reasons
<1>3. CASE e.kind = "reasoning"
  BY <1>3, ResponsesText DEF Responses!On, Responses!Reasons
<1>4. CASE e.kind = "start"
  BY <1>4, ResponsesToolStart DEF Responses!On, Responses!Reasons, Announced
<1>5. CASE e.kind = "args"
  BY <1>5, ResponsesToolArgs DEF Responses!On, Responses!Reasons
<1>6. CASE e.kind \in Responses!Reasons
  <2>1. [s EXCEPT !.finish = e.kind] \in ResponsesGoing
    BY <1>6 DEF ResponsesGoing, ResponsesParts, ResponsesFrames, Counted, Gathered
  <2>2. Responses!On(s, e, k) = [s EXCEPT !.finish = e.kind]
    BY <1>6 DEF Responses!On, Responses!Reasons
  <2> QED
    BY <2>1, <2>2
<1>7. CASE e.kind \notin {"error", "text", "reasoning", "start", "args"} \cup Responses!Reasons
  BY <1>7 DEF Responses!On
<1> QED
  BY <1>1, <1>2, <1>3, <1>4, <1>5, <1>6, <1>7

(* The end of the upstream ends the stream with the list of all items.                *)
LEMMA ResponsesClose ==
  ASSUME NEW s \in ResponsesGoing
  PROVE  Responses!Close(s) \in ResponsesEnded
<1>1. PICK c : c = Responses!CloseOpen(s) /\ Closed(s, c)
  BY ResponsesCloseOpen
<1>2. c \in ResponsesParts /\ c.open = "none"
  BY <1>1 DEF Closed
<1>3. c.items = Numbers(Opened(c.out)) /\ c.items \in Seq(Int)
  BY <1>2, ResponsesTyped DEF Counted
<1>4. PICK type \in {"completed", "incomplete", "error"} :
         type = IF c.finish = "length" THEN "incomplete" ELSE "completed"
  OBVIOUS
<1>5. [Responses!Emit(c, type, 0, c.items) EXCEPT !.over = TRUE] \in ResponsesEnded
  BY <1>2, <1>3, <1>4, ResponsesEnd
<1> QED
  BY <1>1, <1>4, <1>5 DEF Responses!Close

(* The first two chunks are no end and open nothing.                                  *)
LEMMA ResponsesOpening == Responses!Opening \in ResponsesGoing
<1>0. "created" \in Marks \cup Plain /\ "in_progress" \in Marks \cup Plain /\ 0 \in Int /\ <<>> \in Seq(Int)
  BY PieceType, PlainTags
<1>1. PICK c : c = Responses!Chunk("created", 0, <<>>) /\ IsChunk(c, "created", <<>>)
  BY <1>0, ResponsesChunk
<1>2. PICK d : d = Responses!Chunk("in_progress", 0, <<>>) /\ IsChunk(d, "in_progress", <<>>)
  BY <1>0, ResponsesChunk
<1>3. /\ c \in Chunks /\ c.type = "created" /\ c.type \notin Marks
      /\ d \in Chunks /\ d.type = "in_progress" /\ d.type \notin Marks
  BY <1>1, <1>2, PlainTags DEF IsChunk
<1>4. PICK p : p = <<c, d>>
  OBVIOUS
<1>5. p \in Seq(Chunks) /\ Len(p) = 2 /\ p[1] = c /\ p[2] = d
  BY <1>3, <1>4
<1>6. /\ Quiet(p) /\ PlacesIn(p, {"open"}) = {}
  <2>1. \A i \in 1..2 : i = 1 \/ i = 2
    OBVIOUS
  <2> QED
    BY <1>3, <1>5, <2>1 DEF Quiet, PlacesIn
<1>7. Opened(p) = 0
  BY <1>6, FS_EmptySet DEF Opened
<1>8. Numbers(0) = <<>>
  BY DEF Numbers
<1>9. PICK s : s = Responses!Opening
  OBVIOUS
<1>10. /\ s.out = p /\ s.over = FALSE /\ s.next = 1 /\ s.items = <<>>
       /\ s.open = "none" /\ s.args = <<>> /\ s.where = <<>>
  BY <1>1, <1>2, <1>4, <1>9 DEF Responses!Opening
<1>10a. s \in ResponsesFrames
  <2>1. PICK none \in Seq(Int) : none = <<>> /\ none \in Dict(Int) /\ none \in Dict(Seq(Int))
    BY <1>0, DictEmpty
  <2>2. "stop" \in Responses!Reasons
    BY DEF Responses!Reasons
  <2> QED
    BY <1>1, <1>2, <1>4, <1>5, <1>9, <2>1, <2>2 DEF Responses!Opening, ResponsesFrames
<1>11. Counted(s)
  BY <1>7, <1>8, <1>10 DEF Counted
<1> QED
  BY <1>6, <1>9, <1>10, <1>10a, <1>11 DEF ResponsesGoing, ResponsesParts, Gathered
------------------------------------------------------------------------------------
(* What arrives and what is made of it.                                               *)
EventSet == Content \cup Endings \cup {Event("done", 0)}

Known == {BreakEvent, DoneEvent} \cup 1..Len(upstream.events)

UpstreamTyped ==
    /\ upstream.events \in Seq(EventSet) /\ Len(upstream.events) \in 0..MaxEvents
    /\ upstream.crlf \in BOOLEAN /\ upstream.ended \in BOOLEAN

(* The library's bounded lists are lists.                                             *)
LEMMA BoundedType ==
  ASSUME NEW S, NEW n \in Nat, NEW s \in BoundedSeq(S, n)
  PROVE  s \in Seq(S)
<1>1. PICK m \in 0..n : s \in [1..m -> S]
  BY DEF BoundedSeq, SeqOf
<1> QED
  BY <1>1

(* What an upstream sends is a list of events.                                        *)
LEMMA UpstreamType ==
  ASSUME upstream \in Upstreams
  PROVE  UpstreamTyped
<1>1. /\ upstream.events \in Sent /\ Len(upstream.events) <= MaxEvents
      /\ upstream.crlf \in BOOLEAN /\ upstream.ended \in BOOLEAN
  BY DEF Upstreams
<1>2. PICK c \in BoundedSeq(Content, MaxEvents), e \in BoundedSeq(Endings, 1),
           d \in BoundedSeq({Event("done", 0)}, 1) : upstream.events = c \o e \o d
  <2> DEFINE A == BoundedSeq(Content, MaxEvents)
             B == BoundedSeq(Endings, 1)
             C == BoundedSeq({Event("done", 0)}, 1)
  <2>1. Sent = {c \o e \o d : c \in A, e \in B, d \in C}
    BY DEF Sent
  <2> HIDE DEF A, B, C
  <2>2. upstream.events \in {c \o e \o d : c \in A, e \in B, d \in C}
    BY <1>1, <2>1
  <2>3. \E c \in A, e \in B, d \in C : upstream.events = c \o e \o d
    BY <2>2
  <2> QED
    BY <2>3 DEF A, B, C
<1>3. /\ c \in Seq(Content) /\ e \in Seq(Endings) /\ d \in Seq({Event("done", 0)})
  BY BoundedType, StreamAssumption
<1>4. c \in Seq(EventSet) /\ e \in Seq(EventSet) /\ d \in Seq(EventSet)
  BY <1>3 DEF EventSet
<1>5. c \o e \o d \in Seq(EventSet)
  <2> HIDE DEF EventSet
  <2> QED
    BY <1>4
<1>6. upstream.events \in Seq(EventSet) /\ Len(upstream.events) \in Nat
  BY <1>2, <1>5
<1> QED
  BY <1>1, <1>6, StreamAssumption DEF UpstreamTyped

(* Every event has an index,                                                          *)
LEMMA EventType ==
  ASSUME NEW e \in EventSet
  PROVE  e.src \in Int
<1>1. CASE e \in {Event("text", 0), Event("reasoning", 0), Event("done", 0)}
  BY <1>1 DEF Event
<1>2. CASE e \in {Event(kind, s) : kind \in {"start", "args"}, s \in Sources}
  BY <1>2, StreamAssumption DEF Event
<1>3. CASE e \in Endings
  BY <1>3 DEF Event, Endings
<1> QED
  BY <1>1, <1>2, <1>3 DEF EventSet, Content

(* also those safe_upstream_stream adds.                                              *)
LEMMA EventOfType ==
  ASSUME UpstreamTyped, NEW k \in Known
  PROVE  EventOf(k).src \in Int
<1>1. CASE k = BreakEvent
  BY <1>1, StreamAssumption DEF EventOf, BreakEvent, DoneEvent, Event
<1>2. CASE k = DoneEvent
  BY <1>2, StreamAssumption DEF EventOf, BreakEvent, DoneEvent, Event
<1>3. CASE k \notin {BreakEvent, DoneEvent}
  <2>1. k \in 1..Len(upstream.events)
    BY <1>3 DEF Known
  <2>2. upstream.events[k] \in EventSet
    BY <2>1 DEF UpstreamTyped
  <2>3. EventOf(k) = Extracted(upstream.events[k])
    BY <1>3 DEF EventOf
  <2>4. Extracted(upstream.events[k]).src \in Int
    BY <2>2, EventType DEF Extracted, Event
  <2> QED
    BY <2>3, <2>4
<1> QED
  BY <1>1, <1>2, <1>3

(* The numbers of events are integers, and none is that of unreadable text.           *)
LEMMA KnownInt ==
  ASSUME UpstreamTyped
  PROVE  Known \subseteq Int /\ 0 \in Known /\ BreakEvent \in Known /\ DoneEvent \in Known
           /\ Garbled \notin Known
  BY StreamAssumption DEF UpstreamTyped, Known, BreakEvent, DoneEvent, Garbled

(* sse_format makes text of the number it is given.                                   *)
LEMMA FormattedType ==
  ASSUME NEW K, 0 \in K, NEW k \in K, NEW crlf \in BOOLEAN
  PROVE  Formatted(k, crlf) \in Seq(Symbols(K))
<1>1. /\ Begin(k) \in Symbols(K) /\ End(k) \in Symbols(K) /\ LF \in Symbols(K) /\ CR \in Symbols(K)
  BY DEF Begin, End, LF, CR, Symbols
<1> HIDE DEF Symbols
<1>2. <<Begin(k), End(k)>> \in Seq(Symbols(K)) /\ Terminator(crlf) \in Seq(Symbols(K))
  BY <1>1 DEF Terminator
<1> QED
  BY <1>2 DEF Formatted

(* A part of a list is a list of the same elements.                                   *)
LEMMA PartOf ==
  ASSUME NEW S, NEW s \in Seq(S), NEW i \in Nat, i >= 1, NEW j \in Int, j <= Len(s)
  PROVE  SubSeq(s, i, j) \in Seq(S)
  OBVIOUS

(* All that an upstream sends is text of its own events.                              *)
LEMMA WireType ==
  ASSUME UpstreamTyped
  PROVE  Wire(upstream) \in Seq(Symbols(Known))
<1>1. PICK n \in Nat : n = Len(upstream.events)
  BY DEF UpstreamTyped
<1> DEFINE T == Symbols(Known)
           ss == [k \in 1..n |-> Formatted(k, upstream.crlf)]
<1>2. ASSUME NEW k \in 1..n PROVE ss[k] \in Seq(T)
  <2>1. k \in Known /\ upstream.crlf \in BOOLEAN
    BY <1>1 DEF Known, UpstreamTyped
  <2>2. Formatted(k, upstream.crlf) \in Seq(T)
    BY <2>1, KnownInt, FormattedType
  <2> QED
    BY <2>2
<1>3. ss \in Seq(Seq(T))
  <2>1. ss = [k \in 1..n |-> ss[k]]
    OBVIOUS
  <2> HIDE DEF ss, T
  <2> QED
    BY <1>2, <2>1, TypedList
<1>4. PICK all \in Seq(T) : all = FlattenSeq(ss)
  <2> HIDE DEF ss, T
  <2> QED
    BY <1>3, FlattenType
<1>5. PICK m \in Int : m = Len(all) - Len(Terminator(upstream.crlf)) /\ m <= Len(all)
  <2>1. PICK k \in {2, 4} : k = Len(Terminator(upstream.crlf))
    BY DEF Terminator, UpstreamTyped
  <2>2. PICK l \in Nat : l = Len(all)
    <3> HIDE DEF T
    <3>1. Len(all) \in Nat
      OBVIOUS
    <3> QED
      BY <3>1
  <2>3. l - k \in Int /\ l - k <= l
    OBVIOUS
  <2> QED
    BY <2>1, <2>2, <2>3
<1>6. SubSeq(all, 1, m) \in Seq(T)
  <2> HIDE DEF T
  <2> QED
    BY <1>5
<1>7. Wire(upstream) = IF upstream.ended THEN all ELSE SubSeq(all, 1, m)
  BY <1>1, <1>4, <1>5 DEF Wire
<1> QED
  BY <1>6, <1>7

SameFrames == [out : Seq(Chunks), over : BOOLEAN]

Frames == CASE target = "chat"      -> ChatGoing \cup ChatEnded
            [] target = "responses" -> ResponsesGoing \cup ResponsesEnded
            [] target = "messages"  -> MessagesGoing \cup MessagesEnded
            [] target = "same"      -> SameFrames

(* normalize_responses_sse passes blocks on.                                          *)
LEMMA SameType ==
  ASSUME NEW s \in SameFrames, NEW k \in Int
  PROVE  Same(s, k) \in SameFrames
<1>0. "block" \in Marks \cup Plain /\ <<>> \in Seq(Int)
  BY PieceType DEF Plain
<1>1. PICK c : c = Chat!Chunk("block", k, <<>>) /\ IsChunk(c, "block", <<>>)
  BY <1>0, ChatChunk
<1>2. PICK o \in Seq(Chunks) : o = Append(s.out, c)
  BY <1>1, Appended DEF SameFrames, IsChunk
<1>3. Chat!Emit(s, "block", k, <<>>) = [s EXCEPT !.out = o]
  BY <1>1, <1>2 DEF Chat!Emit
<1>4. [s EXCEPT !.out = o] \in SameFrames
  BY DEF SameFrames
<1> QED
  BY <1>3, <1>4 DEF Same

(* Whatever is read of the wire, a frame stays one of its converter.                  *)
LEMMA ConvertType ==
  ASSUME target \in Targets, UpstreamTyped, NEW s \in Frames, NEW k \in Known \cup {Garbled}
  PROVE  Convert(s, k) \in Frames
<1>1. k \in Int /\ (k # Garbled => EventOf(k).src \in Int)
  BY KnownInt, EventOfType DEF Garbled
<1>2. CASE s.over
  BY <1>2 DEF Convert
<1>3. CASE ~s.over /\ target = "same"
  BY <1>1, <1>3, SameType DEF Convert, Frames
<1>4. CASE ~s.over /\ target # "same" /\ k = Garbled
  BY <1>4 DEF Convert
<1>5. CASE ~s.over /\ target = "chat" /\ k # Garbled
  <2>1. s \in ChatGoing /\ Frames = ChatGoing \cup ChatEnded
    BY <1>5 DEF Frames, ChatEnded
  <2>2. Chat!On(s, EventOf(k), k) \in ChatGoing \cup ChatEnded
    BY <1>1, <1>5, <2>1, ChatOn
  <2> QED
    BY <1>5, <2>1, <2>2 DEF Convert
<1>6. CASE ~s.over /\ target = "responses" /\ k # Garbled
  <2>1. s \in ResponsesGoing /\ Frames = ResponsesGoing \cup ResponsesEnded
    BY <1>6 DEF Frames, ResponsesEnded
  <2>2. Responses!On(s, EventOf(k), k) \in ResponsesGoing \cup ResponsesEnded
    BY <1>1, <1>6, <2>1, ResponsesOn
  <2> QED
    BY <1>6, <2>1, <2>2 DEF Convert
<1>7. CASE ~s.over /\ target = "messages" /\ k # Garbled
  <2>1. s \in MessagesGoing /\ Frames = MessagesGoing \cup MessagesEnded
    BY <1>7 DEF Frames, MessagesEnded
  <2>2. Messages!On(s, EventOf(k), k) \in MessagesGoing \cup MessagesEnded
    BY <1>1, <1>7, <2>1, MessagesOn
  <2> QED
    BY <1>7, <2>1, <2>2 DEF Convert
<1> QED
  BY <1>2, <1>3, <1>4, <1>5, <1>6, <1>7 DEF Targets

(* At the end of the upstream the stream is over.                                     *)
LEMMA FinishedType ==
  ASSUME target \in Targets, NEW s \in Frames
  PROVE  Finished(s) \in Frames /\ Finished(s).over
<1>1. CASE s.over
  BY <1>1 DEF Finished
<1>2. CASE ~s.over /\ target = "same"
  BY <1>2 DEF Finished, Frames, SameFrames
<1>3. CASE ~s.over /\ target = "chat"
  <2>1. s \in ChatGoing /\ Frames = ChatGoing \cup ChatEnded
    BY <1>3 DEF Frames, ChatEnded
  <2>2. Chat!Close(s) \in ChatEnded
    BY <2>1, ChatClose
  <2> QED
    BY <1>3, <2>1, <2>2 DEF Finished, ChatEnded
<1>4. CASE ~s.over /\ target = "responses"
  <2>1. s \in ResponsesGoing /\ Frames = ResponsesGoing \cup ResponsesEnded
    BY <1>4 DEF Frames, ResponsesEnded
  <2>2. Responses!Close(s) \in ResponsesEnded
    BY <2>1, ResponsesClose
  <2> QED
    BY <1>4, <2>1, <2>2 DEF Finished, ResponsesEnded
<1>5. CASE ~s.over /\ target = "messages"
  <2>1. s \in MessagesGoing /\ Frames = MessagesGoing \cup MessagesEnded
    BY <1>5 DEF Frames, MessagesEnded
  <2>2. Messages!Close(s) \in MessagesEnded
    BY <2>1, MessagesClose
  <2> QED
    BY <1>5, <2>1, <2>2 DEF Finished, MessagesEnded
<1> QED
  BY <1>1, <1>2, <1>3, <1>4, <1>5 DEF Targets

(* Every converter starts with a frame of its own.                                    *)
LEMMA OpeningType ==
  ASSUME target \in Targets
  PROVE  OpeningOf(target) \in Frames
<1>1. CASE target = "chat"
  BY <1>1, ChatOpening DEF OpeningOf, Frames
<1>2. CASE target = "responses"
  BY <1>2, ResponsesOpening DEF OpeningOf, Frames
<1>3. CASE target = "messages"
  BY <1>3, MessagesOpening DEF OpeningOf, Frames
<1>4. CASE target = "same"
  BY <1>4 DEF OpeningOf, Frames, SameFrames
<1> QED
  BY <1>1, <1>2, <1>3, <1>4 DEF Targets

(* The fold of Convert, step by step: a frame after every event.                      *)
LEMMA ConvertSteps ==
  ASSUME target \in Targets, UpstreamTyped, NEW base \in Frames, NEW events \in Seq(Known \cup {Garbled})
  PROVE  \E c \in [0..Len(events) -> Frames] :
            /\ c[0] = base
            /\ \A m \in 1..Len(events) : c[m] = Convert(c[m - 1], events[m])
            /\ FoldLeft(Convert, base, events) = c[Len(events)]
<1>0. PICK n \in Nat : n = Len(events) /\ DOMAIN events = 1..n
  OBVIOUS
<1> DEFINE X == Frames
           Rule(g) == g = [s \in SUBSET (1..n) |->
                             IF s = {} THEN base ELSE Convert(g[Below(s)], events[Max(s)])]
           F == [i \in 1..n |-> [x \in X |-> Convert(x, events[i])]]
           table == CHOOSE g : Rule(g)
<1>1. FoldLeft(Convert, base, events) = table[1..n]
  BY <1>0 DEF FoldLeft, MapThenFoldSet, Below
<1>2. base \in X
  OBVIOUS
<1>3. ASSUME NEW i \in 1..n, NEW x \in X PROVE Convert(x, events[i]) \in X
  <2>1. events[i] \in Known \cup {Garbled}
    BY <1>0
  <2> QED
    BY <2>1, ConvertType
<1>4. F \in [1..n -> [X -> X]]
  BY <1>3
<1> HIDE DEF X
<1>5. PICK g : Table(g, X, base, F, n)
  <2> HIDE DEF F
  <2> QED
    BY <1>2, <1>4, FoldExists
<1>6. ASSUME NEW s \in SUBSET (1..n), s # {}, NEW x \in X
      PROVE  F[Max(s)][x] = Convert(x, events[Max(s)])
  BY <1>6, BelowIn
<1> HIDE DEF F
<1>7. Rule(g)
  <2>1. \A s \in SUBSET (1..n) : s # {} => Below(s) \in SUBSET (1..n)
    BY BelowIn
  <2>2. ASSUME NEW s \in SUBSET (1..n), s # {}
        PROVE  F[Max(s)][g[Below(s)]] = Convert(g[Below(s)], events[Max(s)])
    BY <1>5, <1>6, <2>1, <2>2 DEF Table
  <2> QED
    BY <1>5, <2>2 DEF Table
<1>8. Rule(table)
  BY <1>7
<1> HIDE DEF table
<1>9. Follows(table, X, base, F, n)
  BY <1>6, <1>8 DEF Follows
<1>10. PICK c : Steps(c, X, base, F, n) /\ table[1..n] = c[n]
  <2> HIDE DEF Rule
  <2> QED
    BY <1>2, <1>4, <1>9, TableSteps, SMTT(40)
<1>11. ASSUME NEW m \in 1..n PROVE c[m] = Convert(c[m - 1], events[m])
  <2>1. c[m] = F[m][c[m - 1]] /\ c[m - 1] \in X
    BY <1>10 DEF Steps
  <2> QED
    BY <2>1 DEF F
<1> QED
  BY <1>0, <1>1, <1>10, <1>11 DEF Steps, X

(* All events of a chunk together leave such a frame.                                 *)
LEMMA FoldedType ==
  ASSUME target \in Targets, UpstreamTyped, NEW s \in Frames, NEW events \in Seq(Known \cup {Garbled})
  PROVE  FoldLeft(Convert, s, events) \in Frames
<1>1. PICK n \in Nat : n = Len(events)
  OBVIOUS
<1>2. PICK c \in [0..n -> Frames] : FoldLeft(Convert, s, events) = c[n]
  BY <1>1, ConvertSteps
<1>3. n \in 0..n
  OBVIOUS
<1> QED
  BY <1>2, <1>3

Received(r) == r.buffer \in Seq(Symbols(Known)) /\ r.st \in Frames

(* One more chunk, cut anywhere, leaves text and a frame,                             *)
LEMMA ReceivingType ==
  ASSUME target \in Targets, UpstreamTyped, NEW r, Received(r), NEW chunk \in Seq(Symbols(Known))
  PROVE  Received(Receiving(r, chunk))
<1>1. PICK text \in Seq(Symbols(Known)) : text = r.buffer \o chunk
  <2>1. r.buffer \in Seq(Symbols(Known))
    BY DEF Received
  <2> QED
    BY <2>1, ConcatProperties
<1>2. Split(text).events \in Seq(Known \cup {Garbled}) /\ Split(text).rest \in Seq(Symbols(Known))
  BY KnownInt, SplitType
<1>3. FoldLeft(Convert, r.st, Split(text).events) \in Frames
  BY <1>2, FoldedType DEF Received
<1> QED
  BY <1>1, <1>2, <1>3 DEF Receiving, Received

(* and so does the end.                                                               *)
LEMMA EndingType ==
  ASSUME target \in Targets, UpstreamTyped, NEW r, Received(r)
  PROVE  Received(Ending(r))
<1>1. Flush(r.buffer) \in Seq(Known \cup {Garbled})
  BY KnownInt, SplitType DEF Received
<1>2. FoldLeft(Convert, r.st, Flush(r.buffer)) \in Frames
  BY <1>1, FoldedType DEF Received
<1>3. Finished(FoldLeft(Convert, r.st, Flush(r.buffer))) \in Frames
  BY <1>2, FinishedType
<1> QED
  BY <1>3 DEF Ending, Received
----------------------------------------------------------------------------------
(* What every step keeps: the text not yet split off is of the events this upstream   *)
(* sends, and the frame is one of its converter: either nothing has told an end so    *)
(* far, or the stream is over and has told it once.                                   *)
IndInv ==
    /\ target \in Targets
    /\ upstream \in Upstreams
    /\ pos \in Nat
    /\ buffer \in Seq(Symbols(Known))
    /\ st \in Frames

(* The invariant holds at the start,                                                  *)
LEMMA InitInd == Init => IndInv
<1> SUFFICES ASSUME Init PROVE IndInv
  OBVIOUS
<1> QED
  BY OpeningType DEF Init, IndInv

(* every step keeps it, whatever the chunks,                                          *)
LEMMA StepInd == IndInv /\ [Next]_vars => IndInv'
<1> SUFFICES ASSUME IndInv, [Next]_vars PROVE IndInv'
  OBVIOUS
<1>1. target \in Targets /\ UpstreamTyped /\ upstream \in Upstreams /\ pos \in Nat
  BY UpstreamType DEF IndInv
<1>2. Received(Now)
  BY DEF IndInv, Received, Now
<1>3. ASSUME NEW r, Received(r), Become(r), UNCHANGED <<target, upstream>>, pos' \in Nat
      PROVE  IndInv'
  <2>1. Known' = Known /\ Frames' = Frames
    BY <1>3 DEF Known, Frames, BreakEvent, DoneEvent
  <2> QED
    BY <1>1, <1>3, <2>1 DEF IndInv, Become, Received
<1>4. ASSUME NEW n \in 1..Len(Wire(upstream)), Receive(n) PROVE IndInv'
  <2>1. PICK wire \in Seq(Symbols(Known)) : wire = Wire(upstream)
    BY <1>1, WireType
  <2>2. pos + n <= Len(wire) /\ n \in Nat /\ pos' = pos + n
    BY <1>4, <2>1 DEF Receive
  <2>3. PICK chunk \in Seq(Symbols(Known)) : chunk = SubSeq(wire, pos + 1, pos + n)
    <3>1. PICK i \in Nat, j \in Nat : i = pos + 1 /\ j = pos + n
      BY <1>1, <2>2
    <3>2. i >= 1 /\ j <= Len(wire)
      BY <1>1, <2>2, <3>1
    <3>3. SubSeq(wire, i, j) \in Seq(Symbols(Known))
      BY <3>2, PartOf
    <3> QED
      BY <3>1, <3>3
  <2>4. Received(Receiving(Now, chunk))
    BY <1>1, <1>2, ReceivingType
  <2>5. Become(Receiving(Now, chunk)) /\ UNCHANGED <<target, upstream>>
    BY <1>4, <2>1, <2>3 DEF Receive
  <2>6. pos' \in Nat
    BY <1>1, <2>2
  <2> QED
    BY <1>3, <2>4, <2>5, <2>6
<1>5. CASE Finish
  <2>1. Received(Ending(Now))
    BY <1>1, <1>2, EndingType
  <2> QED
    BY <1>1, <1>3, <1>5, <2>1 DEF Finish
<1>6. CASE Break
  <2>1. /\ Formatted(BreakEvent, FALSE) \in Seq(Symbols(Known))
        /\ Formatted(DoneEvent, FALSE) \in Seq(Symbols(Known))
    BY <1>1, KnownInt, FormattedType
  <2>2. PICK r : r = Receiving(Now, Formatted(BreakEvent, FALSE)) /\ Received(r)
    BY <1>1, <1>2, <2>1, ReceivingType
  <2>3. PICK q : q = Receiving(r, Formatted(DoneEvent, FALSE)) /\ Received(q)
    BY <1>1, <2>1, <2>2, ReceivingType
  <2>4. Received(Ending(q))
    BY <1>1, <2>3, EndingType
  <2> QED
    BY <1>1, <1>3, <1>6, <2>2, <2>3, <2>4 DEF Break
<1>7. CASE UNCHANGED vars
  <2>1. Known' = Known /\ Frames' = Frames
    BY <1>7 DEF Known, Frames, vars, BreakEvent, DoneEvent
  <2> QED
    BY <1>7, <2>1 DEF IndInv, vars
<1>8. CASE Over
  BY <1>7, <1>8 DEF Over
<1> QED
  BY <1>4, <1>5, <1>6, <1>7, <1>8 DEF Next

(* and it says how the stream ends.                                                   *)
LEMMA IndEndsOnce == IndInv => EndsOnce
<1> SUFFICES ASSUME IndInv, target # "same" PROVE EndsOnce
  BY DEF EndsOnce
<1>0. \A S : PlacesOf(S) = PlacesIn(st.out, S)
  BY DEF PlacesOf, PlacesIn
<1>1. CASE ~st.over
  <2>1. Quiet(st.out)
    BY <1>1 DEF IndInv, Targets, Frames, ChatGoing, ChatEnded, ResponsesGoing, ResponsesParts,
                ResponsesEnded, MessagesGoing, MessagesEnded
  <2>2. Outcomes \cup LastTypes \subseteq Marks
    BY MarksAre DEF LastTypes, IndInv, Targets
  <2>3. PlacesOf(Outcomes \cup LastTypes) = {}
    BY <1>0, <2>1, <2>2, QuietHasNone
  <2> QED
    BY <1>1, <2>3 DEF EndsOnce
<1>2. CASE st.over
  <2>1. Finale(st.out, LastTypes)
    BY <1>2 DEF IndInv, Targets, Frames, ChatGoing, ChatEnded, ResponsesGoing, ResponsesParts,
                ResponsesEnded, MessagesGoing, MessagesEnded, LastTypes
  <2> QED
    BY <1>0, <1>2, <2>1 DEF EndsOnce, Finale, Opened, Finals
<1> QED
  BY <1>1, <1>2

(* EndsOnce (StreamConvert), for every upstream, every way to cut its bytes and every *)
(* converter: a client is told the outcome exactly once, with the last event of its   *)
(* protocol last, and a final response lists all the items.                           *)
THEOREM StreamsEndOnce == Spec => []EndsOnce
<1>1. Init => IndInv
  BY InitInd
<1>2. IndInv /\ [Next]_vars => IndInv'
  BY StepInd
<1>3. IndInv => EndsOnce
  BY IndEndsOnce
<1> QED
  BY <1>1, <1>2, <1>3, PTL DEF Spec

(* close_open and tool_args look up args_acc and src_to_out with get and a default:   *)
(* the default never stands in.  The open tool call has arguments of its own, and so  *)
(* has every call with an item.                                                       *)
THEOREM LookupsSucceed ==
    Spec => [](target = "responses" /\ ~st.over =>
                   /\ DOMAIN st.where \subseteq DOMAIN st.args
                   /\ st.open = "tool" => st.src \in DOMAIN st.args)
<1> DEFINE Found == target = "responses" /\ ~st.over =>
                        /\ DOMAIN st.where \subseteq DOMAIN st.args
                        /\ st.open = "tool" => st.src \in DOMAIN st.args
<1>1. IndInv => Found
  BY DEF IndInv, Frames, ResponsesGoing, ResponsesParts, ResponsesEnded, Gathered
<1>2. Init => IndInv
  BY InitInd
<1>3. IndInv /\ [Next]_vars => IndInv'
  BY StepInd
<1> HIDE DEF Found
<1>4. Spec => []Found
  BY <1>1, <1>2, <1>3, PTL DEF Spec
<1> QED
  BY <1>4 DEF Found
------------------------------------------------------------------------------------
(* What the wire has at every position.                                               *)
LEMMA FormattedAll ==
  ASSUME NEW k \in Int, NEW crlf \in BOOLEAN
  PROVE  /\ Formatted(k, crlf) \in Seq(Text) /\ Len(Formatted(k, crlf)) = SizeOf(crlf)
         /\ \A j \in 1..SizeOf(crlf) : Formatted(k, crlf)[j] = SymbolAt(k, j - 1, crlf)
<1>1. Formatted(k, crlf) \in Seq(Text)
  BY FormattedType DEF Text
<1>2. Len(Formatted(k, crlf)) = SizeOf(crlf)
  BY SymbolsAre
<1>3. \A j \in 1..SizeOf(crlf) : (j - 1) + 1 = j
  BY DEF SizeOf
<1> QED
  BY <1>1, <1>2, <1>3 DEF SymbolAt

(* One event more on the wire.                                                        *)
LEMMA WireGrows ==
  ASSUME NEW crlf \in BOOLEAN, NEW s \in Seq(Text), OnWire(s, 0, crlf),
         NEW k \in Nat, EventAt(Len(s), crlf) = k, OffsetAt(Len(s), crlf) = 0
  PROVE  LET t == s \o Formatted(k, crlf)
         IN  /\ t \in Seq(Text) /\ OnWire(t, 0, crlf)
             /\ EventAt(Len(t), crlf) = k + 1 /\ OffsetAt(Len(t), crlf) = 0
<1>1. PICK l \in Nat, z \in {4, 6} : l = Len(s) /\ z = SizeOf(crlf)
  BY DEF SizeOf
<1>2. PICK f \in Seq(Text) : /\ f = Formatted(k, crlf) /\ Len(f) = z
                             /\ \A j \in 1..z : f[j] = SymbolAt(k, j - 1, crlf)
  BY <1>1, FormattedAll
<1> HIDE DEF Text
<1>3. PICK t \in Seq(Text) : t = s \o f
  BY ConcatProperties
<1>4. /\ Len(t) = l + z /\ (\A i \in 1..l : t[i] = s[i])
      /\ \A i \in (l + 1)..(l + z) : t[i] = f[i - l]
  <2>1. /\ Len(s \o f) = Len(s) + Len(f)
        /\ \A i \in 1..(Len(s) + Len(f)) : (s \o f)[i] = IF i <= Len(s) THEN s[i] ELSE f[i - Len(s)]
    BY ConcatProperties
  <2>2. \A i \in 1..l : i \in 1..(l + z) /\ i <= l
    OBVIOUS
  <2>3. \A i \in (l + 1)..(l + z) : i \in 1..(l + z) /\ ~(i <= l)
    OBVIOUS
  <2> QED
    BY <1>1, <1>2, <1>3, <2>1, <2>2, <2>3
<1>5. \A i \in (l + 1)..(l + z) : EventAt((0 + i) - 1, crlf) = k /\ OffsetAt((0 + i) - 1, crlf) = (i - l) - 1
  <2> SUFFICES ASSUME NEW i \in (l + 1)..(l + z)
               PROVE  EventAt((0 + i) - 1, crlf) = k /\ OffsetAt((0 + i) - 1, crlf) = (i - l) - 1
    OBVIOUS
  <2>0a. PICK j \in 0..(z - 1) : j = (i - l) - 1
    <3>1. z \in Nat /\ i \in Int /\ l + 1 <= i /\ i <= l + z
      BY <1>1
    <3>2. (i - l) - 1 \in 0..(z - 1)
      BY <3>1
    <3> QED
      BY <3>2
  <2>0. PICK x \in Nat : j = (i - l) - 1 /\ x = (0 + i) - 1 /\ x = l + j
    BY <1>1, <2>0a
  <2>1. CASE crlf
    <3>1. z = 6 /\ (l \div 6) + 1 = k /\ (l % 6) = 0
      BY <1>1, <2>1 DEF EventAt, OffsetAt, SizeOf
    <3>2. l = 6 * (k - 1)
      BY <3>1
    <3>3. (x \div 6) + 1 = k /\ (x % 6) = j
      BY <2>0, <3>1, <3>2
    <3> QED
      BY <2>0, <2>1, <3>3 DEF EventAt, OffsetAt, SizeOf
  <2>2. CASE ~crlf
    <3>1. z = 4 /\ (l \div 4) + 1 = k /\ (l % 4) = 0
      BY <1>1, <2>2 DEF EventAt, OffsetAt, SizeOf
    <3>2. l = 4 * (k - 1)
      BY <3>1
    <3>3. (x \div 4) + 1 = k /\ (x % 4) = j
      BY <2>0, <3>1, <3>2
    <3> QED
      BY <2>0, <2>2, <3>3 DEF EventAt, OffsetAt, SizeOf
  <2> QED
    BY <2>1, <2>2
<1>6. EventAt(l + z, crlf) = k + 1 /\ OffsetAt(l + z, crlf) = 0
  <2>1. CASE crlf
    BY <1>1, <2>1 DEF EventAt, OffsetAt, SizeOf
  <2>2. CASE ~crlf
    BY <1>1, <2>2 DEF EventAt, OffsetAt, SizeOf
  <2> QED
    BY <2>1, <2>2
<1>7. ASSUME NEW i \in 1..Len(t)
      PROVE  t[i] = SymbolAt(EventAt((0 + i) - 1, crlf), OffsetAt((0 + i) - 1, crlf), crlf)
  <2>1. CASE i \in 1..l
    BY <1>1, <1>4, <2>1 DEF OnWire
  <2>2. CASE i \in (l + 1)..(l + z)
    <3>1. PICK j \in 1..z : j = i - l
      BY <2>2
    <3>2. t[i] = f[j] /\ f[j] = SymbolAt(k, j - 1, crlf)
      BY <1>2, <1>4, <2>2, <3>1
    <3> QED
      BY <1>5, <2>2, <3>1, <3>2
  <2> QED
    BY <1>4, <2>1, <2>2
<1>8. OnWire(t, 0, crlf)
  BY <1>7 DEF OnWire
<1> QED
  BY <1>2, <1>3, <1>4, <1>6, <1>8

(* All of it, and where it ends.                                                      *)
WireEnd(u, l) ==
    IF u.ended THEN EventAt(l, u.crlf) = Len(u.events) + 1 /\ OffsetAt(l, u.crlf) = 0
    ELSE EventAt(l, u.crlf) = Len(u.events) /\ OffsetAt(l, u.crlf) = 2

WireReads(w) ==
    w \in Seq(Text) /\ OnWire(w, 0, upstream.crlf) /\ WireEnd(upstream, Len(w))

(* Wire sends the events of the upstream in their order, each written whole, and ends *)
(* with the last, or with a part of it when the upstream broke off.                   *)
LEMMA WireIs ==
  ASSUME UpstreamTyped, upstream.ended \/ Len(upstream.events) # 0
  PROVE  WireReads(Wire(upstream))
<1>1. PICK n \in Nat, crlf \in BOOLEAN : n = Len(upstream.events) /\ crlf = upstream.crlf
  BY DEF UpstreamTyped
<1> DEFINE ss == [k \in 1..n |-> Formatted(k, crlf)]
           Done(w, m) == /\ w \in Seq(Text) /\ OnWire(w, 0, crlf)
                         /\ EventAt(Len(w), crlf) = m + 1 /\ OffsetAt(Len(w), crlf) = 0
<1>2. /\ ss \in Seq(Seq(Text)) /\ Len(ss) = n /\ \A k \in 1..n : ss[k] = Formatted(k, crlf)
  <2>1. \A k \in 1..n : Formatted(k, crlf) \in Seq(Text)
    BY FormattedAll
  <2>2. ss = [k \in 1..n |-> ss[k]]
    OBVIOUS
  <2>3. \A k \in 1..n : ss[k] = Formatted(k, crlf)
    OBVIOUS
  <2> HIDE DEF ss, Text
  <2> QED
    BY <2>1, <2>2, <2>3, TypedList
<1>3. PICK none \in Seq(Text) : none = <<>> /\ Done(none, 0)
  <2>1. PICK none \in Seq(Text) : none = <<>> /\ Len(none) = 0
    <3> HIDE DEF Text
    <3>1. <<>> \in Seq(Text) /\ Len(<<>>) = 0
      OBVIOUS
    <3> QED
      BY <3>1
  <2>2. EventAt(0, crlf) = 1 /\ OffsetAt(0, crlf) = 0
    BY DEF EventAt, OffsetAt, SizeOf
  <2>3. OnWire(none, 0, crlf)
    BY <2>1 DEF OnWire
  <2>4. Done(none, 0)
    <3>1. 0 + 1 = 1
      OBVIOUS
    <3> HIDE DEF Text
    <3> QED
      BY <2>1, <2>2, <2>3, <3>1
  <2> HIDE DEF Done
  <2> QED
    BY <2>1, <2>4
<1>4. PICK all \in Seq(Text) : all = FlattenSeq(ss) /\ Done(all, n)
  <2>1. CASE n = 0
    <3>1. ss = <<>>
      BY <2>1
    <3>2. FlattenSeq(ss) = <<>>
      BY <1>2, <2>1, <3>1 DEF FlattenSeq
    <3> HIDE DEF Done
    <3> QED
      BY <1>3, <2>1, <3>2
  <2>2. CASE n # 0
    <3> HIDE DEF ss
    <3>1. PICK c \in [1..n -> Seq(Text)] : /\ c[1] = ss[1]
                                           /\ \A i \in 2..n : c[i] = c[i - 1] \o ss[i]
                                           /\ FlattenSeq(ss) = c[n]
      <4> HIDE DEF Text
      <4> QED
        BY <1>2, <2>2, FlattenSteps
    <3>2. PICK l \in Nat : l = n - 1
      BY <2>2
    <3>3. ASSUME NEW s \in Seq(Text), NEW m \in Nat, Done(s, m)
          PROVE  Done(s \o Formatted(m + 1, crlf), m + 1)
      <4>1. PICK k \in Nat : k = m + 1
        OBVIOUS
      <4> HIDE DEF Text
      <4> QED
        BY <3>3, <4>1, WireGrows
    <3> DEFINE G == {m \in 0..l : Done(c[m + 1], m + 1)}
    <3>4. 0 \in G
      <4>1. Done(none \o Formatted(0 + 1, crlf), 0 + 1)
        <5>1. 0 \in Nat
          OBVIOUS
        <5> HIDE DEF Done, Text
        <5> QED
          BY <1>3, <3>3, <5>1
      <4>2. Formatted(1, crlf) \in Seq(Text) /\ 1 \in 1..n /\ 0 + 1 = 1
        BY <2>2, FormattedAll
      <4>3. none \o Formatted(1, crlf) = Formatted(1, crlf)
        <5> HIDE DEF Text
        <5> QED
          BY <1>3, <4>2, ConcatEmptySeq
      <4>4. c[1] = Formatted(1, crlf)
        BY <1>2, <3>1, <4>2
      <4> QED
        <5>1. Done(c[0 + 1], 0 + 1)
          <6> HIDE DEF Done
          <6> QED
            BY <4>1, <4>2, <4>3, <4>4
        <5>2. 0 \in 0..l
          BY <3>2
        <5> HIDE DEF Done
        <5> QED
          BY <5>1, <5>2
    <3>5. ASSUME NEW m \in 1..l, m - 1 \in G PROVE m \in G
      <4>1. /\ m + 1 \in 2..n /\ (m + 1) - 1 = m /\ (m - 1) + 1 = m /\ m + 1 \in 1..n
            /\ m \in 1..n /\ m \in 0..l /\ m \in Nat
        BY <3>2
      <4>2. c[m + 1] = c[m] \o Formatted(m + 1, crlf)
        BY <1>2, <3>1, <4>1
      <4>3. Done(c[m], m) /\ c[m] \in Seq(Text)
        BY <3>5, <4>1
      <4>4. Done(c[m + 1], m + 1)
        BY <3>3, <4>1, <4>2, <4>3
      <4> QED
        BY <4>1, <4>4
    <3>6. Done(c[n], n)
      <4> HIDE DEF G
      <4>1. \A m \in 0..l : m \in G
        BY <3>2, <3>4, <3>5, CountingUp
      <4>2. l \in G /\ l + 1 = n
        BY <3>2, <4>1
      <4> QED
        BY <4>2 DEF G
    <3> QED
      BY <3>1, <3>6
  <2> QED
    BY <2>1, <2>2
<1>5. PICK t \in {2, 4}, z \in {4, 6} :
         /\ t = Len(Terminator(crlf)) /\ z = SizeOf(crlf) /\ t + 2 = z
  BY DEF Terminator, SizeOf
<1>6. PICK l \in Nat : l = Len(all)
  OBVIOUS
<1>7. Wire(upstream) = IF upstream.ended THEN all ELSE SubSeq(all, 1, l - t)
  BY <1>1, <1>4, <1>5, <1>6 DEF Wire
<1>8. CASE upstream.ended
  BY <1>1, <1>4, <1>7, <1>8 DEF WireReads, WireEnd
<1>9. CASE ~upstream.ended
  <2>1. n # 0
    BY <1>1, <1>9
  <2>2. /\ l - t \in 0..l /\ EventAt(l - t, crlf) = n /\ OffsetAt(l - t, crlf) = 2
    <3>1. EventAt(l, crlf) = n + 1 /\ OffsetAt(l, crlf) = 0
      BY <1>4, <1>6
    <3>2. CASE crlf
      <4>1. z = 6 /\ t = 4 /\ (l \div 6) = n /\ (l % 6) = 0
        <5>1. z = 6 /\ t = 4
          <6>1. SizeOf(crlf) = 6
            BY <3>2 DEF SizeOf
          <6>2. z = 6
            BY <1>5, <6>1
          <6>3. t \in Int /\ t + 2 = 6
            BY <1>5, <6>2
          <6> QED
            BY <6>2, <6>3
        <5>2. (l \div 6) + 1 = n + 1 /\ (l % 6) = 0
          BY <3>1, <3>2 DEF EventAt, OffsetAt, SizeOf
        <5> QED
          BY <5>1, <5>2
      <4>2. l = 6 * n /\ l >= 6
        BY <2>1, <4>1
      <4>3. PICK x \in Nat : x = l - 4
        BY <4>2
      <4>4. (x \div 6) + 1 = n /\ (x % 6) = 2 /\ x \in 0..l
        BY <4>2, <4>3
      <4> QED
        BY <3>2, <4>1, <4>3, <4>4 DEF EventAt, OffsetAt, SizeOf
    <3>3. CASE ~crlf
      BY <1>5, <2>1, <3>1, <3>3 DEF EventAt, OffsetAt, SizeOf
    <3> QED
      BY <3>2, <3>3
  <2>3. PICK w \in Seq(Text) : /\ w = SubSeq(all, 1, l - t) /\ Len(w) = l - t
                               /\ \A i \in 1..(l - t) : w[i] = all[i]
    <3> HIDE DEF Text
    <3>1. PICK m \in Nat : m = l - t /\ m <= l
      BY <2>2
    <3>2. SubSeq(all, 1, m) \in Seq(Text) /\ Len(SubSeq(all, 1, m)) = m
      BY <1>6, <3>1
    <3>3. \A i \in 1..m : SubSeq(all, 1, m)[i] = all[i]
      BY <1>6, <3>1
    <3> QED
      BY <3>1, <3>2, <3>3
  <2>4. OnWire(w, 0, crlf)
    <3>1. \A i \in 1..(l - t) : i \in 1..l
      BY <2>2
    <3> QED
      BY <1>4, <1>6, <2>3, <3>1 DEF OnWire
  <2> QED
    BY <1>1, <1>7, <1>9, <2>2, <2>3, <2>4 DEF WireReads, WireEnd
<1> QED
  BY <1>8, <1>9

(* Any piece of it is a chunk that OnWire describes.                                  *)
PartOfWire(chunk, q, n, crlf) == chunk \in Seq(Text) /\ Len(chunk) = n /\ OnWire(chunk, q, crlf)

LEMMA ChunkOnWire ==
  ASSUME NEW w \in Seq(Text), NEW crlf \in BOOLEAN, OnWire(w, 0, crlf),
         NEW q \in Nat, NEW n \in Nat, q + n <= Len(w)
  PROVE  PartOfWire(SubSeq(w, q + 1, q + n), q, n, crlf)
<1>1. PICK a \in Nat, b \in Nat, l \in Nat : a = q + 1 /\ b = q + n /\ l = Len(w)
  <2>1. Len(w) \in Nat
    OBVIOUS
  <2>2. q + 1 \in Nat /\ q + n \in Nat
    OBVIOUS
  <2> HIDE DEF Text
  <2> QED
    BY <2>1, <2>2
<1>2. PICK c \in Seq(Text) : /\ c = SubSeq(w, a, b) /\ Len(c) = n
                             /\ \A i \in 1..n : c[i] = w[(a + i) - 1]
  <2> HIDE DEF Text
  <2>1. SubSeq(w, a, b) \in Seq(Text) /\ Len(SubSeq(w, a, b)) = n
    BY <1>1
  <2>2. \A i \in 1..n : SubSeq(w, a, b)[i] = w[(a + i) - 1]
    BY <1>1
  <2> QED
    BY <2>1, <2>2
<1>3. ASSUME NEW i \in 1..n
      PROVE  c[i] = SymbolAt(EventAt((q + i) - 1, crlf), OffsetAt((q + i) - 1, crlf), crlf)
  <2>1. PICK j \in 1..l : j = (a + i) - 1 /\ (0 + j) - 1 = (q + i) - 1
    BY <1>1
  <2>2. w[j] = SymbolAt(EventAt((0 + j) - 1, crlf), OffsetAt((0 + j) - 1, crlf), crlf)
    BY <1>1, <2>1 DEF OnWire
  <2> QED
    BY <1>2, <2>1, <2>2
<1>4. OnWire(c, q, crlf)
  BY <1>2, <1>3 DEF OnWire
<1> QED
  BY <1>1, <1>2, <1>4 DEF PartOfWire
------------------------------------------------------------------------------------
(* What the client has seen: the chunks that carry a piece, in the order of events.   *)
Pieces == {"delta", "content", "reasoning"}

Brings(o, D) ==
    /\ \A i \in PlacesIn(o, Pieces) : \E k \in D : o[i].val = <<k>>
    /\ \A k \in D : \E i \in PlacesIn(o, Pieces) : o[i].val = <<k>>
    /\ \A i, j \in PlacesIn(o, Pieces) : i < j => o[i].val[1] < o[j].val[1]

(* p is o and chunks after it that carry exactly the events in K.                     *)
Adds(o, p, K) ==
    /\ o \in Seq(Chunks) /\ p \in Seq(Chunks)
    /\ \A D \in SUBSET Int : Brings(o, D) /\ (\A d \in D, k \in K : d < k) => Brings(p, D \cup K)
    /\ \A S : PlacesIn(o, S) \subseteq PlacesIn(p, S)

Tells(o, type) == PlacesIn(o, {type}) # {}

(* No chunk adds nothing;                                                             *)
LEMMA AddsNothing ==
  ASSUME NEW o \in Seq(Chunks)
  PROVE  Adds(o, o, {})
<1>1. \A D : D \cup {} = D
  OBVIOUS
<1> QED
  BY <1>1 DEF Adds

(* chunks after chunks add what both add, as long as one of the two adds nothing;     *)
LEMMA AddsThen ==
  ASSUME NEW o, NEW p, NEW q, NEW K \in SUBSET Int, NEW L \in SUBSET Int,
         Adds(o, p, K), Adds(p, q, L), K = {} \/ L = {}
  PROVE  Adds(o, q, K \cup L)
<1>1. ASSUME NEW D \in SUBSET Int, Brings(o, D), \A d \in D, k \in K \cup L : d < k
      PROVE  Brings(q, D \cup (K \cup L))
  <2>1. Brings(p, D \cup K)
    BY <1>1 DEF Adds
  <2>2. PICK E \in SUBSET Int : E = D \cup K
    OBVIOUS
  <2>3. \A d \in E, k \in L : d < k
    BY <1>1, <2>2
  <2>4. Brings(q, E \cup L)
    BY <2>1, <2>2, <2>3 DEF Adds
  <2>5. E \cup L = D \cup (K \cup L)
    BY <2>2
  <2> QED
    BY <2>4, <2>5
<1>2. \A S : PlacesIn(o, S) \subseteq PlacesIn(q, S)
  BY DEF Adds
<1> QED
  BY <1>1, <1>2 DEF Adds

(* two that add nothing add nothing;                                                  *)
LEMMA AddsTwice ==
  ASSUME NEW o, NEW p, NEW q, Adds(o, p, {}), Adds(p, q, {})
  PROVE  Adds(o, q, {})
<1>1. PICK none \in SUBSET Int : none = {} /\ none \cup none = none
  OBVIOUS
<1> QED
  BY <1>1, AddsThen

(* an event may be added after chunks that add nothing.                               *)
LEMMA AddsAfter ==
  ASSUME NEW o, NEW p, NEW q, NEW k \in Int, Adds(o, p, {}), Adds(p, q, {k})
  PROVE  Adds(o, q, {k})
<1>1. PICK none \in SUBSET Int, K \in SUBSET Int : none = {} /\ K = {k} /\ none \cup K = K
  OBVIOUS
<1> QED
  BY <1>1, AddsThen

(* A chunk that carries nothing,                                                      *)
LEMMA AddsChunk ==
  ASSUME NEW o \in Seq(Chunks), NEW c \in Chunks, c.type \notin Pieces
  PROVE  Adds(o, Append(o, c), {}) /\ Tells(Append(o, c), c.type)
<1>1. PICK n \in Nat, p \in Seq(Chunks) : n = Len(o) /\ p = Append(o, c)
  <2>1. Len(o) \in Nat /\ Append(o, c) \in Seq(Chunks)
    BY Appended
  <2> QED
    BY <2>1
<1>2. /\ \A S : PlacesIn(p, S) = IF c.type \in S THEN PlacesIn(o, S) \cup {n + 1} ELSE PlacesIn(o, S)
      /\ \A i \in 1..n : p[i] = o[i]
  BY <1>1, AppendPlaces
<1>3. PlacesIn(p, Pieces) = PlacesIn(o, Pieces) /\ \A i \in PlacesIn(o, Pieces) : p[i] = o[i]
  BY <1>1, <1>2 DEF PlacesIn
<1>4. ASSUME NEW D \in SUBSET Int, Brings(o, D) PROVE Brings(p, D \cup {})
  <2>1. D \cup {} = D
    OBVIOUS
  <2> QED
    BY <1>3, <1>4, <2>1 DEF Brings
<1>5. \A S : PlacesIn(o, S) \subseteq PlacesIn(p, S)
  BY <1>2
<1>6. n + 1 \in PlacesIn(p, {c.type})
  BY <1>2
<1> QED
  BY <1>1, <1>4, <1>5, <1>6 DEF Adds, Tells

(* and one that carries an event.                                                     *)
LEMMA AddsPiece ==
  ASSUME NEW o \in Seq(Chunks), NEW c \in Chunks, c.type \in Pieces, NEW k \in Int, c.val = <<k>>
  PROVE  Adds(o, Append(o, c), {k})
<1>1. PICK n \in Nat, p \in Seq(Chunks) : n = Len(o) /\ p = Append(o, c)
  <2>1. Len(o) \in Nat /\ Append(o, c) \in Seq(Chunks)
    BY Appended
  <2> QED
    BY <2>1
<1>2. /\ \A S : PlacesIn(p, S) = IF c.type \in S THEN PlacesIn(o, S) \cup {n + 1} ELSE PlacesIn(o, S)
      /\ \A i \in 1..n : p[i] = o[i]
      /\ p[n + 1] = c
  BY <1>1, AppendPlaces
<1>3. PICK P \in SUBSET (1..n) : P = PlacesIn(o, Pieces)
  BY <1>1 DEF PlacesIn
<1>4. PlacesIn(p, Pieces) = P \cup {n + 1} /\ \A i \in P : p[i] = o[i]
  BY <1>2, <1>3
<1>5. ASSUME NEW D \in SUBSET Int, Brings(o, D), \A d \in D, l \in {k} : d < l
      PROVE  Brings(p, D \cup {k})
  <2>1. /\ \A i \in P : \E d \in D : o[i].val = <<d>>
        /\ \A d \in D : \E i \in P : o[i].val = <<d>>
        /\ \A i, j \in P : i < j => o[i].val[1] < o[j].val[1]
    BY <1>3, <1>5 DEF Brings
  <2>2. p[n + 1].val = <<k>> /\ p[n + 1].val[1] = k
    BY <1>2
  <2>3. \A i \in P : i < n + 1
    OBVIOUS
  <2>4. \A i \in P : \E d \in D : p[i].val = <<d>> /\ p[i].val[1] = d /\ d < k
    BY <1>4, <1>5, <2>1
  <2>5. \A i, j \in P \cup {n + 1} : i < j => p[i].val[1] < p[j].val[1]
    <3> SUFFICES ASSUME NEW i \in P \cup {n + 1}, NEW j \in P \cup {n + 1}, i < j
                 PROVE  p[i].val[1] < p[j].val[1]
      OBVIOUS
    <3>0. i < j
      OBVIOUS
    <3>1. i \in P
      <4>1. j \in 1..(n + 1) /\ i \in Int /\ j \in Int
        OBVIOUS
      <4>2. j <= n + 1 /\ i < n + 1
        BY <3>0, <4>1
      <4> QED
        BY <4>1, <4>2
    <3>2. CASE j \in P
      BY <1>4, <2>1, <3>1, <3>2
    <3>3. CASE j = n + 1
      BY <2>2, <2>4, <3>1, <3>3
    <3> QED
      BY <3>2, <3>3
  <2>6. \A i \in P \cup {n + 1} : \E d \in D \cup {k} : p[i].val = <<d>>
    BY <2>2, <2>4
  <2>7. \A d \in D \cup {k} : \E i \in P \cup {n + 1} : p[i].val = <<d>>
    BY <1>4, <2>1, <2>2
  <2> QED
    BY <1>4, <2>5, <2>6, <2>7 DEF Brings
<1>6. \A S : PlacesIn(o, S) \subseteq PlacesIn(p, S)
  BY <1>2
<1> QED
  BY <1>1, <1>5, <1>6 DEF Adds

(* What was told stays told.                                                          *)
LEMMA TellsStays ==
  ASSUME NEW o, NEW p, NEW K, Adds(o, p, K), NEW type, Tells(o, type)
  PROVE  Tells(p, type)
  BY DEF Adds, Tells
------------------------------------------------------------------------------------
(* to_chat_stream: the frame after one event.                                         *)
PieceKinds == {"text", "reasoning", "args"}

ToolKinds == {"start", "args"}

ChatKeeps(s, t) == t.finish = s.finish /\ t.tool = s.tool /\ t.calls = s.calls /\ t.over = s.over

ChatSaid(s, t, type) ==
    Adds(s.out, t.out, {}) /\ Tells(t.out, type) /\ ChatKeeps(s, t) /\ t \in ChatFrames

ChatGave(s, t, k) == Adds(s.out, t.out, {k}) /\ ChatKeeps(s, t)

(* A chunk that is no piece adds nothing, and leaves the rest of the frame alone;     *)
LEMMA ChatSays ==
  ASSUME NEW s \in ChatFrames, NEW type \in (Marks \cup Plain) \ Pieces, NEW item \in Int
  PROVE  ChatSaid(s, Chat!Emit(s, type, item, <<>>), type)
<1>1. PICK c : c = Chat!Chunk(type, item, <<>>) /\ IsChunk(c, type, <<>>)
  BY ChatChunk, PieceType
<1>2. c \in Chunks /\ c.type = type
  BY <1>1 DEF IsChunk
<1>3. s.out \in Seq(Chunks)
  BY DEF ChatFrames
<1>4. PICK o \in Seq(Chunks) : o = Append(s.out, c)
  BY <1>2, <1>3, Appended
<1>5. Adds(s.out, o, {}) /\ Tells(o, type)
  BY <1>2, <1>3, <1>4, AddsChunk
<1>6. PICK t : t = [s EXCEPT !.out = o]
  OBVIOUS
<1>7. Chat!Emit(s, type, item, <<>>) = t
  BY <1>1, <1>4, <1>6 DEF Chat!Emit
<1>8. t \in ChatFrames /\ t.out = o /\ ChatKeeps(s, t)
  BY <1>3, <1>4, <1>6 DEF ChatFrames, ChatKeeps
<1> QED
  BY <1>5, <1>7, <1>8 DEF ChatSaid

(* a piece adds the event it carries.                                                 *)
LEMMA ChatGives ==
  ASSUME NEW s \in ChatFrames, NEW type \in Pieces, NEW item \in Int, NEW k \in Int
  PROVE  ChatGave(s, Chat!Emit(s, type, item, <<k>>), k)
<1>0. type \in Marks \cup Plain
  BY DEF Pieces, Plain
<1>1. PICK c : c = Chat!Chunk(type, item, <<k>>) /\ IsChunk(c, type, <<k>>)
  BY <1>0, ChatChunk, PieceType
<1>2. c \in Chunks /\ c.type = type /\ c.val = <<k>>
  BY <1>1 DEF IsChunk
<1>3. s.out \in Seq(Chunks)
  BY DEF ChatFrames
<1>4. PICK o \in Seq(Chunks) : o = Append(s.out, c)
  BY <1>2, <1>3, Appended
<1>5. Adds(s.out, o, {k})
  BY <1>2, <1>3, <1>4, AddsPiece
<1>6. PICK t : t = [s EXCEPT !.out = o]
  OBVIOUS
<1>7. Chat!Emit(s, type, item, <<k>>) = t
  BY <1>1, <1>4, <1>6 DEF Chat!Emit
<1>8. t.out = o /\ ChatKeeps(s, t)
  BY <1>4, <1>6 DEF ChatFrames, ChatKeeps
<1> QED
  BY <1>5, <1>7, <1>8 DEF ChatGave

(* What one event does to a frame that is going: the client has it if it is a piece,  *)
(* and is told of an error, which ends the stream.                                    *)
Shows(s, t, e, k) ==
    /\ e.kind \in PieceKinds => Adds(s.out, t.out, {k})
    /\ e.kind \notin PieceKinds => Adds(s.out, t.out, {})
    /\ t.over <=> e.kind = "error"
    /\ e.kind = "error" => Tells(t.out, "error")

ChatReads(s, t, e) ==
    /\ e.kind \in Chat!Reasons => t.finish = e.kind
    /\ e.kind \notin Chat!Reasons => t.finish = s.finish
    /\ t.tool <=> s.tool \/ e.kind \in ToolKinds
    /\ t.calls # {} => t.tool

ChatStep(s, t, e, k) == Shows(s, t, e, k) /\ (e.kind # "error" => ChatReads(s, t, e))

(* No kind of event is of two of these.                                               *)
LEMMA KindsDiffer ==
  /\ Chat!Reasons \cap (PieceKinds \cup ToolKinds \cup {"error"}) = {}
  /\ "error" \notin PieceKinds \cup ToolKinds /\ ToolKinds = {"start", "args"}
  /\ PieceKinds = {"text", "reasoning", "args"}
  BY DEF Chat!Reasons, PieceKinds, ToolKinds

(* A tool call started adds nothing and marks the frame.                              *)
LEMMA ChatStarts ==
  ASSUME NEW s \in ChatGoing, NEW src \in Int
  PROVE  LET t == Chat!ToolStart(s, src)
         IN  Adds(s.out, t.out, {}) /\ t.finish = s.finish /\ t.tool /\ ~t.over
<1>1. "open" \in (Marks \cup Plain) \ Pieces /\ s \in ChatFrames
  BY DEF Plain, Pieces, ChatGoing
<1>2. PICK t : t = Chat!Emit(s, "open", src, <<>>) /\ ChatSaid(s, t, "open")
  BY <1>1, ChatSays
<1>3. t \in ChatFrames /\ Adds(s.out, t.out, {}) /\ ChatKeeps(s, t)
  BY <1>2 DEF ChatSaid
<1>4. PICK calls : calls = t.calls \cup {src}
  OBVIOUS
<1>5. PICK u : u = [t EXCEPT !.calls = calls, !.tool = TRUE]
  OBVIOUS
<1>6. Chat!ToolStart(s, src) = u
  BY <1>2, <1>4, <1>5 DEF Chat!ToolStart
<1>7. u.out = t.out /\ u.finish = t.finish /\ u.tool = TRUE /\ u.over = t.over
  BY <1>3, <1>5 DEF ChatFrames
<1> QED
  BY <1>3, <1>6, <1>7 DEF ChatKeeps, ChatGoing

(* One event of the upstream: the client gets it if it is a piece, and the frame      *)
(* keeps the last reason, whether a tool was called and whether it failed.            *)
LEMMA ChatSteps ==
  ASSUME NEW s \in ChatGoing, s.calls # {} => s.tool, NEW e, e.src \in Int, NEW k \in Int
  PROVE  ChatStep(s, Chat!On(s, e, k), e, k)
<1>0. s \in ChatFrames /\ ~s.over /\ s.out \in Seq(Chunks)
  BY DEF ChatGoing, ChatFrames
<1>1. CASE e.kind = "error"
  <2>1. /\ "error" \in (Marks \cup Plain) \ Pieces /\ "done" \in (Marks \cup Plain) \ Pieces
        /\ 0 \in Int
    BY MarksAre DEF Pieces
  <2>2. PICK t : t = Chat!Emit(s, "error", 0, <<>>) /\ ChatSaid(s, t, "error")
    BY <1>0, <2>1, ChatSays
  <2>3. t \in ChatFrames
    BY <2>2 DEF ChatSaid
  <2>4. PICK u : u = Chat!Emit(t, "done", 0, <<>>) /\ ChatSaid(t, u, "done")
    BY <2>1, <2>3, ChatSays
  <2>5. PICK v : v = [u EXCEPT !.over = TRUE]
    OBVIOUS
  <2>6. v.out = u.out /\ v.over = TRUE
    BY <2>4, <2>5 DEF ChatSaid, ChatFrames
  <2>7. Adds(s.out, t.out, {}) /\ Adds(t.out, u.out, {}) /\ Tells(t.out, "error")
    BY <2>2, <2>4 DEF ChatSaid
  <2>8. Adds(s.out, u.out, {}) /\ Tells(u.out, "error")
    BY <2>7, TellsStays, AddsTwice
  <2>9. Chat!On(s, e, k) = v
    BY <1>1, <2>2, <2>4, <2>5 DEF Chat!On, Chat!Reasons
  <2>10. Shows(s, v, e, k)
    BY <1>1, <2>6, <2>8, KindsDiffer DEF Shows
  <2> QED
    BY <1>1, <2>9, <2>10 DEF ChatStep
<1>2. ASSUME NEW type \in Pieces, e.kind \in {"text", "reasoning"}, Chat!On(s, e, k) = Chat!Emit(s, type, 0, <<k>>)
      PROVE  ChatStep(s, Chat!On(s, e, k), e, k)
  <2>1. PICK t : t = Chat!Emit(s, type, 0, <<k>>) /\ ChatGave(s, t, k)
    BY <1>0, ChatGives
  <2>2. Adds(s.out, t.out, {k}) /\ t.finish = s.finish /\ t.tool = s.tool /\ t.calls = s.calls /\ t.over = s.over
    BY <2>1 DEF ChatGave, ChatKeeps
  <2>3. Shows(s, t, e, k)
    BY <1>0, <1>2, <2>2, KindsDiffer DEF Shows
  <2>4. ChatReads(s, t, e)
    BY <1>2, <2>2, KindsDiffer DEF ChatReads
  <2> QED
    BY <1>2, <2>1, <2>3, <2>4 DEF ChatStep
<1>3. CASE e.kind = "text"
  BY <1>2, <1>3 DEF Chat!On, Chat!Reasons, Pieces
<1>4. CASE e.kind = "reasoning"
  BY <1>2, <1>4 DEF Chat!On, Chat!Reasons, Pieces
<1>5. CASE e.kind = "start"
  <2>1. PICK t : /\ t = Chat!ToolStart(s, e.src)
                 /\ Adds(s.out, t.out, {}) /\ t.finish = s.finish /\ t.tool /\ ~t.over
    BY ChatStarts
  <2>2. Chat!On(s, e, k) = t
    BY <1>5, <2>1 DEF Chat!On, Chat!Reasons
  <2>3. Shows(s, t, e, k)
    BY <1>5, <2>1, KindsDiffer DEF Shows
  <2>4. ChatReads(s, t, e)
    BY <1>5, <2>1, KindsDiffer DEF ChatReads
  <2> QED
    BY <2>2, <2>3, <2>4 DEF ChatStep
<1>6. CASE e.kind = "args"
  <2>1. PICK t \in ChatGoing : /\ t = IF e.src \in s.calls THEN s ELSE Chat!ToolStart(s, e.src)
                               /\ Adds(s.out, t.out, {}) /\ t.finish = s.finish /\ t.tool /\ ~t.over
    <3>1. CASE e.src \in s.calls
      <4>1. s.tool /\ Adds(s.out, s.out, {})
        BY <1>0, <3>1, AddsNothing
      <4> QED
        BY <1>0, <3>1, <4>1
    <3>2. CASE e.src \notin s.calls
      BY <3>2, ChatStarts, ChatToolStart
    <3> QED
      BY <3>1, <3>2
  <2>2. t \in ChatFrames
    BY DEF ChatGoing
  <2>3. PICK u : u = Chat!Emit(t, "delta", e.src, <<k>>) /\ ChatGave(t, u, k)
    <3>1. "delta" \in Pieces
      BY DEF Pieces
    <3> QED
      BY <2>2, <3>1, ChatGives
  <2>4. Adds(t.out, u.out, {k}) /\ u.finish = t.finish /\ u.tool = t.tool /\ u.over = t.over
    BY <2>3 DEF ChatGave, ChatKeeps
  <2>5. Adds(s.out, u.out, {k})
    BY <2>1, <2>4, AddsAfter
  <2>6. Chat!On(s, e, k) = u
    BY <1>6, <2>1, <2>3 DEF Chat!On, Chat!ToolArgs, Chat!Reasons
  <2>7. Shows(s, u, e, k)
    BY <1>6, <2>1, <2>4, <2>5, KindsDiffer DEF Shows
  <2>8. ChatReads(s, u, e)
    BY <1>6, <2>1, <2>4, KindsDiffer DEF ChatReads
  <2> QED
    BY <2>6, <2>7, <2>8 DEF ChatStep
<1>7. CASE e.kind \in Chat!Reasons
  <2>1. PICK t : t = [s EXCEPT !.finish = e.kind]
    OBVIOUS
  <2>2. t.out = s.out /\ t.over = s.over /\ t.tool = s.tool /\ t.calls = s.calls /\ t.finish = e.kind
    BY <1>0, <2>1 DEF ChatFrames
  <2>3. Chat!On(s, e, k) = t
    BY <1>7, <2>1 DEF Chat!On, Chat!Reasons
  <2>4. Shows(s, t, e, k)
    BY <1>0, <1>7, <2>2, KindsDiffer, AddsNothing DEF Shows
  <2>5. ChatReads(s, t, e)
    BY <1>7, <2>2, KindsDiffer DEF ChatReads
  <2> QED
    BY <2>3, <2>4, <2>5 DEF ChatStep
<1>8. CASE e.kind \notin {"error", "text", "reasoning", "start", "args"} \cup Chat!Reasons
  <2>1. Chat!On(s, e, k) = s
    BY <1>8 DEF Chat!On
  <2>2. Shows(s, s, e, k)
    BY <1>0, <1>8, KindsDiffer, AddsNothing DEF Shows
  <2>3. ChatReads(s, s, e)
    BY <1>8, KindsDiffer DEF ChatReads
  <2> QED
    BY <2>1, <2>2, <2>3 DEF ChatStep
<1> QED
  BY <1>1, <1>3, <1>4, <1>5, <1>6, <1>7, <1>8

(* The end of the upstream: the client is told the reason.                            *)
LEMMA ChatCloses ==
  ASSUME NEW s \in ChatGoing
  PROVE  LET t == Chat!Close(s)
         IN  /\ Adds(s.out, t.out, {})
             /\ Tells(t.out, IF s.tool /\ s.finish = "stop" THEN "tool_calls" ELSE s.finish)
<1>0. s \in ChatFrames
  BY DEF ChatGoing
<1>1. PICK reason \in Chat!Reasons :
         reason = IF s.tool /\ s.finish = "stop" THEN "tool_calls" ELSE s.finish
  BY DEF ChatGoing, ChatFrames, Chat!Reasons
<1>2. /\ reason \in (Marks \cup Plain) \ Pieces /\ "done" \in (Marks \cup Plain) \ Pieces
      /\ 0 \in Int
  BY MarksAre DEF Pieces, Chat!Reasons
<1>3. PICK t : t = Chat!Emit(s, reason, 0, <<>>) /\ ChatSaid(s, t, reason)
  BY <1>0, <1>2, ChatSays
<1>4. t \in ChatFrames
  BY <1>3 DEF ChatSaid
<1>5. PICK u : u = Chat!Emit(t, "done", 0, <<>>) /\ ChatSaid(t, u, "done")
  BY <1>2, <1>4, ChatSays
<1>6. PICK v : v = [u EXCEPT !.over = TRUE]
  OBVIOUS
<1>7. v.out = u.out
  BY <1>5, <1>6 DEF ChatSaid, ChatFrames
<1>8. Adds(s.out, t.out, {}) /\ Adds(t.out, u.out, {}) /\ Tells(t.out, reason)
  BY <1>3, <1>5 DEF ChatSaid
<1>9. Adds(s.out, u.out, {}) /\ Tells(u.out, reason)
  BY <1>8, TellsStays, AddsTwice
<1>10. Chat!Close(s) = v
  BY <1>1, <1>3, <1>5, <1>6 DEF Chat!Close
<1> QED
  BY <1>1, <1>7, <1>9, <1>10
------------------------------------------------------------------------------------
(* to_anthropic_stream: the same.                                                     *)
MessagesKeeps(s, t) == t.finish = s.finish /\ t.tool = s.tool /\ t.over = s.over

MessagesSaid(s, t, type) ==
    Adds(s.out, t.out, {}) /\ Tells(t.out, type) /\ MessagesKeeps(s, t) /\ t \in MessagesFrames

MessagesGave(s, t, k) == Adds(s.out, t.out, {k}) /\ MessagesKeeps(s, t)

MessagesOnly(s, t) == Adds(s.out, t.out, {}) /\ MessagesKeeps(s, t) /\ t \in MessagesGoing

(* A chunk that is no piece adds nothing;                                             *)
LEMMA MessagesSays ==
  ASSUME NEW s \in MessagesFrames, NEW type \in (Marks \cup Plain) \ Pieces, NEW item \in Int
  PROVE  MessagesSaid(s, Messages!Emit(s, type, item, <<>>), type)
<1>1. PICK c : c = Messages!Chunk(type, item, <<>>) /\ IsChunk(c, type, <<>>)
  BY MessagesChunk, PieceType
<1>2. c \in Chunks /\ c.type = type
  BY <1>1 DEF IsChunk
<1>3. s.out \in Seq(Chunks)
  BY DEF MessagesFrames
<1>4. PICK o \in Seq(Chunks) : o = Append(s.out, c)
  BY <1>2, <1>3, Appended
<1>5. Adds(s.out, o, {}) /\ Tells(o, type)
  BY <1>2, <1>3, <1>4, AddsChunk
<1>6. PICK t : t = [s EXCEPT !.out = o]
  OBVIOUS
<1>7. Messages!Emit(s, type, item, <<>>) = t
  BY <1>1, <1>4, <1>6 DEF Messages!Emit
<1>8. t \in MessagesFrames /\ t.out = o /\ MessagesKeeps(s, t)
  BY <1>4, <1>6 DEF MessagesFrames, MessagesKeeps
<1> QED
  BY <1>5, <1>7, <1>8 DEF MessagesSaid

(* a piece adds the event it carries.                                                 *)
LEMMA MessagesGives ==
  ASSUME NEW s \in MessagesFrames, NEW type \in Pieces, NEW item \in Int, NEW k \in Int
  PROVE  MessagesGave(s, Messages!Emit(s, type, item, <<k>>), k)
<1>0. type \in Marks \cup Plain
  BY DEF Pieces, Plain
<1>1. PICK c : c = Messages!Chunk(type, item, <<k>>) /\ IsChunk(c, type, <<k>>)
  BY <1>0, MessagesChunk, PieceType
<1>2. c \in Chunks /\ c.type = type /\ c.val = <<k>>
  BY <1>1 DEF IsChunk
<1>3. s.out \in Seq(Chunks)
  BY DEF MessagesFrames
<1>4. PICK o \in Seq(Chunks) : o = Append(s.out, c)
  BY <1>2, <1>3, Appended
<1>5. Adds(s.out, o, {k})
  BY <1>2, <1>3, <1>4, AddsPiece
<1>6. PICK t : t = [s EXCEPT !.out = o]
  OBVIOUS
<1>7. Messages!Emit(s, type, item, <<k>>) = t
  BY <1>1, <1>4, <1>6 DEF Messages!Emit
<1>8. t.out = o /\ MessagesKeeps(s, t)
  BY <1>4, <1>6 DEF MessagesFrames, MessagesKeeps
<1> QED
  BY <1>5, <1>7, <1>8 DEF MessagesGave

(* _stop_block adds nothing,                                                          *)
LEMMA MessagesStops ==
  ASSUME NEW s \in MessagesGoing
  PROVE  MessagesOnly(s, Messages!Stop(s))
<1>0. s \in MessagesFrames /\ s.item \in Int /\ s.out \in Seq(Chunks)
  BY DEF MessagesGoing, MessagesFrames
<1>1. CASE s.open = "none"
  <2>1. Messages!Stop(s) = s /\ Adds(s.out, s.out, {})
    BY <1>0, <1>1, AddsNothing DEF Messages!Stop
  <2> QED
    BY <2>1 DEF MessagesOnly, MessagesKeeps
<1>2. CASE s.open # "none"
  <2>1. "close" \in (Marks \cup Plain) \ Pieces
    BY DEF Plain, Pieces
  <2>2. PICK t : t = Messages!Emit(s, "close", s.item, <<>>) /\ MessagesSaid(s, t, "close")
    BY <1>0, <2>1, MessagesSays
  <2>3. PICK u : u = [t EXCEPT !.open = "none"]
    OBVIOUS
  <2>4. u.out = t.out /\ u.finish = t.finish /\ u.tool = t.tool /\ u.over = t.over
    BY <2>2, <2>3 DEF MessagesSaid, MessagesFrames
  <2>5. Messages!Stop(s) = u /\ u \in MessagesGoing
    BY <1>2, <2>2, <2>3, MessagesStop DEF Messages!Stop
  <2> QED
    BY <2>2, <2>4, <2>5 DEF MessagesOnly, MessagesKeeps, MessagesSaid
<1> QED
  BY <1>1, <1>2

(* nor does _start_block,                                                             *)
LEMMA MessagesStarts ==
  ASSUME NEW s \in MessagesGoing, NEW kind \in {"text", "thinking", "tool"}
  PROVE  MessagesOnly(s, Messages!Start(s, kind))
<1>1. PICK c : c = Messages!Stop(s) /\ MessagesOnly(s, c)
  BY MessagesStops
<1>2. c \in MessagesFrames /\ c.next \in Int
  BY <1>1 DEF MessagesOnly, MessagesGoing, MessagesFrames
<1>3. "open" \in (Marks \cup Plain) \ Pieces
  BY DEF Plain, Pieces
<1>4. PICK t : t = Messages!Emit(c, "open", c.next, <<>>) /\ MessagesSaid(c, t, "open")
  BY <1>2, <1>3, MessagesSays
<1>5. PICK n : n = t.next + 1
  OBVIOUS
<1>6. PICK u : u = [t EXCEPT !.open = kind, !.item = c.next, !.next = n]
  OBVIOUS
<1>7. Messages!Start(s, kind) = u
  BY <1>1, <1>4, <1>5, <1>6 DEF Messages!Start
<1>8. u.out = t.out /\ u.finish = t.finish /\ u.tool = t.tool /\ u.over = t.over
  BY <1>4, <1>6 DEF MessagesSaid, MessagesFrames
<1>9. u \in MessagesGoing
  BY <1>7, MessagesStart
<1>10. Adds(s.out, c.out, {}) /\ Adds(c.out, t.out, {}) /\ MessagesKeeps(s, c) /\ MessagesKeeps(c, t)
  BY <1>1, <1>4 DEF MessagesOnly, MessagesSaid
<1>11. Adds(s.out, t.out, {})
  BY <1>10, AddsTwice
<1> QED
  BY <1>7, <1>8, <1>9, <1>10, <1>11 DEF MessagesOnly, MessagesKeeps

MessagesReads(s, t, e) ==
    /\ e.kind \in Messages!Reasons => t.finish = Messages!StopReason(e.kind)
    /\ e.kind \notin Messages!Reasons => t.finish = s.finish
    /\ t.tool <=> s.tool \/ e.kind \in ToolKinds

MessagesStep(s, t, e, k) == Shows(s, t, e, k) /\ (e.kind # "error" => MessagesReads(s, t, e))

MessagesTools(s, t) == Adds(s.out, t.out, {}) /\ t.finish = s.finish /\ t.tool /\ ~t.over

(* nor a tool call started, which marks the frame.                                    *)
LEMMA MessagesToolStarts ==
  ASSUME NEW s \in MessagesGoing, NEW src \in Int
  PROVE  MessagesTools(s, Messages!ToolStart(s, src))
<1>1. PICK t : t = Messages!Start(s, "tool") /\ MessagesOnly(s, t)
  BY MessagesStarts
<1>2. t \in MessagesFrames /\ Adds(s.out, t.out, {}) /\ MessagesKeeps(s, t)
  BY <1>1 DEF MessagesOnly, MessagesGoing
<1>3. PICK f : f = Messages!Put(t.where, src, t.item)
  OBVIOUS
<1>4. PICK u : u = [t EXCEPT !.tool = TRUE, !.where = f]
  OBVIOUS
<1>5. Messages!ToolStart(s, src) = u
  BY <1>1, <1>3, <1>4 DEF Messages!ToolStart
<1>6. u.out = t.out /\ u.finish = t.finish /\ u.tool = TRUE /\ u.over = t.over
  BY <1>2, <1>4 DEF MessagesFrames
<1> QED
  BY <1>2, <1>5, <1>6 DEF MessagesTools, MessagesKeeps, MessagesGoing

(* One event of the upstream, as for Chat (ChatSteps).                                *)
LEMMA MessagesSteps ==
  ASSUME NEW s \in MessagesGoing, NEW e, e.src \in Int, NEW k \in Int
  PROVE  MessagesStep(s, Messages!On(s, e, k), e, k)
<1>0. s \in MessagesFrames /\ ~s.over /\ s.out \in Seq(Chunks) /\ Messages!Reasons = Chat!Reasons
  BY DEF MessagesGoing, MessagesFrames, Messages!Reasons, Chat!Reasons
<1>0a. "delta" \in Pieces
  BY DEF Pieces
<1>1. CASE e.kind = "error"
  <2>1. /\ "error" \in (Marks \cup Plain) \ Pieces /\ "message_stop" \in (Marks \cup Plain) \ Pieces
        /\ 0 \in Int
    BY MarksAre DEF Pieces
  <2>2. PICK c : c = Messages!Stop(s) /\ MessagesOnly(s, c)
    BY MessagesStops
  <2>2a. c \in MessagesFrames
    BY <2>2 DEF MessagesOnly, MessagesGoing
  <2>3. PICK t : t = Messages!Emit(c, "error", 0, <<>>) /\ MessagesSaid(c, t, "error")
    BY <2>1, <2>2a, MessagesSays
  <2>3a. t \in MessagesFrames
    BY <2>3 DEF MessagesSaid
  <2>4. PICK u : u = Messages!Emit(t, "message_stop", 0, <<>>) /\ MessagesSaid(t, u, "message_stop")
    BY <2>1, <2>3a, MessagesSays
  <2>5. PICK v : v = [u EXCEPT !.over = TRUE]
    OBVIOUS
  <2>6. v.out = u.out /\ v.over = TRUE
    BY <2>4, <2>5 DEF MessagesSaid, MessagesFrames
  <2>7. /\ Adds(s.out, c.out, {}) /\ Adds(c.out, t.out, {}) /\ Adds(t.out, u.out, {})
        /\ Tells(t.out, "error")
    BY <2>2, <2>3, <2>4 DEF MessagesSaid, MessagesOnly
  <2>8. Adds(s.out, u.out, {}) /\ Tells(u.out, "error")
    BY <2>7, TellsStays, AddsTwice
  <2>9. Messages!On(s, e, k) = v
    BY <1>1, <2>2, <2>3, <2>4, <2>5 DEF Messages!On, Messages!Failed, Messages!Reasons
  <2>10. Shows(s, v, e, k)
    BY <1>1, <2>6, <2>8, KindsDiffer DEF Shows
  <2> QED
    BY <1>1, <2>9, <2>10 DEF MessagesStep
<1>2. ASSUME NEW kind \in {"text", "thinking"}, e.kind \in {"text", "reasoning"},
             Messages!On(s, e, k) = Messages!Piece(s, kind, k)
      PROVE  MessagesStep(s, Messages!On(s, e, k), e, k)
  <2>1. PICK c : c = (IF s.open = kind THEN s ELSE Messages!Start(s, kind)) /\ MessagesOnly(s, c)
    <3>1. MessagesOnly(s, s)
      BY <1>0, AddsNothing DEF MessagesOnly, MessagesKeeps
    <3>2. MessagesOnly(s, Messages!Start(s, kind))
      BY MessagesStarts
    <3> QED
      BY <3>1, <3>2
  <2>2. c \in MessagesFrames /\ c.item \in Int /\ Adds(s.out, c.out, {}) /\ MessagesKeeps(s, c)
    BY <2>1 DEF MessagesOnly, MessagesGoing, MessagesFrames
  <2>3. PICK t : t = Messages!Emit(c, "delta", c.item, <<k>>) /\ MessagesGave(c, t, k)
    BY <1>0a, <2>2, MessagesGives
  <2>4. Adds(c.out, t.out, {k}) /\ MessagesKeeps(c, t)
    BY <2>3 DEF MessagesGave
  <2>5. Adds(s.out, t.out, {k})
    BY <2>2, <2>4, AddsAfter
  <2>6. t.finish = s.finish /\ t.tool = s.tool /\ t.over = s.over
    BY <2>2, <2>4 DEF MessagesKeeps
  <2>7. Messages!On(s, e, k) = t
    BY <1>2, <2>1, <2>3 DEF Messages!Piece
  <2>8. Shows(s, t, e, k)
    BY <1>0, <1>2, <2>5, <2>6, KindsDiffer DEF Shows
  <2>9. MessagesReads(s, t, e)
    BY <1>0, <1>2, <2>6, KindsDiffer DEF MessagesReads
  <2> QED
    BY <2>7, <2>8, <2>9 DEF MessagesStep
<1>3. CASE e.kind = "text"
  BY <1>2, <1>3 DEF Messages!On, Messages!Reasons
<1>4. CASE e.kind = "reasoning"
  BY <1>2, <1>4 DEF Messages!On, Messages!Reasons
<1>5. CASE e.kind = "start"
  <2>1. PICK t : t = Messages!ToolStart(s, e.src) /\ MessagesTools(s, t)
    BY MessagesToolStarts
  <2>1a. Adds(s.out, t.out, {}) /\ t.finish = s.finish /\ t.tool /\ ~t.over
    BY <2>1 DEF MessagesTools
  <2>2. Messages!On(s, e, k) = t
    BY <1>5, <2>1 DEF Messages!On, Messages!Reasons
  <2>3. Shows(s, t, e, k)
    BY <1>5, <2>1a, KindsDiffer DEF Shows
  <2>4. MessagesReads(s, t, e)
    BY <1>0, <1>5, <2>1a, KindsDiffer DEF MessagesReads
  <2> QED
    BY <2>2, <2>3, <2>4 DEF MessagesStep
<1>6. CASE e.kind = "args"
  <2>1. PICK t \in MessagesGoing :
           /\ t = (IF e.src \in DOMAIN s.where THEN s ELSE Messages!ToolStart(s, e.src))
           /\ e.src \in DOMAIN t.where
           /\ Adds(s.out, t.out, {}) /\ t.finish = s.finish /\ ~t.over
    <3>1. CASE e.src \in DOMAIN s.where
      <4>1. Adds(s.out, s.out, {})
        BY <1>0, AddsNothing
      <4> QED
        BY <1>0, <3>1, <4>1
    <3>2. CASE e.src \notin DOMAIN s.where
      <4>1. PICK t : t = Messages!ToolStart(s, e.src) /\ MessagesTools(s, t)
        BY MessagesToolStarts
      <4>2. t \in MessagesGoing /\ e.src \in DOMAIN t.where
        BY <4>1, MessagesToolStart
      <4> QED
        BY <3>2, <4>1, <4>2 DEF MessagesTools
    <3> QED
      BY <3>1, <3>2
  <2>2. t.where[e.src] \in Int
    <3>1. t.where \in Dict(Int)
      BY DEF MessagesGoing, MessagesFrames
    <3> QED
      BY <2>1, <3>1, DictAt
  <2>3. PICK u : u = [t EXCEPT !.tool = TRUE]
    OBVIOUS
  <2>4. u \in MessagesFrames /\ u.out = t.out /\ u.finish = t.finish /\ u.tool = TRUE /\ u.over = t.over
    BY <2>3 DEF MessagesGoing, MessagesFrames
  <2>5. PICK v : v = Messages!Emit(u, "delta", t.where[e.src], <<k>>) /\ MessagesGave(u, v, k)
    BY <1>0a, <2>2, <2>4, MessagesGives
  <2>6. Adds(u.out, v.out, {k}) /\ MessagesKeeps(u, v)
    BY <2>5 DEF MessagesGave
  <2>7. Adds(s.out, v.out, {k})
    BY <2>1, <2>4, <2>6, AddsAfter
  <2>8. v.finish = s.finish /\ v.tool /\ ~v.over
    BY <2>1, <2>4, <2>6 DEF MessagesKeeps
  <2>9. Messages!On(s, e, k) = v
    BY <1>6, <2>1, <2>3, <2>5 DEF Messages!On, Messages!ToolArgs, Messages!Reasons
  <2>10. Shows(s, v, e, k)
    BY <1>6, <2>7, <2>8, KindsDiffer DEF Shows
  <2>11. MessagesReads(s, v, e)
    BY <1>0, <1>6, <2>8, KindsDiffer DEF MessagesReads
  <2> QED
    BY <2>9, <2>10, <2>11 DEF MessagesStep
<1>7. CASE e.kind \in Messages!Reasons
  <2>0. PICK stop : stop = Messages!StopReason(e.kind)
    OBVIOUS
  <2>1. PICK t : t = [s EXCEPT !.finish = stop]
    OBVIOUS
  <2>2. t.out = s.out /\ t.over = s.over /\ t.tool = s.tool /\ t.finish = stop
    BY <1>0, <2>1 DEF MessagesFrames
  <2>3. Messages!On(s, e, k) = t
    BY <1>7, <2>0, <2>1 DEF Messages!On, Messages!Reasons
  <2>4. Shows(s, t, e, k)
    BY <1>0, <1>7, <2>2, KindsDiffer, AddsNothing DEF Shows
  <2>5. MessagesReads(s, t, e)
    BY <1>0, <1>7, <2>0, <2>2, KindsDiffer DEF MessagesReads
  <2> QED
    BY <2>3, <2>4, <2>5 DEF MessagesStep
<1>8. CASE e.kind \notin {"error", "text", "reasoning", "start", "args"} \cup Messages!Reasons
  <2>1. Messages!On(s, e, k) = s
    BY <1>8 DEF Messages!On
  <2>2. Shows(s, s, e, k)
    BY <1>0, <1>8, KindsDiffer, AddsNothing DEF Shows
  <2>3. MessagesReads(s, s, e)
    BY <1>0, <1>8, KindsDiffer DEF MessagesReads
  <2> QED
    BY <2>1, <2>2, <2>3 DEF MessagesStep
<1> QED
  BY <1>1, <1>3, <1>4, <1>5, <1>6, <1>7, <1>8

MessagesFinal(s) == IF s.tool /\ s.finish = "end_turn" THEN "tool_use" ELSE s.finish

(* The end adds nothing, and tells the last reason: tool_use in place of end_turn     *)
(* when a tool was called.                                                            *)
LEMMA MessagesCloses ==
  ASSUME NEW s \in MessagesGoing
  PROVE  Adds(s.out, Messages!Close(s).out, {}) /\ Tells(Messages!Close(s).out, MessagesFinal(s))
<1>1. PICK c : c = Messages!Stop(s) /\ MessagesOnly(s, c)
  BY MessagesStops
<1>2. /\ c \in MessagesFrames /\ Adds(s.out, c.out, {}) /\ c.tool = s.tool /\ c.finish = s.finish
      /\ c.finish \in StopReasons
  BY <1>1 DEF MessagesOnly, MessagesGoing, MessagesKeeps, MessagesFrames
<1>3. PICK reason \in StopReasons :
         reason = IF c.tool /\ c.finish = "end_turn" THEN "tool_use" ELSE c.finish
  BY <1>2 DEF StopReasons
<1>3a. reason = MessagesFinal(s)
  BY <1>2, <1>3 DEF MessagesFinal
<1>4. /\ reason \in (Marks \cup Plain) \ Pieces /\ "message_stop" \in (Marks \cup Plain) \ Pieces
      /\ 0 \in Int
  BY MarksAre DEF Pieces, StopReasons
<1>5. PICK t : t = Messages!Emit(c, reason, 0, <<>>) /\ MessagesSaid(c, t, reason)
  BY <1>2, <1>4, MessagesSays
<1>6. t \in MessagesFrames
  BY <1>5 DEF MessagesSaid
<1>7. PICK u : u = Messages!Emit(t, "message_stop", 0, <<>>) /\ MessagesSaid(t, u, "message_stop")
  BY <1>4, <1>6, MessagesSays
<1>8. PICK v : v = [u EXCEPT !.over = TRUE]
  OBVIOUS
<1>9. v.out = u.out
  BY <1>7, <1>8 DEF MessagesSaid, MessagesFrames
<1>10. Adds(c.out, t.out, {}) /\ Adds(t.out, u.out, {}) /\ Tells(t.out, reason)
  BY <1>5, <1>7 DEF MessagesSaid
<1>11. Adds(s.out, u.out, {}) /\ Tells(u.out, reason)
  BY <1>2, <1>10, TellsStays, AddsTwice
<1>12. Messages!Close(s) = v
  BY <1>1, <1>3, <1>5, <1>7, <1>8 DEF Messages!Close
<1> QED
  BY <1>3a, <1>9, <1>11, <1>12
------------------------------------------------------------------------------------
(* to_responses_stream: the same.                                                     *)
ResponsesKeeps(s, t) == t.finish = s.finish /\ t.over = s.over

ResponsesSaid(s, t, type) ==
    Adds(s.out, t.out, {}) /\ Tells(t.out, type) /\ ResponsesKeeps(s, t) /\ t \in ResponsesFrames

ResponsesGave(s, t, k) == Adds(s.out, t.out, {k}) /\ ResponsesKeeps(s, t)

ResponsesOnly(s, t) == Adds(s.out, t.out, {}) /\ ResponsesKeeps(s, t)

(* A chunk that is no piece adds nothing;                                             *)
LEMMA ResponsesSays ==
  ASSUME NEW s \in ResponsesFrames, NEW type \in (Marks \cup Plain) \ Pieces, NEW item \in Int,
         NEW val \in Seq(Int)
  PROVE  ResponsesSaid(s, Responses!Emit(s, type, item, val), type)
<1>1. PICK c : c = Responses!Chunk(type, item, val) /\ IsChunk(c, type, val)
  BY ResponsesChunk
<1>2. c \in Chunks /\ c.type = type
  BY <1>1 DEF IsChunk
<1>3. s.out \in Seq(Chunks)
  BY DEF ResponsesFrames
<1>4. PICK o \in Seq(Chunks) : o = Append(s.out, c)
  BY <1>2, <1>3, Appended
<1>5. Adds(s.out, o, {}) /\ Tells(o, type)
  BY <1>2, <1>3, <1>4, AddsChunk
<1>6. PICK t : t = [s EXCEPT !.out = o]
  OBVIOUS
<1>7. Responses!Emit(s, type, item, val) = t
  BY <1>1, <1>4, <1>6 DEF Responses!Emit
<1>8. t \in ResponsesFrames /\ t.out = o /\ ResponsesKeeps(s, t)
  BY <1>4, <1>6 DEF ResponsesFrames, ResponsesKeeps
<1> QED
  BY <1>5, <1>7, <1>8 DEF ResponsesSaid

(* a delta adds the event it carries.                                                 *)
LEMMA ResponsesGives ==
  ASSUME NEW s \in ResponsesFrames, NEW item \in Int, NEW k \in Int
  PROVE  ResponsesGave(s, Responses!Emit(s, "delta", item, <<k>>), k)
<1>0. "delta" \in Marks \cup Plain /\ "delta" \in Pieces
  BY DEF Pieces, Plain
<1>1. PICK c : c = Responses!Chunk("delta", item, <<k>>) /\ IsChunk(c, "delta", <<k>>)
  BY <1>0, ResponsesChunk, PieceType
<1>2. c \in Chunks /\ c.type \in Pieces /\ c.val = <<k>>
  BY <1>0, <1>1 DEF IsChunk
<1>3. s.out \in Seq(Chunks)
  BY DEF ResponsesFrames
<1>4. PICK o \in Seq(Chunks) : o = Append(s.out, c)
  BY <1>2, <1>3, Appended
<1>5. Adds(s.out, o, {k})
  BY <1>2, <1>3, <1>4, AddsPiece
<1>6. PICK t : t = [s EXCEPT !.out = o]
  OBVIOUS
<1>7. Responses!Emit(s, "delta", item, <<k>>) = t
  BY <1>1, <1>4, <1>6 DEF Responses!Emit
<1>8. t.out = o /\ ResponsesKeeps(s, t)
  BY <1>4, <1>6 DEF ResponsesFrames, ResponsesKeeps
<1> QED
  BY <1>5, <1>7, <1>8 DEF ResponsesGave

(* What has been accumulated for the open item is a list of events.                   *)
LEMMA ResponsesAccumulated ==
  ASSUME NEW s \in ResponsesGoing, s.open # "none"
  PROVE  Responses!Accumulated(s) \in Seq(Int)
<1>0. /\ s.text \in Seq(Int) /\ s.reason \in Seq(Int) /\ s.args \in Dict(Seq(Int))
      /\ s.open \in {"none"} \cup Items /\ Gathered(s)
  BY ResponsesTyped DEF ResponsesGoing
<1>1. s.open = "tool" => s.args[s.src] \in Seq(Int)
  BY <1>0, DictAt DEF Gathered
<1> QED
  BY <1>0, <1>1 DEF Responses!Accumulated, Items

(* Closing the open item adds nothing: what its done event repeats is no piece,       *)
LEMMA ResponsesStops ==
  ASSUME NEW s \in ResponsesGoing
  PROVE  ResponsesOnly(s, Responses!CloseOpen(s)) /\ Responses!CloseOpen(s) \in ResponsesParts
<1>0. s \in ResponsesFrames /\ s \in ResponsesParts /\ s.item \in Int /\ s.out \in Seq(Chunks)
  BY ResponsesTyped DEF ResponsesGoing
<1>1. CASE s.open = "none"
  <2>1. Responses!CloseOpen(s) = s /\ Adds(s.out, s.out, {})
    BY <1>0, <1>1, AddsNothing DEF Responses!CloseOpen
  <2> QED
    BY <1>0, <2>1 DEF ResponsesOnly, ResponsesKeeps
<1>2. CASE s.open # "none"
  <2>1. "close" \in (Marks \cup Plain) \ Pieces
    BY DEF Plain, Pieces
  <2>2. PICK val \in Seq(Int) : val = Responses!Accumulated(s)
    BY <1>2, ResponsesAccumulated
  <2>3. PICK t : t = Responses!Emit(s, "close", s.item, val) /\ ResponsesSaid(s, t, "close")
    BY <1>0, <2>1, <2>2, ResponsesSays
  <2>4. PICK items : items = Append(t.items, s.item)
    OBVIOUS
  <2>5. PICK u : u = [t EXCEPT !.open = "none", !.items = items]
    OBVIOUS
  <2>6. u.out = t.out /\ u.finish = t.finish /\ u.over = t.over
    BY <2>3, <2>5 DEF ResponsesSaid, ResponsesFrames
  <2>7. Responses!CloseOpen(s) = u
    BY <1>2, <2>2, <2>3, <2>4, <2>5 DEF Responses!CloseOpen
  <2>8. u \in ResponsesParts
    BY <2>7, ResponsesCloseOpen DEF Closed
  <2> QED
    BY <2>3, <2>6, <2>7, <2>8 DEF ResponsesOnly, ResponsesKeeps, ResponsesSaid
<1> QED
  BY <1>1, <1>2

(* nor does opening one,                                                              *)
LEMMA ResponsesOpens ==
  ASSUME NEW s \in ResponsesGoing, NEW kind \in Items
  PROVE  ResponsesOnly(s, Responses!Open(s, kind))
<1>1. PICK c \in ResponsesParts : c = Responses!CloseOpen(s) /\ ResponsesOnly(s, c)
  BY ResponsesStops
<1>2. c \in ResponsesFrames /\ c.next \in Int /\ <<>> \in Seq(Int)
  BY ResponsesTyped, PieceType
<1>3. "open" \in (Marks \cup Plain) \ Pieces
  BY DEF Plain, Pieces
<1>4. PICK t : t = Responses!Emit(c, "open", c.next, <<>>) /\ ResponsesSaid(c, t, "open")
  BY <1>2, <1>3, ResponsesSays
<1>5. PICK n : n = t.next + 1
  OBVIOUS
<1>6. PICK u : u = [t EXCEPT !.open = kind, !.item = c.next, !.next = n]
  OBVIOUS
<1>7. Responses!Open(s, kind) = u
  BY <1>1, <1>4, <1>5, <1>6 DEF Responses!Open
<1>8. u.out = t.out /\ u.finish = t.finish /\ u.over = t.over
  BY <1>4, <1>6 DEF ResponsesSaid, ResponsesFrames
<1>9. Adds(s.out, c.out, {}) /\ Adds(c.out, t.out, {}) /\ ResponsesKeeps(s, c) /\ ResponsesKeeps(c, t)
  BY <1>1, <1>4 DEF ResponsesOnly, ResponsesSaid
<1>10. Adds(s.out, t.out, {})
  BY <1>9, AddsTwice
<1> QED
  BY <1>7, <1>8, <1>9, <1>10 DEF ResponsesOnly, ResponsesKeeps

ResponsesReads(s, t, e) ==
    /\ e.kind \in Responses!Reasons => t.finish = e.kind
    /\ e.kind \notin Responses!Reasons => t.finish = s.finish

ResponsesStep(s, t, e, k) == Shows(s, t, e, k) /\ (e.kind # "error" => ResponsesReads(s, t, e))

(* nor a tool call started,                                                           *)
LEMMA ResponsesToolStarts ==
  ASSUME NEW s \in ResponsesGoing, NEW src \in Int
  PROVE  ResponsesOnly(s, Responses!ToolStart(s, src))
<1>1. PICK t : t = Responses!Open(s, "tool") /\ ResponsesOnly(s, t) /\ Begun(s, t, "tool")
  BY ResponsesOpens, ResponsesOpen DEF Items
<1>2. t \in ResponsesFrames /\ Adds(s.out, t.out, {}) /\ ResponsesKeeps(s, t)
  BY <1>1, ResponsesTyped DEF ResponsesOnly, Begun
<1>3. PICK where, args : /\ where = Responses!Put(t.where, src, t.item)
                         /\ args = IF src \in DOMAIN t.args THEN t.args ELSE Responses!Put(t.args, src, <<>>)
  OBVIOUS
<1>4. PICK u : u = [t EXCEPT !.src = src, !.where = where, !.args = args]
  OBVIOUS
<1>5. Responses!ToolStart(s, src) = u
  BY <1>1, <1>2, <1>3, <1>4 DEF Responses!ToolStart, ResponsesFrames
<1>6. u.out = t.out /\ u.finish = t.finish /\ u.over = t.over
  BY <1>2, <1>4 DEF ResponsesFrames
<1> QED
  BY <1>2, <1>5, <1>6 DEF ResponsesOnly, ResponsesKeeps

(* nor text or reasoning that needs another item.                                     *)
LEMMA ResponsesInItems ==
  ASSUME NEW s \in ResponsesGoing, NEW kind \in {"message", "reasoning"}
  PROVE  ResponsesOnly(s, Responses!InItem(s, kind))
<1>1. ResponsesOnly(s, Responses!Open(s, kind))
  BY ResponsesOpens DEF Items
<1>2. s.out \in Seq(Chunks)
  BY ResponsesTyped DEF ResponsesGoing
<1>3. ResponsesOnly(s, s)
  BY <1>2, AddsNothing DEF ResponsesOnly, ResponsesKeeps
<1> QED
  BY <1>1, <1>3 DEF Responses!InItem

(* One event of the upstream, as for Chat (ChatSteps).                                *)
LEMMA ResponsesSteps ==
  ASSUME NEW s \in ResponsesGoing, NEW e, e.src \in Int, NEW k \in Int
  PROVE  ResponsesStep(s, Responses!On(s, e, k), e, k)
<1>0. /\ s \in ResponsesFrames /\ s \in ResponsesParts /\ ~s.over /\ s.out \in Seq(Chunks)
      /\ Responses!Reasons = Chat!Reasons
  BY ResponsesTyped DEF ResponsesGoing, Responses!Reasons, Chat!Reasons
<1>1. CASE e.kind = "error"
  <2>1. /\ "error" \in (Marks \cup Plain) \ Pieces /\ "failed" \in (Marks \cup Plain) \ Pieces
        /\ 0 \in Int /\ <<>> \in Seq(Int)
    BY MarksAre, PieceType DEF Pieces, Plain
  <2>2. PICK c \in ResponsesParts : c = Responses!CloseOpen(s) /\ ResponsesOnly(s, c)
    BY ResponsesStops
  <2>2a. c \in ResponsesFrames
    BY ResponsesTyped
  <2>3. PICK t : t = Responses!Emit(c, "failed", 0, <<>>) /\ ResponsesSaid(c, t, "failed")
    BY <2>1, <2>2a, ResponsesSays
  <2>3a. t \in ResponsesFrames
    BY <2>3 DEF ResponsesSaid
  <2>4. PICK u : u = Responses!Emit(t, "error", 0, <<>>) /\ ResponsesSaid(t, u, "error")
    BY <2>1, <2>3a, ResponsesSays
  <2>5. PICK v : v = [u EXCEPT !.over = TRUE]
    OBVIOUS
  <2>6. v.out = u.out /\ v.over = TRUE
    BY <2>4, <2>5 DEF ResponsesSaid, ResponsesFrames
  <2>7. /\ Adds(s.out, c.out, {}) /\ Adds(c.out, t.out, {}) /\ Adds(t.out, u.out, {})
        /\ Tells(u.out, "error")
    BY <2>2, <2>3, <2>4 DEF ResponsesSaid, ResponsesOnly
  <2>8. Adds(s.out, u.out, {})
    BY <2>7, AddsTwice
  <2>9. Responses!On(s, e, k) = v
    BY <1>1, <2>2, <2>3, <2>4, <2>5 DEF Responses!On, Responses!Failed, Responses!Reasons
  <2>10. Shows(s, v, e, k)
    BY <1>1, <2>6, <2>7, <2>8, KindsDiffer DEF Shows
  <2> QED
    BY <1>1, <2>9, <2>10 DEF ResponsesStep
<1>2. ASSUME NEW r \in ResponsesGoing, ResponsesOnly(s, r), NEW kind \in {"message", "reasoning"},
             e.kind \in {"text", "reasoning"},
             Responses!On(s, e, k)
                = LET t == Responses!InItem(r, kind) IN Responses!Emit(t, "delta", t.item, <<k>>)
      PROVE  ResponsesStep(s, Responses!On(s, e, k), e, k)
  <2>1. PICK c : c = Responses!InItem(r, kind) /\ ResponsesOnly(r, c) /\ c \in ResponsesGoing
    BY ResponsesInItems, ResponsesInItem
  <2>2. c \in ResponsesFrames /\ c.item \in Int
    BY <2>1, ResponsesTyped DEF ResponsesGoing
  <2>3. PICK t : t = Responses!Emit(c, "delta", c.item, <<k>>) /\ ResponsesGave(c, t, k)
    BY <2>2, ResponsesGives
  <2>4. /\ Adds(s.out, r.out, {}) /\ Adds(r.out, c.out, {}) /\ Adds(c.out, t.out, {k})
        /\ t.finish = s.finish /\ t.over = s.over
    BY <1>2, <2>1, <2>3 DEF ResponsesGave, ResponsesOnly, ResponsesKeeps
  <2>5. Adds(s.out, t.out, {k})
    BY <2>4, AddsTwice, AddsAfter
  <2>6. Responses!On(s, e, k) = t
    BY <1>2, <2>1, <2>3
  <2>7. Shows(s, t, e, k)
    BY <1>0, <1>2, <2>4, <2>5, KindsDiffer DEF Shows
  <2>8. ResponsesReads(s, t, e)
    BY <1>0, <1>2, <2>4, KindsDiffer DEF ResponsesReads
  <2> QED
    BY <2>6, <2>7, <2>8 DEF ResponsesStep
<1>2a. PICK text \in Seq(Int), reason \in Seq(Int) : text = Append(s.text, k) /\ reason = Append(s.reason, k)
  BY <1>0, Appended, ResponsesTyped
<1>2b. Adds(s.out, s.out, {})
  BY <1>0, AddsNothing
<1>3. CASE e.kind = "text"
  <2>1. PICK r : r = [s EXCEPT !.text = text]
    OBVIOUS
  <2>2. r \in ResponsesGoing
    BY <2>1 DEF ResponsesGoing, ResponsesParts, ResponsesFrames, Counted, Gathered
  <2>3. r.out = s.out /\ r.finish = s.finish /\ r.over = s.over
    BY <1>0, <2>1 DEF ResponsesFrames
  <2>4. ResponsesOnly(s, r)
    BY <1>2b, <2>3 DEF ResponsesOnly, ResponsesKeeps
  <2>5. Responses!On(s, e, k) = LET t == Responses!InItem(r, "message") IN Responses!Emit(t, "delta", t.item, <<k>>)
    BY <1>2a, <1>3, <2>1 DEF Responses!On, Responses!Text, Responses!Reasons
  <2> QED
    BY <1>2, <1>3, <2>2, <2>4, <2>5
<1>4. CASE e.kind = "reasoning"
  <2>1. PICK r : r = [s EXCEPT !.reason = reason]
    OBVIOUS
  <2>2. r \in ResponsesGoing
    BY <2>1 DEF ResponsesGoing, ResponsesParts, ResponsesFrames, Counted, Gathered
  <2>3. r.out = s.out /\ r.finish = s.finish /\ r.over = s.over
    BY <1>0, <2>1 DEF ResponsesFrames
  <2>4. ResponsesOnly(s, r)
    BY <1>2b, <2>3 DEF ResponsesOnly, ResponsesKeeps
  <2>5. Responses!On(s, e, k) = LET t == Responses!InItem(r, "reasoning") IN Responses!Emit(t, "delta", t.item, <<k>>)
    BY <1>2a, <1>4, <2>1 DEF Responses!On, Responses!Reasoning, Responses!Reasons
  <2> QED
    BY <1>2, <1>4, <2>2, <2>4, <2>5
<1>5. CASE e.kind = "start"
  <2>1. PICK t : t = Responses!ToolStart(s, e.src) /\ ResponsesOnly(s, t)
    BY ResponsesToolStarts
  <2>1a. Adds(s.out, t.out, {}) /\ t.finish = s.finish /\ t.over = s.over
    BY <2>1 DEF ResponsesOnly, ResponsesKeeps
  <2>2. Responses!On(s, e, k) = t
    BY <1>5, <2>1 DEF Responses!On, Responses!Reasons
  <2>3. Shows(s, t, e, k)
    BY <1>0, <1>5, <2>1a, KindsDiffer DEF Shows
  <2>4. ResponsesReads(s, t, e)
    BY <1>0, <1>5, <2>1a, KindsDiffer DEF ResponsesReads
  <2> QED
    BY <2>2, <2>3, <2>4 DEF ResponsesStep
<1>6. CASE e.kind = "args"
  <2>1. PICK t \in ResponsesGoing :
           /\ t = (IF e.src \in DOMAIN s.where THEN s ELSE Responses!ToolStart(s, e.src))
           /\ e.src \in DOMAIN t.where
           /\ Adds(s.out, t.out, {}) /\ t.finish = s.finish /\ t.over = s.over
    <3>1. CASE e.src \in DOMAIN s.where
      BY <1>0, <1>2b, <3>1
    <3>2. CASE e.src \notin DOMAIN s.where
      <4>1. PICK t : t = Responses!ToolStart(s, e.src) /\ ResponsesOnly(s, t) /\ Announced(t, e.src)
        BY ResponsesToolStarts, ResponsesToolStart
      <4> QED
        BY <3>2, <4>1 DEF ResponsesOnly, ResponsesKeeps, Announced
    <3> QED
      BY <3>1, <3>2
  <2>2. t.where[e.src] \in Int /\ t \in ResponsesFrames
    <3>1. t.where \in Dict(Int) /\ t \in ResponsesFrames
      BY ResponsesTyped DEF ResponsesGoing
    <3> QED
      BY <2>1, <3>1, DictAt
  <2>3. PICK args : args = [t.args EXCEPT ![e.src] = Append(@, k)] /\ args \in Dict(Seq(Int))
    <3>1. t.args \in Dict(Seq(Int)) /\ e.src \in DOMAIN t.args
      BY <2>1, ResponsesTyped DEF ResponsesGoing
    <3>2. PICK D \in SUBSET Int : t.args \in [D -> Seq(Int)]
      BY <3>1 DEF Dict
    <3>3. Append(t.args[e.src], k) \in Seq(Int)
      BY <3>1, DictAt, Appended
    <3>4. PICK args : args = [t.args EXCEPT ![e.src] = Append(@, k)]
      OBVIOUS
    <3>5. args \in [D -> Seq(Int)]
      BY <3>2, <3>3, <3>4
    <3>6. args \in Dict(Seq(Int))
      BY <3>2, <3>5 DEF Dict
    <3> QED
      BY <3>4, <3>6
  <2>4. PICK u : u = [t EXCEPT !.args = args]
    OBVIOUS
  <2>5. u = [t EXCEPT !.args[e.src] = Append(@, k)]
    BY <2>3, <2>4
  <2>6. u \in ResponsesFrames /\ u.out = t.out /\ u.finish = t.finish /\ u.over = t.over
    BY <2>2, <2>3, <2>4 DEF ResponsesFrames
  <2>7. PICK v : v = Responses!Emit(u, "delta", t.where[e.src], <<k>>) /\ ResponsesGave(u, v, k)
    BY <2>2, <2>6, ResponsesGives
  <2>8. Adds(u.out, v.out, {k}) /\ v.finish = s.finish /\ v.over = s.over
    BY <2>1, <2>6, <2>7 DEF ResponsesGave, ResponsesKeeps
  <2>9. Adds(s.out, v.out, {k})
    BY <2>1, <2>6, <2>8, AddsAfter
  <2>10. Responses!On(s, e, k) = v
    BY <1>6, <2>1, <2>5, <2>7 DEF Responses!On, Responses!ToolArgs, Responses!Reasons
  <2>11. Shows(s, v, e, k)
    BY <1>0, <1>6, <2>8, <2>9, KindsDiffer DEF Shows
  <2>12. ResponsesReads(s, v, e)
    BY <1>0, <1>6, <2>8, KindsDiffer DEF ResponsesReads
  <2> QED
    BY <2>10, <2>11, <2>12 DEF ResponsesStep
<1>7. CASE e.kind \in Responses!Reasons
  <2>1. PICK t : t = [s EXCEPT !.finish = e.kind]
    OBVIOUS
  <2>2. t.out = s.out /\ t.over = s.over /\ t.finish = e.kind
    BY <1>0, <2>1 DEF ResponsesFrames
  <2>3. Responses!On(s, e, k) = t
    BY <1>7, <2>1 DEF Responses!On, Responses!Reasons
  <2>4. Shows(s, t, e, k)
    BY <1>0, <1>7, <2>2, <1>2b, KindsDiffer DEF Shows
  <2>5. ResponsesReads(s, t, e)
    BY <1>0, <1>7, <2>2, KindsDiffer DEF ResponsesReads
  <2> QED
    BY <2>3, <2>4, <2>5 DEF ResponsesStep
<1>8. CASE e.kind \notin {"error", "text", "reasoning", "start", "args"} \cup Responses!Reasons
  <2>1. Responses!On(s, e, k) = s
    BY <1>8 DEF Responses!On
  <2>2. Shows(s, s, e, k)
    BY <1>0, <1>8, <1>2b, KindsDiffer DEF Shows
  <2>3. ResponsesReads(s, s, e)
    BY <1>0, <1>8, KindsDiffer DEF ResponsesReads
  <2> QED
    BY <2>1, <2>2, <2>3 DEF ResponsesStep
<1> QED
  BY <1>1, <1>3, <1>4, <1>5, <1>6, <1>7, <1>8

ResponsesFinal(s) == IF s.finish = "length" THEN "incomplete" ELSE "completed"

(* The end adds nothing, and tells incomplete when the last reason is the length.     *)
LEMMA ResponsesCloses ==
  ASSUME NEW s \in ResponsesGoing
  PROVE  Adds(s.out, Responses!Close(s).out, {}) /\ Tells(Responses!Close(s).out, ResponsesFinal(s))
<1>1. PICK c \in ResponsesParts : c = Responses!CloseOpen(s) /\ ResponsesOnly(s, c)
  BY ResponsesStops
<1>2. c \in ResponsesFrames /\ c.items \in Seq(Int)
  BY ResponsesTyped
<1>3. Adds(s.out, c.out, {}) /\ c.finish = s.finish
  BY <1>1 DEF ResponsesOnly, ResponsesKeeps
<1>4. PICK type : type = IF c.finish = "length" THEN "incomplete" ELSE "completed"
  OBVIOUS
<1>5. type \in (Marks \cup Plain) \ Pieces /\ 0 \in Int
  BY <1>4, MarksAre DEF Pieces
<1>6. PICK t : t = Responses!Emit(c, type, 0, c.items) /\ ResponsesSaid(c, t, type)
  BY <1>2, <1>5, ResponsesSays
<1>7. PICK v : v = [t EXCEPT !.over = TRUE]
  OBVIOUS
<1>8. v.out = t.out
  BY <1>6, <1>7 DEF ResponsesSaid, ResponsesFrames
<1>9. Adds(c.out, t.out, {}) /\ Tells(t.out, type)
  BY <1>6 DEF ResponsesSaid
<1>10. Adds(s.out, t.out, {})
  BY <1>3, <1>9, AddsTwice
<1>11. Responses!Close(s) = v
  BY <1>1, <1>4, <1>6, <1>7 DEF Responses!Close
<1> QED
  BY <1>3, <1>4, <1>8, <1>9, <1>10, <1>11 DEF ResponsesFinal
------------------------------------------------------------------------------------
(* normalize_responses_sse: the blocks a client has seen, in the order of events.     *)
BlocksIn(o) == {i \in 1..Len(o) : o[i].item > 0}

Passes(o, D) ==
    /\ \A i \in BlocksIn(o) : o[i].item \in D
    /\ \A k \in D : \E i \in BlocksIn(o) : o[i].item = k
    /\ \A i, j \in BlocksIn(o) : i < j => o[i].item < o[j].item

(* A block of the upstream passes, in its turn,                                       *)
LEMMA PassesBlock ==
  ASSUME NEW o \in Seq(Chunks), NEW c \in Chunks, c.item > 0,
         NEW D \in SUBSET Int, Passes(o, D), \A d \in D : d < c.item
  PROVE  Passes(Append(o, c), D \cup {c.item})
<1>1. PICK n \in Nat, p \in Seq(Chunks), k \in Int : n = Len(o) /\ p = Append(o, c) /\ k = c.item
  <2>1. Len(o) \in Nat /\ Append(o, c) \in Seq(Chunks) /\ c.item \in Int
    BY Appended DEF Chunks
  <2> QED
    BY <2>1
<1>2. Len(p) = n + 1 /\ (\A i \in 1..n : p[i] = o[i]) /\ p[n + 1] = c
  BY <1>1, AppendPlaces
<1>3. PICK P \in SUBSET (1..n) : P = BlocksIn(o)
  BY <1>1 DEF BlocksIn
<1>4. \A i : i \in 1..(n + 1) <=> i \in 1..n \/ i = n + 1
  OBVIOUS
<1>5. BlocksIn(p) = P \cup {n + 1} /\ (\A i \in P : p[i] = o[i]) /\ p[n + 1].item = k
  BY <1>1, <1>2, <1>3, <1>4 DEF BlocksIn
<1>6. /\ \A i \in P : o[i].item \in D
      /\ \A d \in D : \E i \in P : o[i].item = d
      /\ \A i, j \in P : i < j => o[i].item < o[j].item
  BY <1>3 DEF Passes
<1>7. \A i, j \in P \cup {n + 1} : i < j => p[i].item < p[j].item
  <2> SUFFICES ASSUME NEW i \in P \cup {n + 1}, NEW j \in P \cup {n + 1}, i < j
               PROVE  p[i].item < p[j].item
    OBVIOUS
  <2>1. i \in P
    BY <1>4
  <2>2. CASE j \in P
    BY <1>5, <1>6, <2>1, <2>2
  <2>3. CASE j = n + 1
    BY <1>1, <1>5, <1>6, <2>1, <2>3
  <2> QED
    BY <2>2, <2>3
<1>8. \A i \in P \cup {n + 1} : p[i].item \in D \cup {k}
  BY <1>5, <1>6
<1>9. \A d \in D \cup {k} : \E i \in P \cup {n + 1} : p[i].item = d
  BY <1>5, <1>6
<1> QED
  BY <1>1, <1>5, <1>7, <1>8, <1>9 DEF Passes

(* and one that carries no event of the upstream adds none.                           *)
LEMMA PassesAside ==
  ASSUME NEW o \in Seq(Chunks), NEW c \in Chunks, ~(c.item > 0), NEW D, Passes(o, D)
  PROVE  Passes(Append(o, c), D)
<1>1. PICK n \in Nat, p \in Seq(Chunks) : n = Len(o) /\ p = Append(o, c)
  <2>1. Len(o) \in Nat /\ Append(o, c) \in Seq(Chunks)
    BY Appended
  <2> QED
    BY <2>1
<1>2. Len(p) = n + 1 /\ (\A i \in 1..n : p[i] = o[i]) /\ p[n + 1] = c
  BY <1>1, AppendPlaces
<1>3. \A i : i \in 1..(n + 1) <=> i \in 1..n \/ i = n + 1
  OBVIOUS
<1>4. BlocksIn(p) = BlocksIn(o) /\ \A i \in BlocksIn(o) : p[i] = o[i]
  BY <1>1, <1>2, <1>3 DEF BlocksIn
<1> QED
  BY <1>1, <1>4 DEF Passes

(* The block a frame emits.                                                           *)
Blocked(s, t, k) ==
    /\ t.over = s.over
    /\ \A D \in SUBSET Int : Passes(s.out, D) =>
          /\ k > 0 /\ (\A d \in D : d < k) => Passes(t.out, D \cup {k})
          /\ ~(k > 0) => Passes(t.out, D)
    /\ \E i \in PlacesIn(t.out, {"block"}) : t.out[i].item = k

(* It is the one chunk added.                                                         *)
LEMMA SameEmits ==
  ASSUME NEW s \in SameFrames, NEW k \in Int
  PROVE  Blocked(s, Chat!Emit(s, "block", k, <<>>), k)
<1>0. "block" \in Marks \cup Plain /\ <<>> \in Seq(Int)
  BY PieceType DEF Plain
<1>1. PICK c : c = [type |-> "block", item |-> k, val |-> <<>>]
  OBVIOUS
<1>2. c \in Chunks /\ c.type = "block" /\ c.item = k /\ c = Chat!Chunk("block", k, <<>>)
  BY <1>0, <1>1 DEF Chunks, Chat!Chunk
<1>3. s.out \in Seq(Chunks)
  BY DEF SameFrames
<1>4. PICK o \in Seq(Chunks) : o = Append(s.out, c)
  BY <1>2, <1>3, Appended
<1>5. PICK t : t = [s EXCEPT !.out = o]
  OBVIOUS
<1>6. t.out = o /\ t.over = s.over
  BY <1>5 DEF SameFrames
<1>7. Chat!Emit(s, "block", k, <<>>) = t
  BY <1>2, <1>4, <1>5 DEF Chat!Emit
<1>8. ASSUME NEW D \in SUBSET Int, Passes(s.out, D)
      PROVE  /\ k > 0 /\ (\A d \in D : d < k) => Passes(o, D \cup {k})
             /\ ~(k > 0) => Passes(o, D)
  <2>1. CASE k > 0 /\ \A d \in D : d < k
    BY <1>2, <1>3, <1>4, <1>8, <2>1, PassesBlock
  <2>2. CASE ~(k > 0)
    BY <1>2, <1>3, <1>4, <1>8, <2>2, PassesAside
  <2> QED
    BY <2>1, <2>2
<1>9. \E i \in PlacesIn(o, {"block"}) : o[i].item = k
  <2>1. PICK n : n = Len(s.out) + 1
    OBVIOUS
  <2>2. n \in PlacesIn(o, {"block"}) /\ o[n] = c
    BY <1>2, <1>3, <1>4, <2>1, AppendPlaces
  <2> QED
    BY <1>2, <2>2
<1> QED
  BY <1>6, <1>7, <1>8, <1>9 DEF Blocked
------------------------------------------------------------------------------------
(* The first m events of the upstream: whether one is an error or a tool call, which  *)
(* reasons they give, and which of them a client is to see.                           *)
FailedBy(m) == \E i \in 1..m : Kind(i) = "error"

ToolBy(m) == \E i \in 1..m : Kind(i) \in ToolKinds

ReasonsBy(m) == {Kind(i) : i \in 1..m} \cap Chat!Reasons

Ends(m) == IF ReasonsBy(m) = {} THEN {"stop"} ELSE ReasonsBy(m)

DueBy(m) == IF target = "same" THEN {k \in 1..m : Kind(k) # "done"}
            ELSE {k \in 1..m : Kind(k) \in PieceKinds /\ \A i \in 1..(k - 1) : Kind(i) # "error"}

Got(s, D) == IF target = "same" THEN Passes(s.out, D) ELSE Brings(s.out, D)

(* One event more.                                                                    *)
Grown(k) ==
    /\ FailedBy(k) <=> FailedBy(k - 1) \/ Kind(k) = "error"
    /\ ToolBy(k) <=> ToolBy(k - 1) \/ Kind(k) \in ToolKinds
    /\ Kind(k) \in Chat!Reasons => Kind(k) \in Ends(k)
    /\ Kind(k) \notin Chat!Reasons => Ends(k) = Ends(k - 1)
    /\ DueBy(k - 1) \subseteq 1..(k - 1)
    /\ DueBy(k) = IF (target = "same" /\ Kind(k) # "done")
                        \/ (target # "same" /\ Kind(k) \in PieceKinds /\ ~FailedBy(k - 1))
                  THEN DueBy(k - 1) \cup {k} ELSE DueBy(k - 1)

(* Each of them grows by what the next event is.                                      *)
LEMMA OneMore ==
  ASSUME NEW k \in Nat \ {0}
  PROVE  Grown(k)
<1>1. \A i : i \in 1..k <=> i \in 1..(k - 1) \/ i = k
  OBVIOUS
<1>2. FailedBy(k) <=> FailedBy(k - 1) \/ Kind(k) = "error"
  BY <1>1 DEF FailedBy
<1>3. ToolBy(k) <=> ToolBy(k - 1) \/ Kind(k) \in ToolKinds
  BY <1>1 DEF ToolBy
<1>4. {Kind(i) : i \in 1..k} = {Kind(i) : i \in 1..(k - 1)} \cup {Kind(k)}
  BY <1>1
<1>5. Kind(k) \in Chat!Reasons => Kind(k) \in Ends(k)
  BY <1>4 DEF ReasonsBy, Ends
<1>6. Kind(k) \notin Chat!Reasons => Ends(k) = Ends(k - 1)
  BY <1>4 DEF ReasonsBy, Ends
<1>7. DueBy(k - 1) \subseteq 1..(k - 1)
  BY DEF DueBy
<1>8. DueBy(k) = IF (target = "same" /\ Kind(k) # "done")
                       \/ (target # "same" /\ Kind(k) \in PieceKinds /\ ~FailedBy(k - 1))
                 THEN DueBy(k - 1) \cup {k} ELSE DueBy(k - 1)
  <2>1. CASE target = "same"
    BY <1>1, <2>1 DEF DueBy
  <2>2. CASE target # "same"
    BY <1>1, <2>2 DEF DueBy, FailedBy
  <2> QED
    BY <2>1, <2>2
<1> QED
  BY <1>2, <1>3, <1>5, <1>6, <1>7, <1>8 DEF Grown

(* After an error nothing more is due.                                                *)
LEMMA NoMoreDue ==
  ASSUME NEW m \in Nat, NEW n \in Nat, m <= n, FailedBy(m)
  PROVE  FailedBy(n) /\ (target # "same" => DueBy(n) = DueBy(m))
<1>1. PICK e \in 1..m : Kind(e) = "error"
  BY DEF FailedBy
<1>2. e \in 1..n
  OBVIOUS
<1>3. ASSUME target # "same" PROVE DueBy(n) = DueBy(m)
  <2>1. \A k \in 1..n : k \in 1..m \/ e \in 1..(k - 1)
    OBVIOUS
  <2>2. \A k \in 1..m : k \in 1..n
    OBVIOUS
  <2> QED
    BY <1>1, <1>3, <2>1, <2>2 DEF DueBy
<1> QED
  BY <1>1, <1>2, <1>3 DEF FailedBy
------------------------------------------------------------------------------------
(* What the frame has made of the first m events.                                     *)
Prepared(s, m) ==
    CASE target = "chat"      -> /\ s.finish \in Ends(m)
                                 /\ s.tool <=> ToolBy(m)
                                 /\ s.calls # {} => s.tool
      [] target = "responses" -> s.finish \in Ends(m)
      [] target = "messages"  -> /\ \E r \in Ends(m) : s.finish = Messages!StopReason(r)
                                 /\ s.tool <=> ToolBy(m)
      [] target = "same"      -> TRUE

Fine(s, m) ==
    /\ s \in Frames
    /\ Got(s, DueBy(m))
    /\ s.over <=> target # "same" /\ FailedBy(m)
    /\ s.over => Tells(s.out, "error")
    /\ ~s.over => Prepared(s, m)

(* What Shows says of a frame, event by event.                                        *)
LEMMA ShowsFine ==
  ASSUME target # "same", UpstreamTyped, NEW k \in 1..Len(upstream.events), NEW s, Fine(s, k - 1), ~s.over,
         NEW t \in Frames, Shows(s, t, Extracted(upstream.events[k]), k),
         ~t.over => Prepared(t, k)
  PROVE  Fine(t, k)
<1>1. k \in Nat \ {0} /\ Grown(k)
  BY OneMore
<1>2. PICK e : e = Extracted(upstream.events[k]) /\ Kind(k) = e.kind
  BY DEF Kind
<1>3. PICK D \in SUBSET Int : D = DueBy(k - 1) /\ (\A d \in D : d < k) /\ Brings(s.out, D)
  <2>1. DueBy(k - 1) \subseteq 1..(k - 1) /\ Brings(s.out, DueBy(k - 1))
    BY <1>1 DEF Grown, Fine, Got
  <2> QED
    BY <2>1
<1>4. ~FailedBy(k - 1)
  BY DEF Fine
<1>5. CASE e.kind \in PieceKinds
  <2>1. Adds(s.out, t.out, {k})
    BY <1>2, <1>5 DEF Shows
  <2>2. PICK K \in SUBSET Int : K = {k}
    <3>1. {k} \in SUBSET Int
      OBVIOUS
    <3> QED
      BY <3>1
  <2>3. Brings(t.out, D \cup K)
    BY <1>3, <2>1, <2>2 DEF Adds
  <2>4. DueBy(k) = D \cup K
    BY <1>1, <1>2, <1>3, <1>4, <1>5, <2>2 DEF Grown
  <2>5. e.kind # "error"
    BY <1>5, KindsDiffer
  <2>6. ~t.over /\ ~FailedBy(k)
    BY <1>1, <1>2, <1>4, <2>5 DEF Shows, Grown
  <2> QED
    BY <2>3, <2>4, <2>6 DEF Fine, Got
<1>6. CASE e.kind \notin PieceKinds
  <2>1. Adds(s.out, t.out, {})
    BY <1>2, <1>6 DEF Shows
  <2>2. PICK K \in SUBSET Int : K = {} /\ D \cup K = D
    <3>1. {} \in SUBSET Int /\ D \cup {} = D
      OBVIOUS
    <3> QED
      BY <3>1
  <2>3. Brings(t.out, D)
    BY <1>3, <2>1, <2>2 DEF Adds
  <2>4. DueBy(k) = D
    BY <1>1, <1>2, <1>3, <1>6 DEF Grown
  <2>5. t.over <=> FailedBy(k)
    BY <1>1, <1>2, <1>4 DEF Shows, Grown
  <2>6. t.over => Tells(t.out, "error")
    BY DEF Shows
  <2> QED
    BY <2>3, <2>4, <2>5, <2>6 DEF Fine, Got
<1> QED
  BY <1>5, <1>6

(* The numbers of the events of an upstream are not those of the added ones.          *)
LEMMA OwnEvents ==
  ASSUME UpstreamTyped, NEW k \in 1..Len(upstream.events)
  PROVE  /\ k \in Known /\ k # Garbled /\ k \in Int /\ EventOf(k) = Extracted(upstream.events[k])
         /\ Extracted(upstream.events[k]).src \in Int /\ Kind(k) = Extracted(upstream.events[k]).kind
<1>1. k \in Known /\ k # Garbled /\ k \in Int
  BY DEF Known, Garbled, UpstreamTyped
<1>2. k # BreakEvent /\ k # DoneEvent
  BY StreamAssumption DEF UpstreamTyped, BreakEvent, DoneEvent
<1>3. EventOf(k) = Extracted(upstream.events[k])
  BY <1>2 DEF EventOf
<1> QED
  BY <1>1, <1>3, EventOfType DEF Kind

(* A converter makes of the next event what it should.                                *)
LEMMA ConvertFine ==
  ASSUME target \in Targets, UpstreamTyped, NEW k \in 1..Len(upstream.events), NEW s, Fine(s, k - 1)
  PROVE  Fine(Convert(s, k), k)
<1>0. /\ k \in Known /\ k # Garbled /\ k \in Int /\ k \in Nat \ {0} /\ EventOf(k) = Extracted(upstream.events[k])
      /\ Extracted(upstream.events[k]).src \in Int /\ Kind(k) = Extracted(upstream.events[k]).kind
  BY OwnEvents
<1>1. PICK t \in Frames : t = Convert(s, k)
  BY <1>0, ConvertType DEF Fine
<1>2. Grown(k)
  BY <1>0, OneMore
<1>3. CASE s.over
  <2>1. t = s /\ target # "same" /\ FailedBy(k - 1)
    BY <1>1, <1>3 DEF Convert, Fine
  <2>2. k - 1 \in Nat /\ k - 1 <= k
    BY <1>0
  <2>3. FailedBy(k) /\ DueBy(k) = DueBy(k - 1)
    BY <1>0, <2>1, <2>2, NoMoreDue
  <2> QED
    BY <1>1, <1>3, <2>1, <2>3 DEF Fine
<1>4. CASE ~s.over /\ target = "same"
  <2>1. s \in SameFrames /\ Passes(s.out, DueBy(k - 1)) /\ DueBy(k - 1) \subseteq 1..(k - 1)
    BY <1>2, <1>4 DEF Fine, Frames, Got, Grown
  <2>2. PICK D \in SUBSET Int : D = DueBy(k - 1) /\ \A d \in D : d < k
    BY <2>1
  <2>3. CASE Kind(k) = "done"
    <3>1. t = s
      BY <1>0, <1>1, <1>4, <2>3 DEF Convert, Same
    <3>2. DueBy(k) = DueBy(k - 1)
      BY <1>2, <1>4, <2>3 DEF Grown
    <3> QED
      BY <1>1, <1>4, <2>1, <3>1, <3>2 DEF Fine, Got, Prepared
  <2>4. CASE Kind(k) # "done"
    <3>1. t = Chat!Emit(s, "block", k, <<>>)
      BY <1>0, <1>1, <1>4, <2>4 DEF Convert, Same
    <3>2. Blocked(s, t, k)
      BY <1>0, <2>1, <3>1, SameEmits
    <3>3. k > 0
      BY <1>0
    <3>4. t.over = s.over /\ Passes(t.out, D \cup {k})
      BY <2>1, <2>2, <3>2, <3>3 DEF Blocked
    <3>5. DueBy(k) = D \cup {k}
      BY <1>2, <1>4, <2>2, <2>4 DEF Grown
    <3> QED
      BY <1>1, <1>4, <3>4, <3>5 DEF Fine, Got, Prepared
  <2> QED
    BY <1>1, <2>3, <2>4
<1>5. PICK e : e = Extracted(upstream.events[k]) /\ e.kind = Kind(k) /\ e.src \in Int
  BY <1>0
<1>6. CASE ~s.over /\ target = "chat"
  <2>1. s \in ChatGoing /\ (s.calls # {} => s.tool) /\ s.finish \in Ends(k - 1) /\ (s.tool <=> ToolBy(k - 1))
    <3>1. Prepared(s, k - 1) /\ s \in ChatGoing \cup ChatEnded
      BY <1>6 DEF Fine, Frames
    <3>2. s \in ChatGoing
      BY <1>6, <3>1 DEF ChatEnded
    <3>3. (s.calls # {} => s.tool) /\ s.finish \in Ends(k - 1) /\ (s.tool <=> ToolBy(k - 1))
      BY <1>6, <3>1 DEF Prepared
    <3> QED
      BY <3>2, <3>3
  <2>2. t = Chat!On(s, e, k)
    BY <1>0, <1>1, <1>5, <1>6 DEF Convert
  <2>3. ChatStep(s, t, e, k)
    BY <1>0, <1>5, <2>1, <2>2, ChatSteps
  <2>4. Shows(s, t, e, k)
    BY <2>3 DEF ChatStep
  <2>5. ASSUME ~t.over PROVE Prepared(t, k)
    <3>1. ChatReads(s, t, e)
      BY <2>3, <2>4, <2>5 DEF ChatStep, Shows
    <3>2. t.finish \in Ends(k)
      BY <1>2, <1>5, <2>1, <3>1 DEF ChatReads, Grown
    <3>3. (t.tool <=> ToolBy(k)) /\ (t.calls # {} => t.tool)
      BY <1>2, <1>5, <2>1, <3>1 DEF ChatReads, Grown
    <3> QED
      BY <1>6, <3>2, <3>3 DEF Prepared
  <2> QED
    BY <1>1, <1>5, <1>6, <2>4, <2>5, ShowsFine
<1>7. CASE ~s.over /\ target = "responses"
  <2>1. s \in ResponsesGoing /\ s.finish \in Ends(k - 1) /\ Responses!Reasons = Chat!Reasons
    BY <1>7 DEF Fine, Frames, ResponsesEnded, Prepared, Responses!Reasons, Chat!Reasons
  <2>2. t = Responses!On(s, e, k)
    BY <1>0, <1>1, <1>5, <1>7 DEF Convert
  <2>3. ResponsesStep(s, t, e, k)
    BY <1>0, <1>5, <2>1, <2>2, ResponsesSteps
  <2>4. Shows(s, t, e, k)
    BY <2>3 DEF ResponsesStep
  <2>5. ASSUME ~t.over PROVE Prepared(t, k)
    <3>1. ResponsesReads(s, t, e)
      BY <2>3, <2>4, <2>5 DEF ResponsesStep, Shows
    <3>2. t.finish \in Ends(k)
      BY <1>2, <1>5, <2>1, <3>1 DEF ResponsesReads, Grown
    <3> QED
      BY <1>7, <3>2 DEF Prepared
  <2> QED
    BY <1>1, <1>5, <1>7, <2>4, <2>5, ShowsFine
<1>8. CASE ~s.over /\ target = "messages"
  <2>1. /\ s \in MessagesGoing /\ (\E r \in Ends(k - 1) : s.finish = Messages!StopReason(r))
        /\ (s.tool <=> ToolBy(k - 1)) /\ Messages!Reasons = Chat!Reasons
    BY <1>8 DEF Fine, Frames, MessagesEnded, Prepared, Messages!Reasons, Chat!Reasons
  <2>2. t = Messages!On(s, e, k)
    BY <1>0, <1>1, <1>5, <1>8 DEF Convert
  <2>3. MessagesStep(s, t, e, k)
    BY <1>0, <1>5, <2>1, <2>2, MessagesSteps
  <2>4. Shows(s, t, e, k)
    BY <2>3 DEF MessagesStep
  <2>5. ASSUME ~t.over PROVE Prepared(t, k)
    <3>1. MessagesReads(s, t, e)
      BY <2>3, <2>4, <2>5 DEF MessagesStep, Shows
    <3>2. \E r \in Ends(k) : t.finish = Messages!StopReason(r)
      BY <1>2, <1>5, <2>1, <3>1 DEF MessagesReads, Grown
    <3>3. t.tool <=> ToolBy(k)
      BY <1>2, <1>5, <2>1, <3>1 DEF MessagesReads, Grown
    <3> QED
      BY <1>8, <3>2, <3>3 DEF Prepared
  <2> QED
    BY <1>1, <1>5, <1>8, <2>4, <2>5, ShowsFine
<1>9. target = "chat" \/ target = "responses" \/ target = "messages" \/ target = "same"
  BY DEF Targets
<1> QED
  BY <1>1, <1>3, <1>4, <1>6, <1>7, <1>8, <1>9

(* The events of a chunk, one after the other.                                        *)
LEMMA FoldFine ==
  ASSUME target \in Targets, UpstreamTyped, NEW a \in Nat \ {0}, NEW b \in Nat, a <= b,
         b <= Len(upstream.events) + 1, NEW s, Fine(s, a - 1)
  PROVE  Fine(FoldLeft(Convert, s, Following(a, b)), b - 1)
<1>1. PICK n \in Nat, l \in Nat : n = Len(upstream.events) /\ l = b - a
  BY DEF UpstreamTyped
<1>2. \A j \in 1..l : (a + j) - 1 \in 1..n /\ ((a + j) - 1) - 1 = (a - 1) + (j - 1) /\ (a + j) - 1 = (a - 1) + j
  BY <1>1
<1>3. PICK es \in Seq(Known \cup {Garbled}) :
         es = Following(a, b) /\ Len(es) = l /\ \A j \in 1..l : es[j] = (a + j) - 1
  <2>1. PICK f : f = [j \in 1..l |-> (a + j) - 1]
    OBVIOUS
  <2>2. \A j \in 1..l : f[j] \in Known \cup {Garbled}
    BY <1>1, <1>2, <2>1 DEF Known
  <2>3. f \in Seq(Known \cup {Garbled}) /\ Len(f) = l
    <3> DEFINE K == Known \cup {Garbled}
    <3>1. f = [j \in 1..l |-> f[j]]
      BY <2>1
    <3>2. \A j \in 1..l : f[j] \in K
      BY <2>2
    <3>3. f \in Seq(K) /\ Len(f) = l
      <4> HIDE DEF K
      <4> QED
        BY <3>1, <3>2, TypedList
    <3> QED
      BY <3>3
  <2>4. f = Following(a, b)
    BY <1>1, <2>1 DEF Following
  <2> QED
    BY <2>1, <2>3, <2>4
<1>4. PICK c \in [0..l -> Frames] :
         /\ c[0] = s
         /\ \A m \in 1..l : c[m] = Convert(c[m - 1], es[m])
         /\ FoldLeft(Convert, s, es) = c[l]
  <2>1. s \in Frames
    BY DEF Fine
  <2>2. PICK c \in [0..Len(es) -> Frames] :
           /\ c[0] = s
           /\ \A m \in 1..Len(es) : c[m] = Convert(c[m - 1], es[m])
           /\ FoldLeft(Convert, s, es) = c[Len(es)]
    BY <1>3, <2>1, ConvertSteps
  <2> QED
    BY <1>3, <2>2
<1> DEFINE G == {m \in 0..l : Fine(c[m], (a - 1) + m)}
<1>5. 0 \in G
  <2>1. (a - 1) + 0 = a - 1 /\ 0 \in 0..l
    OBVIOUS
  <2> QED
    BY <1>4, <2>1
<1>6. ASSUME NEW m \in 1..l, m - 1 \in G PROVE m \in G
  <2>1. PICK k \in 1..n : k = (a + m) - 1 /\ k - 1 = (a - 1) + (m - 1) /\ k = (a - 1) + m
    BY <1>2
  <2>2. Fine(c[m - 1], k - 1)
    BY <1>6, <2>1
  <2>3. Fine(Convert(c[m - 1], k), k)
    BY <1>1, <2>2, ConvertFine
  <2>4. c[m] = Convert(c[m - 1], k) /\ m \in 0..l
    BY <1>3, <1>4, <2>1
  <2> QED
    BY <2>1, <2>3, <2>4
<1>7. l \in G
  <2> HIDE DEF G
  <2>1. \A m \in 0..l : m \in G
    BY <1>5, <1>6, CountingUp
  <2> QED
    BY <2>1
<1>8. (a - 1) + l = b - 1
  BY <1>1
<1> QED
  BY <1>3, <1>4, <1>7, <1>8

(* At the start nothing has been sent.                                                *)
LEMMA OpeningFine ==
  ASSUME target \in Targets, UpstreamTyped
  PROVE  Fine(OpeningOf(target), 0)
<1>1. PICK s \in Frames : s = OpeningOf(target)
  BY OpeningType
<1>2. ~FailedBy(0) /\ ~ToolBy(0) /\ DueBy(0) = {} /\ Ends(0) = {"stop"}
  BY DEF FailedBy, ToolBy, DueBy, Ends, ReasonsBy
<1>3. CASE target = "chat"
  <2>1. PICK c : c = Chat!Chunk("role", 0, <<>>)
    OBVIOUS
  <2>2. s.out = <<c>> /\ s.over = FALSE /\ s.tool = FALSE /\ s.calls = {} /\ s.finish = "stop"
    BY <1>1, <1>3, <2>1 DEF OpeningOf, Chat!Opening
  <2>3. c.type = "role"
    BY <2>1 DEF Chat!Chunk
  <2>4. Brings(s.out, {})
    BY <2>2, <2>3 DEF Brings, PlacesIn, Pieces
  <2>5. Prepared(s, 0)
    BY <1>2, <1>3, <2>2 DEF Prepared
  <2> QED
    BY <1>1, <1>2, <1>3, <2>2, <2>4, <2>5 DEF Fine, Got
<1>4. CASE target = "responses"
  <2>1. PICK c, d : c = Responses!Chunk("created", 0, <<>>) /\ d = Responses!Chunk("in_progress", 0, <<>>)
    OBVIOUS
  <2>2. s.out = <<c, d>> /\ s.over = FALSE /\ s.finish = "stop"
    BY <1>1, <1>4, <2>1 DEF OpeningOf, Responses!Opening
  <2>3. c.type = "created" /\ d.type = "in_progress"
    BY <2>1 DEF Responses!Chunk
  <2>4. Brings(s.out, {})
    BY <2>2, <2>3 DEF Brings, PlacesIn, Pieces
  <2>5. Prepared(s, 0)
    BY <1>2, <1>4, <2>2 DEF Prepared
  <2> QED
    BY <1>1, <1>2, <1>4, <2>2, <2>4, <2>5 DEF Fine, Got
<1>5. CASE target = "messages"
  <2>1. PICK c : c = Messages!Chunk("message_start", 0, <<>>)
    OBVIOUS
  <2>2. s.out = <<c>> /\ s.over = FALSE /\ s.tool = FALSE /\ s.finish = Messages!StopReason("stop")
    BY <1>1, <1>5, <2>1 DEF OpeningOf, Messages!Opening, Messages!StopReason
  <2>3. c.type = "message_start"
    BY <2>1 DEF Messages!Chunk
  <2>4. Brings(s.out, {})
    BY <2>2, <2>3 DEF Brings, PlacesIn, Pieces
  <2>5. Prepared(s, 0)
    BY <1>2, <1>5, <2>2 DEF Prepared
  <2> QED
    BY <1>1, <1>2, <1>5, <2>2, <2>4, <2>5 DEF Fine, Got
<1>6. CASE target = "same"
  <2>1. s.out = <<>> /\ s.over = FALSE
    BY <1>1, <1>6 DEF OpeningOf
  <2>2. Passes(s.out, {})
    BY <2>1 DEF Passes, BlocksIn
  <2> QED
    BY <1>1, <1>2, <1>6, <2>1, <2>2 DEF Fine, Got, Prepared
<1> QED
  BY <1>1, <1>3, <1>4, <1>5, <1>6 DEF Targets
------------------------------------------------------------------------------------
(* What a client has been told of the first m events when the stream is over.         *)
Outcome(o, m) ==
    CASE target = "chat"      -> \E r \in Ends(m) :
                                    Tells(o, IF ToolBy(m) /\ r = "stop" THEN "tool_calls" ELSE r)
      [] target = "responses" -> \E r \in Ends(m) :
                                    Tells(o, IF r = "length" THEN "incomplete" ELSE "completed")
      [] target = "messages"  -> \E r \in Ends(m) :
                                    Tells(o, IF ToolBy(m) /\ Messages!StopReason(r) = "end_turn"
                                             THEN "tool_use" ELSE Messages!StopReason(r))
      [] target = "same"      -> TRUE

Concluded(o, m) == IF target # "same" /\ FailedBy(m) THEN Tells(o, "error") ELSE Outcome(o, m)

(* Chunks that carry no event change nothing of what the client has.                  *)
LEMMA AddsKeeps ==
  ASSUME NEW o, NEW p, Adds(o, p, {}), NEW D \in SUBSET Int, Brings(o, D)
  PROVE  Brings(p, D)
<1>1. PICK K \in SUBSET Int : K = {} /\ D \cup K = D
  <2>1. {} \in SUBSET Int /\ D \cup {} = D
    OBVIOUS
  <2> QED
    BY <2>1
<1> QED
  BY <1>1 DEF Adds

(* The end of the upstream: the client has what it had, and the outcome.              *)
LEMMA FinishedGot ==
  ASSUME target \in Targets, NEW s \in Frames, NEW D \in SUBSET Int, Got(s, D)
  PROVE  Got(Finished(s), D)
<1>1. CASE s.over
  BY <1>1 DEF Finished
<1>2. CASE ~s.over /\ target = "same"
  BY <1>2 DEF Finished, Got, Frames, SameFrames
<1>3. CASE ~s.over /\ target = "chat"
  <2>1. s \in ChatGoing
    BY <1>3 DEF Frames, ChatEnded
  <2> QED
    BY <1>3, <2>1, ChatCloses, AddsKeeps DEF Finished, Got
<1>4. CASE ~s.over /\ target = "responses"
  <2>1. s \in ResponsesGoing
    BY <1>4 DEF Frames, ResponsesEnded
  <2> QED
    BY <1>4, <2>1, ResponsesCloses, AddsKeeps DEF Finished, Got
<1>5. CASE ~s.over /\ target = "messages"
  <2>1. s \in MessagesGoing
    BY <1>5 DEF Frames, MessagesEnded
  <2> QED
    BY <1>5, <2>1, MessagesCloses, AddsKeeps DEF Finished, Got
<1> QED
  BY <1>1, <1>2, <1>3, <1>4, <1>5 DEF Targets

(* Once over, the chunks tell the outcome the events called for.                      *)
LEMMA FinishedOutcome ==
  ASSUME target \in Targets, NEW m \in Nat, NEW s, Fine(s, m)
  PROVE  Concluded(Finished(s).out, m)
<1>1. CASE s.over
  BY <1>1 DEF Finished, Fine, Concluded
<1>2. CASE ~s.over /\ target = "same"
  BY <1>2 DEF Concluded, Outcome
<1>3. CASE ~s.over /\ target = "chat"
  <2>1. s \in ChatGoing
    BY <1>3 DEF Fine, Frames, ChatEnded
  <2>2. ~FailedBy(m) /\ Prepared(s, m)
    BY <1>3 DEF Fine
  <2>3. s.finish \in Ends(m) /\ (s.tool <=> ToolBy(m))
    BY <1>3, <2>2 DEF Prepared
  <2>4. Tells(Finished(s).out, IF s.tool /\ s.finish = "stop" THEN "tool_calls" ELSE s.finish)
    BY <1>3, <2>1, ChatCloses DEF Finished
  <2>5. Tells(Finished(s).out, IF ToolBy(m) /\ s.finish = "stop" THEN "tool_calls" ELSE s.finish)
    BY <2>3, <2>4
  <2> QED
    BY <1>3, <2>2, <2>3, <2>5 DEF Concluded, Outcome
<1>4. CASE ~s.over /\ target = "responses"
  <2>1. s \in ResponsesGoing
    BY <1>4 DEF Fine, Frames, ResponsesEnded
  <2>2. ~FailedBy(m) /\ s.finish \in Ends(m)
    BY <1>4 DEF Fine, Prepared
  <2>3. Tells(Finished(s).out, ResponsesFinal(s))
    BY <1>4, <2>1, ResponsesCloses DEF Finished
  <2> QED
    BY <1>4, <2>2, <2>3 DEF Concluded, Outcome, ResponsesFinal
<1>5. CASE ~s.over /\ target = "messages"
  <2>1. s \in MessagesGoing
    BY <1>5 DEF Fine, Frames, MessagesEnded
  <2>2. ~FailedBy(m) /\ Prepared(s, m)
    BY <1>5 DEF Fine
  <2>3. PICK r \in Ends(m) : s.finish = Messages!StopReason(r)
    BY <1>5, <2>2 DEF Prepared
  <2>4. s.tool <=> ToolBy(m)
    BY <1>5, <2>2 DEF Prepared
  <2>5. Tells(Finished(s).out, MessagesFinal(s))
    BY <1>5, <2>1, MessagesCloses DEF Finished
  <2>6. Tells(Finished(s).out, IF ToolBy(m) /\ Messages!StopReason(r) = "end_turn"
                               THEN "tool_use" ELSE Messages!StopReason(r))
    BY <2>3, <2>4, <2>5 DEF MessagesFinal
  <2> QED
    BY <1>5, <2>2, <2>6 DEF Concluded, Outcome
<1> QED
  BY <1>1, <1>2, <1>3, <1>4, <1>5 DEF Targets
------------------------------------------------------------------------------------
(* The fold over no event, and over one.                                              *)
LEMMA FoldNone ==
  ASSUME target \in Targets, UpstreamTyped, NEW s \in Frames
  PROVE  FoldLeft(Convert, s, <<>>) = s
<1>1. PICK none \in Seq(Known \cup {Garbled}) : none = <<>> /\ Len(none) = 0
  <2>1. <<>> \in Seq(Known \cup {Garbled}) /\ Len(<<>>) = 0
    OBVIOUS
  <2> QED
    BY <2>1
<1>2. PICK c \in [0..Len(none) -> Frames] : c[0] = s /\ FoldLeft(Convert, s, none) = c[Len(none)]
  BY ConvertSteps
<1> QED
  BY <1>1, <1>2

(* A chunk of one event is one step.                                                  *)
LEMMA FoldOne ==
  ASSUME target \in Targets, UpstreamTyped, NEW s \in Frames, NEW k \in Known \cup {Garbled}
  PROVE  FoldLeft(Convert, s, <<k>>) = Convert(s, k)
<1>1. PICK one \in Seq(Known \cup {Garbled}) : one = <<k>> /\ Len(one) = 1 /\ one[1] = k
  <2> DEFINE K == Known \cup {Garbled}
  <2>1. <<k>> \in Seq(K) /\ Len(<<k>>) = 1 /\ <<k>>[1] = k
    <3>1. k \in K
      OBVIOUS
    <3> HIDE DEF K
    <3> QED
      BY <3>1
  <2> QED
    BY <2>1
<1>2. PICK c \in [0..Len(one) -> Frames] :
         /\ c[0] = s
         /\ \A m \in 1..Len(one) : c[m] = Convert(c[m - 1], one[m])
         /\ FoldLeft(Convert, s, one) = c[Len(one)]
  BY ConvertSteps
<1>3. 1 \in 1..1 /\ 1 - 1 = 0
  OBVIOUS
<1>4. c[1] = Convert(c[0], k)
  BY <1>1, <1>2, <1>3
<1> QED
  BY <1>1, <1>2, <1>4

(* The events safe_upstream_stream adds carry nothing,                                *)
Added == {BreakEvent, DoneEvent, Garbled}

Ready(s) == s \in Frames /\ (target = "chat" /\ ~s.over /\ s.calls # {} => s.tool)

(* which are no events of the upstream,                                               *)
LEMMA AddedAre ==
  /\ BreakEvent = 0 /\ DoneEvent \in Nat \ {0} /\ Garbled = -1
  /\ EventOf(BreakEvent) = Event("error", 0) /\ EventOf(DoneEvent) = Event("done", 0)
<1>1. BreakEvent = 0 /\ DoneEvent \in Nat \ {0} /\ Garbled = -1
  BY StreamAssumption DEF BreakEvent, DoneEvent, Garbled
<1>2. EventOf(BreakEvent) = Event("error", 0)
  BY <1>1 DEF EventOf
<1>3. EventOf(DoneEvent) = Event("done", 0)
  BY <1>1 DEF EventOf
<1> QED
  BY <1>1, <1>2, <1>3

(* so a frame has made no less and no more when it has converted them.                *)
LEMMA AddedGot ==
  ASSUME target \in Targets, UpstreamTyped, NEW s, Ready(s), NEW k \in Added, NEW D \in SUBSET Int, Got(s, D)
  PROVE  Got(Convert(s, k), D)
<1>0. k \in Int /\ (~(k > 0) \/ k = DoneEvent)
  BY AddedAre DEF Added
<1>1. CASE s.over
  BY <1>1 DEF Convert
<1>2. CASE ~s.over /\ target = "same"
  <2>1. CASE k = DoneEvent
    <3>1. Convert(s, k) = s
      BY <1>2, <2>1, AddedAre DEF Convert, Same, Event
    <3> QED
      BY <3>1
  <2>2. CASE k # DoneEvent
    <3>1. k = Garbled \/ EventOf(k).kind # "done"
      BY <2>2, AddedAre DEF Added, Event
    <3>2. PICK t : t = Chat!Emit(s, "block", k, <<>>) /\ t = Convert(s, k)
      BY <1>2, <3>1 DEF Convert, Same
    <3>3. s \in SameFrames /\ Passes(s.out, D)
      BY <1>2 DEF Ready, Frames, Got
    <3>4. Blocked(s, t, k)
      BY <1>0, <3>2, <3>3, SameEmits
    <3>5. Passes(t.out, D)
      BY <1>0, <2>2, <3>3, <3>4 DEF Blocked
    <3> QED
      BY <1>2, <3>2, <3>5 DEF Got
  <2> QED
    BY <2>1, <2>2
<1>3. CASE ~s.over /\ target # "same" /\ k = Garbled
  BY <1>3 DEF Convert
<1>4. CASE ~s.over /\ target # "same" /\ k # Garbled
  <2>1. PICK e : e = EventOf(k) /\ e.src \in Int /\ e.kind \notin PieceKinds
    <3>1. k = BreakEvent \/ k = DoneEvent
      BY <1>4 DEF Added
    <3> QED
      BY <3>1, AddedAre DEF Event, PieceKinds
  <2>2. PICK t : t = Convert(s, k)
    OBVIOUS
  <2>3. Shows(s, t, e, k)
    <3>1. CASE target = "chat"
      <4>1. s \in ChatGoing /\ (s.calls # {} => s.tool)
        BY <1>4, <3>1 DEF Ready, Frames, ChatEnded
      <4>2. ChatStep(s, Chat!On(s, e, k), e, k)
        BY <1>0, <2>1, <4>1, ChatSteps
      <4>3. t = Chat!On(s, e, k)
        BY <1>4, <2>1, <2>2, <3>1 DEF Convert
      <4> QED
        BY <4>2, <4>3 DEF ChatStep
    <3>2. CASE target = "responses"
      <4>1. s \in ResponsesGoing
        BY <1>4, <3>2 DEF Ready, Frames, ResponsesEnded
      <4>2. ResponsesStep(s, Responses!On(s, e, k), e, k)
        BY <1>0, <2>1, <4>1, ResponsesSteps
      <4>3. t = Responses!On(s, e, k)
        BY <1>4, <2>1, <2>2, <3>2 DEF Convert
      <4> QED
        BY <4>2, <4>3 DEF ResponsesStep
    <3>3. CASE target = "messages"
      <4>1. s \in MessagesGoing
        BY <1>4, <3>3 DEF Ready, Frames, MessagesEnded
      <4>2. MessagesStep(s, Messages!On(s, e, k), e, k)
        BY <1>0, <2>1, <4>1, MessagesSteps
      <4>3. t = Messages!On(s, e, k)
        BY <1>4, <2>1, <2>2, <3>3 DEF Convert
      <4> QED
        BY <4>2, <4>3 DEF MessagesStep
    <3> QED
      BY <1>4, <3>1, <3>2, <3>3 DEF Targets
  <2>4. Adds(s.out, t.out, {})
    BY <2>1, <2>3 DEF Shows
  <2> QED
    BY <1>4, <2>2, <2>4, AddsKeeps DEF Got
<1> QED
  BY <1>1, <1>2, <1>3, <1>4

(* an error event is told, and nothing follows it;                                    *)
LEMMA BreakTold ==
  ASSUME target \in Targets, UpstreamTyped, NEW s, Ready(s), ~s.over, NEW t, t = Convert(s, BreakEvent)
  PROVE  /\ target = "same" => \E i \in PlacesIn(t.out, {"block"}) : t.out[i].item = BreakEvent
         /\ target # "same" => t.over /\ Tells(t.out, "error")
<1>1. PICK k \in Int : k = BreakEvent /\ k # Garbled
  BY AddedAre
<1>2. PICK e : e = EventOf(k) /\ e.src \in Int /\ e.kind = "error"
  BY <1>1, AddedAre DEF Event
<1>3. CASE target = "same"
  <2>1. t = Chat!Emit(s, "block", k, <<>>) /\ s \in SameFrames
    BY <1>1, <1>2, <1>3 DEF Convert, Same, Ready, Frames
  <2> QED
    BY <1>1, <1>3, <2>1, SameEmits DEF Blocked
<1>4. CASE target = "chat"
  <2>1. s \in ChatGoing /\ (s.calls # {} => s.tool)
    BY <1>4 DEF Ready, Frames, ChatEnded
  <2>2. ChatStep(s, Chat!On(s, e, k), e, k)
    BY <1>2, <2>1, ChatSteps
  <2>3. t = Chat!On(s, e, k)
    BY <1>1, <1>2, <1>4 DEF Convert
  <2> QED
    BY <1>2, <1>4, <2>2, <2>3 DEF ChatStep, Shows
<1>5. CASE target = "responses"
  <2>1. s \in ResponsesGoing
    BY <1>5 DEF Ready, Frames, ResponsesEnded
  <2>2. ResponsesStep(s, Responses!On(s, e, k), e, k)
    BY <1>2, <2>1, ResponsesSteps
  <2>3. t = Responses!On(s, e, k)
    BY <1>1, <1>2, <1>5 DEF Convert
  <2> QED
    BY <1>2, <1>5, <2>2, <2>3 DEF ResponsesStep, Shows
<1>6. CASE target = "messages"
  <2>1. s \in MessagesGoing
    BY <1>6 DEF Ready, Frames, MessagesEnded
  <2>2. MessagesStep(s, Messages!On(s, e, k), e, k)
    BY <1>2, <2>1, MessagesSteps
  <2>3. t = Messages!On(s, e, k)
    BY <1>1, <1>2, <1>6 DEF Convert
  <2> QED
    BY <1>2, <1>6, <2>2, <2>3 DEF MessagesStep, Shows
<1> QED
  BY <1>3, <1>4, <1>5, <1>6 DEF Targets

(* the [DONE] after it is skipped, and what cannot be read leaves a frame as ready.   *)
LEMMA AddedSkipped ==
  ASSUME target \in Targets, NEW s
  PROVE  /\ s.over \/ target = "same" => Convert(s, DoneEvent) = s
         /\ target # "same" => Convert(s, Garbled) = s
  BY AddedAre DEF Convert, Same, Event
------------------------------------------------------------------------------------
(* The events whose terminator is among the first p symbols.                          *)
CompleteBy(p) == EventAt(p, upstream.crlf) - 1

(* When the stream is over the client has all that is due, and knows how it ended.    *)
Settled(s, b, m, how) ==
    /\ Len(b) < Size(upstream)
    /\ Got(s, DueBy(m))
    /\ how = "no" => Concluded(s.out, m)
    /\ how = "between" => IF target = "same"
                          THEN \E i \in PlacesIn(s.out, {"block"}) : s.out[i].item = BreakEvent
                          ELSE Tells(s.out, "error")

(* While it goes on, the text held back is what has arrived of the next event, and    *)
(* the frame has made what it should of the events before.                            *)
Holds(s, b, p, how) ==
    /\ p \in 0..Len(Wire(upstream))
    /\ how \in {"no", "between", "within"}
    /\ ~s.over => how = "no" /\ b = Buffered(p, upstream.crlf) /\ Fine(s, CompleteBy(p))
    /\ s.over => Settled(s, b, IF how = "no" THEN Len(upstream.events) ELSE CompleteBy(p), how)

StreamInv == IndInv /\ Holds(st, buffer, pos, broken)

(* Sizes and positions.                                                               *)
LEMMA SizeIs ==
  ASSUME UpstreamTyped
  PROVE  Size(upstream) = SizeOf(upstream.crlf)
<1>1. upstream.crlf \in BOOLEAN
  BY DEF UpstreamTyped
<1>2. CASE upstream.crlf
  BY <1>2 DEF Size, SizeOf, Terminator
<1>3. CASE ~upstream.crlf
  BY <1>3 DEF Size, SizeOf, Terminator
<1> QED
  BY <1>1, <1>2, <1>3

(* Every upstream of the model is typed, and its wire reads as its events.            *)
LEMMA UpstreamWire ==
  ASSUME upstream \in Upstreams
  PROVE  UpstreamTyped /\ WireReads(Wire(upstream))
<1>1. UpstreamTyped
  BY UpstreamType
<1>2. CASE upstream.ended
  BY <1>1, <1>2, WireIs
<1>3. CASE ~upstream.ended
  <2>1. Len(upstream.events) \in 1..SplitEvents
    BY <1>3 DEF Upstreams
  <2>2. Len(upstream.events) # 0
    BY <2>1, StreamAssumption
  <2> QED
    BY <1>1, <2>2, WireIs
<1> QED
  BY <1>1, <1>2, <1>3

(* What stands at a position of the wire: at most so many events, and the last one    *)
(* may lack its terminator.                                                           *)
LEMMA PositionIs ==
  ASSUME upstream \in Upstreams, NEW p \in 0..Len(Wire(upstream))
  PROVE  /\ CompleteBy(p) \in 0..Len(upstream.events)
         /\ CompleteBy(p) + 1 = EventAt(p, upstream.crlf)
         /\ OffsetAt(p, upstream.crlf) \in 0..(SizeOf(upstream.crlf) - 1)
         /\ CompleteBy(p) = p \div Size(upstream)
<1>1. UpstreamTyped /\ WireReads(Wire(upstream))
  BY UpstreamWire
<1>2. PICK l \in Nat, n \in Nat, crlf \in BOOLEAN :
         l = Len(Wire(upstream)) /\ n = Len(upstream.events) /\ crlf = upstream.crlf
  <2>1. Wire(upstream) \in Seq(Text) /\ Len(upstream.events) \in Nat /\ upstream.crlf \in BOOLEAN
    BY <1>1 DEF WireReads, UpstreamTyped
  <2>2. Len(Wire(upstream)) \in Nat
    <3> HIDE DEF Text
    <3> QED
      BY <2>1
  <2> QED
    BY <2>1, <2>2
<1>3. p \in Nat /\ l - p \in Nat /\ p + (l - p) = l
  BY <1>2
<1>4. PICK e \in Nat \ {0}, f \in Nat \ {0} : /\ e = EventAt(p, crlf) /\ f = EventAt(l, crlf) /\ e <= f
                                              /\ OffsetAt(p, crlf) \in 0..(SizeOf(crlf) - 1)
  <2>1. /\ EventAt(p, crlf) \in Nat \ {0} /\ EventAt(l, crlf) \in Nat \ {0}
        /\ OffsetAt(p, crlf) \in 0..(SizeOf(crlf) - 1)
    BY <1>2, <1>3, PositionType
  <2>2. EventAt(p, crlf) <= EventAt(p + (l - p), crlf)
    BY <1>2, <1>3, PositionsOrdered
  <2>3. EventAt(p, crlf) <= EventAt(l, crlf)
    BY <1>3, <2>2
  <2> QED
    BY <2>1, <2>3
<1>5. f = n + 1 \/ f = n
  BY <1>1, <1>2, <1>4 DEF WireReads, WireEnd
<1>6. CompleteBy(p) = e - 1 /\ e - 1 \in 0..n /\ (e - 1) + 1 = e
  BY <1>2, <1>4, <1>5 DEF CompleteBy
<1>7. e = (p \div Size(upstream)) + 1
  BY <1>1, <1>2, <1>4, SizeIs DEF EventAt
<1>8. p \div Size(upstream) = e - 1
  <2>1. CASE crlf
    <3>1. Size(upstream) = 6
      BY <1>1, <1>2, <2>1, SizeIs DEF SizeOf
    <3> QED
      BY <1>3, <1>7, <3>1
  <2>2. CASE ~crlf
    <3>1. Size(upstream) = 4
      BY <1>1, <1>2, <2>2, SizeIs DEF SizeOf
    <3> QED
      BY <1>3, <1>7, <3>1
  <2> QED
    BY <2>1, <2>2
<1> QED
  BY <1>2, <1>4, <1>6, <1>8

(* What is held back is shorter than an event.                                        *)
LEMMA BufferShort ==
  ASSUME upstream \in Upstreams, NEW p \in 0..Len(Wire(upstream))
  PROVE  /\ Len(Buffered(p, upstream.crlf)) < Size(upstream) /\ Len(<<>>) < Size(upstream)
         /\ Buffered(p, upstream.crlf) = <<>> <=> OffsetAt(p, upstream.crlf) = 0
<1>1. PICK k \in Int, c \in BOOLEAN, o \in 0..(SizeOf(upstream.crlf) - 1) :
         k = EventAt(p, upstream.crlf) /\ c = upstream.crlf /\ o = OffsetAt(p, upstream.crlf)
  <2>1. CompleteBy(p) \in Int /\ CompleteBy(p) + 1 = EventAt(p, upstream.crlf)
    BY PositionIs, UpstreamType DEF UpstreamTyped
  <2>2. EventAt(p, upstream.crlf) \in Int /\ OffsetAt(p, upstream.crlf) \in 0..(SizeOf(upstream.crlf) - 1)
    BY <2>1, PositionIs
  <2>3. upstream.crlf \in BOOLEAN
    BY UpstreamType DEF UpstreamTyped
  <2> QED
    BY <2>2, <2>3
<1>2. PICK z \in {4, 6} : z = SizeOf(c) /\ z = Size(upstream)
  BY <1>1, UpstreamType, SizeIs DEF SizeOf
<1>3. Len(Held(k, o, c)) \in 0..(SizeOf(c) - 1) /\ (Held(k, o, c) = <<>> <=> o = 0)
  BY <1>1, HeldShort
<1>4. Len(<<>>) = 0
  OBVIOUS
<1> QED
  BY <1>1, <1>2, <1>3, <1>4 DEF Buffered
------------------------------------------------------------------------------------
(* A chunk: its whole events are converted, what follows them is held back.           *)
LEMMA ReceiveReads ==
  ASSUME StreamInv, ~st.over, NEW n \in Nat, pos + n <= Len(Wire(upstream))
  PROVE  LET r == Receiving(Now, SubSeq(Wire(upstream), pos + 1, pos + n))
         IN  r.buffer = Buffered(pos + n, upstream.crlf) /\ Fine(r.st, CompleteBy(pos + n))
<1>1. /\ target \in Targets /\ upstream \in Upstreams /\ UpstreamTyped /\ WireReads(Wire(upstream))
      /\ pos \in 0..Len(Wire(upstream)) /\ buffer = Buffered(pos, upstream.crlf) /\ Fine(st, CompleteBy(pos))
  BY UpstreamWire DEF StreamInv, IndInv, Holds
<1>2. PICK w \in Seq(Text), l \in Nat, crlf \in BOOLEAN, q \in Nat :
         /\ w = Wire(upstream) /\ l = Len(w) /\ crlf = upstream.crlf /\ q = pos /\ OnWire(w, 0, crlf)
  <2>1. Wire(upstream) \in Seq(Text) /\ OnWire(Wire(upstream), 0, upstream.crlf) /\ upstream.crlf \in BOOLEAN
    BY <1>1 DEF WireReads, UpstreamTyped
  <2>2. Len(Wire(upstream)) \in Nat
    <3> HIDE DEF Text
    <3> QED
      BY <2>1
  <2>3. pos \in Nat
    BY <1>1, <2>2
  <2> QED
    BY <2>1, <2>2, <2>3
<1>3. PICK chunk \in Seq(Text) : /\ chunk = SubSeq(w, q + 1, q + n)
                                 /\ Len(chunk) = n /\ OnWire(chunk, q, crlf)
  <2>1. q + n <= Len(w)
    BY <1>2
  <2>2. PartOfWire(SubSeq(w, q + 1, q + n), q, n, crlf)
    BY <1>2, <2>1, ChunkOnWire
  <2> QED
    BY <2>2 DEF PartOfWire
<1>4. PICK p \in Nat : p = q + n /\ p \in 0..l
  <2>1. q + n \in Nat /\ q + n \in 0..l
    BY <1>2
  <2> QED
    BY <2>1
<1>5. PICK a \in Nat \ {0}, b \in Nat \ {0} :
         /\ a = EventAt(q, crlf) /\ b = EventAt(p, crlf) /\ a <= b
         /\ a - 1 = CompleteBy(q) /\ b - 1 = CompleteBy(p) /\ b <= Len(upstream.events) + 1
  <2>1. EventAt(q, crlf) \in Nat \ {0} /\ EventAt(p, crlf) \in Nat \ {0}
    BY <1>4, PositionType
  <2>2. EventAt(q, crlf) <= EventAt(p, crlf)
    BY <1>4, PositionsOrdered
  <2>3. CompleteBy(q) + 1 = EventAt(q, crlf) /\ CompleteBy(q) \in 0..Len(upstream.events)
    BY <1>1, <1>2, PositionIs
  <2>4. CompleteBy(p) + 1 = EventAt(p, crlf) /\ CompleteBy(p) \in 0..Len(upstream.events)
    BY <1>1, <1>2, <1>4, PositionIs
  <2>5. Len(upstream.events) \in Nat
    BY <1>1 DEF UpstreamTyped
  <2>6. CompleteBy(q) = EventAt(q, crlf) - 1 /\ CompleteBy(p) = EventAt(p, crlf) - 1
        /\ EventAt(p, crlf) <= Len(upstream.events) + 1
    <3>1. PICK m \in Nat : m = Len(upstream.events)
      BY <2>5
    <3>2. PICK c \in 0..m : c = CompleteBy(q) /\ EventAt(q, crlf) = c + 1
      BY <2>3, <3>1
    <3>3. PICK d \in 0..m : d = CompleteBy(p) /\ EventAt(p, crlf) = d + 1
      BY <2>4, <3>1
    <3>4. c = (c + 1) - 1 /\ d = (d + 1) - 1 /\ d + 1 <= m + 1
      OBVIOUS
    <3> QED
      BY <3>1, <3>2, <3>3, <3>4
  <2> QED
    BY <2>1, <2>2, <2>6
<1>6. Split(Buffered(q, crlf) \o chunk) = [events |-> Following(a, b), rest |-> Buffered(p, crlf)]
  <2>1. p = q + Len(chunk)
    BY <1>3, <1>4
  <2> HIDE DEF Text
  <2> QED
    BY <1>3, <1>5, <2>1, SplitReads, ZenonT(40)
<1>7. PICK x : x = Split(Buffered(q, crlf) \o chunk) /\ x.events = Following(a, b) /\ x.rest = Buffered(p, crlf)
  BY <1>6
<1>8. Fine(FoldLeft(Convert, st, Following(a, b)), b - 1)
  BY <1>1, <1>2, <1>5, FoldFine
<1>9. PICK r : r = Receiving(Now, chunk)
  OBVIOUS
<1>10. r.buffer = x.rest /\ r.st = FoldLeft(Convert, st, x.events)
  BY <1>1, <1>2, <1>7, <1>9 DEF Receiving, Now
<1> QED
  BY <1>2, <1>3, <1>4, <1>5, <1>7, <1>8, <1>9, <1>10

(* Receive keeps the invariant: however the bytes are cut, the buffer is again what   *)
(* has arrived of one event, and the frame has converted all before.                  *)
LEMMA ReceiveHolds ==
  ASSUME StreamInv, ~st.over, NEW n \in Nat, pos + n <= Len(Wire(upstream)),
         NEW r, r = Receiving(Now, SubSeq(Wire(upstream), pos + 1, pos + n))
  PROVE  Holds(r.st, r.buffer, pos + n, broken)
<1>1. /\ target \in Targets /\ upstream \in Upstreams /\ UpstreamTyped
      /\ pos \in 0..Len(Wire(upstream)) /\ broken = "no" /\ Len(Wire(upstream)) \in Nat
  <2>1. WireReads(Wire(upstream))
    BY UpstreamWire DEF StreamInv, IndInv
  <2>2. Len(Wire(upstream)) \in Nat
    <3>1. Wire(upstream) \in Seq(Text)
      BY <2>1 DEF WireReads
    <3> HIDE DEF Text
    <3> QED
      BY <3>1
  <2> QED
    BY <2>2, UpstreamWire DEF StreamInv, IndInv, Holds
<1>2. PICK p \in 0..Len(Wire(upstream)) : p = pos + n
  BY <1>1
<1>3. r.buffer = Buffered(p, upstream.crlf) /\ Fine(r.st, CompleteBy(p))
  BY <1>2, ReceiveReads
<1>4. CASE r.st.over
  <2>1. PICK m \in Nat, e \in Nat : m = CompleteBy(p) /\ e = Len(upstream.events) /\ m <= e
    BY <1>1, PositionIs DEF UpstreamTyped
  <2>2. /\ target # "same" /\ FailedBy(m) /\ Tells(r.st.out, "error") /\ Got(r.st, DueBy(m))
    BY <1>3, <1>4, <2>1 DEF Fine
  <2>3. FailedBy(e) /\ DueBy(e) = DueBy(m)
    BY <2>1, <2>2, NoMoreDue
  <2>4. Len(r.buffer) < Size(upstream)
    BY <1>1, <1>3, BufferShort
  <2>5. Settled(r.st, r.buffer, e, "no")
    BY <2>2, <2>3, <2>4 DEF Settled, Concluded
  <2> QED
    BY <1>1, <1>2, <1>4, <2>1, <2>5 DEF Holds
<1>5. CASE ~r.st.over
  BY <1>1, <1>2, <1>3, <1>5 DEF Holds
<1> QED
  BY <1>4, <1>5

(* The end of the upstream: the event that lacks its terminator is read, and the      *)
(* stream is over.                                                                    *)
LEMMA FinishHolds ==
  ASSUME StreamInv, ~st.over, pos = Len(Wire(upstream)), NEW r, r = Ending(Now)
  PROVE  Holds(r.st, r.buffer, pos, broken)
<1>1. /\ target \in Targets /\ upstream \in Upstreams /\ UpstreamTyped /\ WireReads(Wire(upstream))
      /\ pos \in 0..Len(Wire(upstream)) /\ broken = "no"
      /\ buffer = Buffered(pos, upstream.crlf) /\ Fine(st, CompleteBy(pos)) /\ st \in Frames
  BY UpstreamWire DEF StreamInv, IndInv, Holds
<1>2. PICK n \in Nat, a \in Nat \ {0}, crlf \in BOOLEAN :
         /\ n = Len(upstream.events) /\ crlf = upstream.crlf /\ a = EventAt(pos, crlf) /\ a - 1 = CompleteBy(pos)
  <2>1. CompleteBy(pos) \in 0..Len(upstream.events) /\ CompleteBy(pos) + 1 = EventAt(pos, upstream.crlf)
    BY <1>1, PositionIs
  <2>2. Len(upstream.events) \in Nat /\ upstream.crlf \in BOOLEAN
    BY <1>1 DEF UpstreamTyped
  <2>3. EventAt(pos, upstream.crlf) \in Nat \ {0} /\ EventAt(pos, upstream.crlf) - 1 = CompleteBy(pos)
    BY <2>1, <2>2
  <2> QED
    BY <2>2, <2>3
<1>3. PICK s : s = FoldLeft(Convert, st, Flush(buffer)) /\ Fine(s, n)
  <2>1. CASE upstream.ended
    <3>1. a = n + 1 /\ OffsetAt(pos, crlf) = 0
      BY <1>1, <1>2, <2>1 DEF WireReads, WireEnd
    <3>2. buffer = <<>>
      BY <1>1, <1>2, <3>1, BufferShort
    <3>3. FoldLeft(Convert, st, Flush(buffer)) = st
      BY <1>1, <3>2, FlushNothing, FoldNone
    <3>4. CompleteBy(pos) = n
      BY <1>2, <3>1
    <3> QED
      BY <1>1, <3>3, <3>4
  <2>2. CASE ~upstream.ended
    <3>1. a = n /\ OffsetAt(pos, crlf) = 2
      BY <1>1, <1>2, <2>2 DEF WireReads, WireEnd
    <3>2. buffer = Whole(n)
      <4>1. buffer = Held(n, 2, crlf)
        BY <1>1, <1>2, <3>1 DEF Buffered
      <4> QED
        BY <4>1 DEF Held, Pending, Clear, Whole
    <3>3. n \in 1..Len(upstream.events) /\ n \in Int
      BY <1>2, <3>1
    <3>4. Flush(buffer) = <<n>>
      BY <3>2, <3>3, FlushWhole
    <3>5. n \in Known \cup {Garbled}
      BY <3>3 DEF Known
    <3>6. FoldLeft(Convert, st, <<n>>) = Convert(st, n)
      BY <1>1, <3>5, FoldOne
    <3>7. Fine(st, n - 1)
      BY <1>1, <1>2, <3>1
    <3>8. Fine(Convert(st, n), n)
      BY <1>1, <3>3, <3>7, ConvertFine
    <3> QED
      BY <3>4, <3>6, <3>8
  <2> QED
    BY <2>1, <2>2
<1>4. PICK t : t = Finished(s)
  OBVIOUS
<1>5. r.st = t /\ r.buffer = <<>>
  BY <1>3, <1>4 DEF Ending, Now
<1>6. t.over
  BY <1>1, <1>3, <1>4, FinishedType DEF Fine
<1>7. PICK D \in SUBSET Int : D = DueBy(n) /\ Got(s, D)
  <2>1. DueBy(n) \subseteq Int
    BY DEF DueBy
  <2> QED
    BY <1>3, <2>1 DEF Fine
<1>8. Got(t, DueBy(n))
  BY <1>1, <1>3, <1>4, <1>7, FinishedGot DEF Fine
<1>9. Concluded(t.out, n)
  BY <1>1, <1>3, <1>4, FinishedOutcome
<1>10. Len(<<>>) < Size(upstream)
  BY <1>1, BufferShort
<1>11. Settled(t, <<>>, n, "no")
  BY <1>8, <1>9, <1>10 DEF Settled
<1> QED
  BY <1>1, <1>2, <1>5, <1>6, <1>11 DEF Holds

(* One added event: it is converted if nothing was held back, else it makes of that   *)
(* text something that cannot be read.                                                *)
AddedRead(s, r, x) == r.buffer = <<>> /\ r.st = Convert(s, x)

(* So reads Receiving, of the converter in use.                                       *)
LEMMA AddedReads ==
  ASSUME target \in Targets, UpstreamTyped, NEW b \in {BreakEvent, DoneEvent}, NEW s \in Frames,
         NEW k \in Int, NEW crlf \in BOOLEAN, NEW p \in 0..(SizeOf(crlf) - 1),
         NEW now, now.buffer = Held(k, p, crlf), now.st = s, NEW x, x = IF p = 0 THEN b ELSE Garbled
  PROVE  AddedRead(s, Receiving(now, Formatted(b, FALSE)), x)
<1>0. PICK r : r = Receiving(now, Formatted(b, FALSE))
  OBVIOUS
<1>1. b \in Int /\ b \in Known /\ Garbled \in Known \cup {Garbled}
  BY KnownInt, AddedAre
<1>2. Split(Held(k, p, crlf) \o Formatted(b, FALSE))
         = [events |-> IF p = 0 THEN <<b>> ELSE <<Garbled>>, rest |-> <<>>]
  BY <1>1, SplitBreak
<1>3. PICK y : /\ y = Split(Held(k, p, crlf) \o Formatted(b, FALSE))
               /\ y.rest = <<>> /\ y.events = IF p = 0 THEN <<b>> ELSE <<Garbled>>
  <2>1. PICK es : es = IF p = 0 THEN <<b>> ELSE <<Garbled>>
    OBVIOUS
  <2>2. PICK y : y = [events |-> es, rest |-> <<>>]
    OBVIOUS
  <2>3. y.rest = <<>> /\ y.events = es
    BY <2>2
  <2>4. y = Split(Held(k, p, crlf) \o Formatted(b, FALSE))
    BY <1>2, <2>1, <2>2
  <2> QED
    BY <2>1, <2>3, <2>4
<1>4. r.buffer = y.rest /\ r.st = FoldLeft(Convert, s, y.events)
  BY <1>0, <1>3 DEF Receiving
<1>5. CASE p = 0
  <2>1. FoldLeft(Convert, s, <<b>>) = Convert(s, b)
    BY <1>1, FoldOne
  <2> QED
    BY <1>0, <1>3, <1>4, <1>5, <2>1 DEF AddedRead
<1>6. CASE p # 0
  <2>1. FoldLeft(Convert, s, <<Garbled>>) = Convert(s, Garbled)
    BY <1>1, FoldOne
  <2> QED
    BY <1>0, <1>3, <1>4, <1>6, <2>1 DEF AddedRead
<1> QED
  BY <1>5, <1>6

(* Nothing is held back where an event begins.                                        *)
LEMMA HeldNothing == Held(0, 0, FALSE) = <<>> /\ 0 \in 0..(SizeOf(FALSE) - 1)
<1>1. 0 \in 0..(SizeOf(FALSE) - 1)
  BY DEF SizeOf
<1>2. PICK k \in Int, c \in BOOLEAN : k = 0 /\ c = FALSE
  <2>1. 0 \in Int /\ FALSE \in BOOLEAN
    OBVIOUS
  <2> QED
    BY <2>1
<1>3. PICK p \in 0..(SizeOf(c) - 1) : p = 0
  BY <1>1, <1>2
<1>4. Held(k, p, c) = <<>> <=> p = 0
  BY HeldShort
<1> QED
  BY <1>1, <1>2, <1>3, <1>4

(* The upstream breaks off: the client has the events that were whole, and if the     *)
(* break was between two of them it is told.                                          *)
LEMMA BreakHolds ==
  ASSUME StreamInv, ~st.over,
         NEW r, r = Ending(Receiving(Receiving(Now, Formatted(BreakEvent, FALSE)),
                                     Formatted(DoneEvent, FALSE))),
         NEW how, how = IF buffer = <<>> THEN "between" ELSE "within"
  PROVE  Holds(r.st, r.buffer, pos, how)
<1>1. /\ target \in Targets /\ upstream \in Upstreams /\ UpstreamTyped
      /\ pos \in 0..Len(Wire(upstream)) /\ buffer = Buffered(pos, upstream.crlf) /\ Fine(st, CompleteBy(pos))
      /\ st \in Frames
  BY UpstreamWire DEF StreamInv, IndInv, Holds
<1>2. PICK m \in Nat, k \in Int, crlf \in BOOLEAN, p \in 0..(SizeOf(upstream.crlf) - 1) :
         /\ m = CompleteBy(pos) /\ k = EventAt(pos, crlf) /\ crlf = upstream.crlf /\ p = OffsetAt(pos, crlf)
         /\ buffer = Held(k, p, crlf) /\ (buffer = <<>> <=> p = 0)
  <2>1. /\ CompleteBy(pos) \in 0..Len(upstream.events) /\ CompleteBy(pos) + 1 = EventAt(pos, upstream.crlf)
        /\ OffsetAt(pos, upstream.crlf) \in 0..(SizeOf(upstream.crlf) - 1)
    BY <1>1, PositionIs
  <2>2. upstream.crlf \in BOOLEAN /\ Len(upstream.events) \in Nat
    BY <1>1 DEF UpstreamTyped
  <2>3. CompleteBy(pos) \in Nat /\ EventAt(pos, upstream.crlf) \in Int
    BY <2>1, <2>2
  <2>4. /\ buffer = Held(EventAt(pos, upstream.crlf), OffsetAt(pos, upstream.crlf), upstream.crlf)
        /\ (buffer = <<>> <=> OffsetAt(pos, upstream.crlf) = 0)
    BY <1>1, BufferShort DEF Buffered
  <2> QED
    BY <2>1, <2>2, <2>3, <2>4
<1>3. PICK D \in SUBSET Int : D = DueBy(m) /\ Got(st, D)
  <2>1. DueBy(m) \subseteq Int
    BY DEF DueBy
  <2> QED
    BY <1>1, <1>2, <2>1 DEF Fine
<1>4. Ready(st)
  BY <1>1 DEF Fine, Prepared, Ready
<1>5. PICK x \in Added : x = IF p = 0 THEN BreakEvent ELSE Garbled
  BY DEF Added
<1>6. x \in Known \cup {Garbled} /\ DoneEvent \in Known
  BY <1>1, <1>5, KnownInt
<1>7. PICK s : s = Convert(st, x)
  OBVIOUS
<1>8. PICK q : /\ q = Receiving(Now, Formatted(BreakEvent, FALSE))
               /\ q.buffer = <<>> /\ q.st = s
  <2>1. PICK now : now = Now /\ now.buffer = Held(k, p, crlf) /\ now.st = st
    <3>1. Now.buffer = buffer /\ Now.st = st
      BY DEF Now
    <3> QED
      BY <1>2, <3>1
  <2>2. PICK q : q = Receiving(now, Formatted(BreakEvent, FALSE))
    OBVIOUS
  <2>3. p \in 0..(SizeOf(crlf) - 1)
    BY <1>2
  <2>4. PICK b \in {BreakEvent, DoneEvent} : b = BreakEvent
    OBVIOUS
  <2>5. PICK f \in Frames : f = st
    BY <1>1
  <2>6. x = IF p = 0 THEN b ELSE Garbled
    BY <1>5, <2>4
  <2>7. AddedRead(f, Receiving(now, Formatted(b, FALSE)), x)
    BY <1>1, <2>1, <2>3, <2>5, <2>6, AddedReads
  <2> QED
    BY <1>7, <2>1, <2>2, <2>4, <2>5, <2>7 DEF AddedRead
<1>9. s \in Frames /\ Got(s, D)
  BY <1>1, <1>3, <1>4, <1>5, <1>6, <1>7, ConvertType, AddedGot
<1>10. PICK t : t = Convert(s, DoneEvent)
  OBVIOUS
<1>11. PICK z : z = Receiving(q, Formatted(DoneEvent, FALSE)) /\ z.buffer = <<>> /\ z.st = t
  <2>1. PICK z : z = Receiving(q, Formatted(DoneEvent, FALSE))
    OBVIOUS
  <2>2. PICK h \in Int, c \in BOOLEAN : h = 0 /\ c = FALSE
    <3>1. 0 \in Int /\ FALSE \in BOOLEAN
      OBVIOUS
    <3> QED
      BY <3>1
  <2>3. PICK o \in 0..(SizeOf(c) - 1) : o = 0
    BY <2>2, HeldNothing
  <2>4. PICK b \in {BreakEvent, DoneEvent} : b = DoneEvent
    OBVIOUS
  <2>5. q.buffer = Held(h, o, c) /\ q.st = s
    BY <1>8, <2>2, <2>3, HeldNothing
  <2>6. b = IF o = 0 THEN b ELSE Garbled
    BY <2>3
  <2>7. AddedRead(s, Receiving(q, Formatted(b, FALSE)), b)
    BY <1>1, <1>9, <2>5, <2>6, AddedReads
  <2> QED
    BY <1>10, <2>1, <2>4, <2>7 DEF AddedRead
<1>12. Ready(s)
  <2>1. CASE target = "chat" /\ ~s.over
    <3>1. p # 0
      BY <1>1, <1>4, <1>5, <1>7, <2>1, BreakTold
    <3>2. Convert(st, Garbled) = st
      BY <1>1, <2>1, AddedSkipped
    <3>3. s = st
      BY <1>5, <1>7, <3>1, <3>2
    <3> QED
      BY <1>4, <3>3
  <2>2. CASE ~(target = "chat" /\ ~s.over)
    BY <1>9, <2>2 DEF Ready
  <2> QED
    BY <2>1, <2>2
<1>13. t \in Frames /\ Got(t, D)
  <2>1. DoneEvent \in Added
    BY DEF Added
  <2> QED
    BY <1>1, <1>6, <1>9, <1>10, <1>12, <2>1, ConvertType, AddedGot
<1>14. PICK u : u = Finished(t) /\ u.over /\ Got(u, D)
  BY <1>1, <1>13, FinishedType, FinishedGot
<1>15. r.st = u /\ r.buffer = <<>>
  <2>1. FoldLeft(Convert, t, <<>>) = t
    BY <1>1, <1>13, FoldNone
  <2>2. r = Ending(z)
    BY <1>8, <1>11
  <2> QED
    <3>1. Flush(z.buffer) = <<>>
      BY <1>11, FlushNothing
    <3>2. FoldLeft(Convert, z.st, Flush(z.buffer)) = t
      BY <1>11, <2>1, <3>1
    <3>3. PICK y : y = [buffer |-> <<>>, st |-> u]
      OBVIOUS
    <3>4. y.st = u /\ y.buffer = <<>>
      BY <3>3
    <3>5. r = y
      BY <1>14, <2>2, <3>2, <3>3 DEF Ending
    <3> QED
      BY <3>4, <3>5
<1>16. ASSUME how = "between"
       PROVE  IF target = "same" THEN \E i \in PlacesIn(u.out, {"block"}) : u.out[i].item = BreakEvent
              ELSE Tells(u.out, "error")
  <2>1. x = BreakEvent
    BY <1>2, <1>5, <1>16
  <2>2. /\ target = "same" => \E i \in PlacesIn(s.out, {"block"}) : s.out[i].item = BreakEvent
        /\ target # "same" => s.over /\ Tells(s.out, "error")
    BY <1>1, <1>4, <1>7, <2>1, BreakTold
  <2>3. t = s
    BY <1>1, <1>10, <2>2, AddedSkipped
  <2>4. u.out = s.out
    <3>1. CASE s.over
      BY <1>14, <2>3, <3>1 DEF Finished
    <3>2. CASE ~s.over
      <4>1. target = "same" /\ s \in SameFrames
        BY <1>9, <2>2, <3>2 DEF Frames
      <4> QED
        BY <1>14, <2>3, <3>2, <4>1 DEF Finished, SameFrames
    <3> QED
      BY <3>1, <3>2
  <2> QED
    BY <2>2, <2>4
<1>17. Len(<<>>) < Size(upstream)
  BY <1>1, BufferShort
<1>18. how # "no" /\ how \in {"no", "between", "within"}
  OBVIOUS
<1>19. Settled(u, <<>>, m, how)
  BY <1>3, <1>14, <1>16, <1>17, <1>18 DEF Settled
<1> QED
  BY <1>1, <1>2, <1>14, <1>15, <1>18, <1>19 DEF Holds
------------------------------------------------------------------------------------
(* The invariant holds at the start,                                                  *)
LEMMA InitStream == Init => StreamInv
<1> SUFFICES ASSUME Init PROVE StreamInv
  OBVIOUS
<1>1. IndInv /\ target \in Targets /\ upstream \in Upstreams /\ UpstreamTyped
  BY InitInd, UpstreamType DEF IndInv
<1>2. WireReads(Wire(upstream))
  BY <1>1, UpstreamWire
<1>3. 0 \in 0..Len(Wire(upstream))
  <2>1. Wire(upstream) \in Seq(Text)
    BY <1>2 DEF WireReads
  <2> HIDE DEF Text
  <2> QED
    BY <2>1
<1>4. CompleteBy(0) = 0 /\ OffsetAt(0, upstream.crlf) = 0
  <2>1. CASE upstream.crlf
    BY <2>1 DEF CompleteBy, EventAt, OffsetAt, SizeOf
  <2>2. CASE ~upstream.crlf
    BY <2>2 DEF CompleteBy, EventAt, OffsetAt, SizeOf
  <2> QED
    BY <2>1, <2>2
<1>5. Buffered(0, upstream.crlf) = <<>>
  BY <1>1, <1>3, <1>4, BufferShort
<1>6. Fine(st, 0) /\ pos = 0 /\ buffer = <<>> /\ broken = "no"
  BY <1>1, OpeningFine DEF Init
<1>7. ~st.over
  BY <1>6 DEF Fine, FailedBy
<1> QED
  BY <1>1, <1>3, <1>4, <1>5, <1>6, <1>7 DEF StreamInv, Holds

(* What it says is about the values of the state alone.                               *)
LEMMA HoldsNext ==
  ASSUME UNCHANGED <<target, upstream>>, NEW s, NEW b, NEW p, NEW how, Holds(s, b, p, how),
         st' = s, buffer' = b, pos' = p, broken' = how
  PROVE  Holds(st, buffer, pos, broken)'
<1>1. Frames' = Frames
  BY DEF Frames
<1>2. \A m : (Kind(m))' = Kind(m)
  BY DEF Kind
<1>3. \A m : /\ (FailedBy(m))' = FailedBy(m) /\ (ToolBy(m))' = ToolBy(m)
             /\ (Ends(m))' = Ends(m) /\ (DueBy(m))' = DueBy(m)
  BY DEF FailedBy, ToolBy, Ends, ReasonsBy, DueBy, Kind
<1>4. \A m : (CompleteBy(m))' = CompleteBy(m)
  BY DEF CompleteBy
<1>5. \A f, m : (Fine(f, m))' = Fine(f, m)
  <2>1. \A f, D : (Got(f, D))' = Got(f, D)
    BY DEF Got
  <2>2. \A f, m : (Prepared(f, m))' = Prepared(f, m)
    BY <1>3 DEF Prepared
  <2> QED
    BY <1>1, <1>3, <2>1, <2>2 DEF Fine
<1>6. \A f, c, m, h : (Settled(f, c, m, h))' = Settled(f, c, m, h)
  <2>1. \A f, D : (Got(f, D))' = Got(f, D)
    BY DEF Got
  <2>2. \A o, m : (Outcome(o, m))' = Outcome(o, m)
    BY <1>3 DEF Outcome
  <2>3. \A o, m : (Concluded(o, m))' = Concluded(o, m)
    BY <1>3, <2>2 DEF Concluded
  <2>4. Size(upstream)' = Size(upstream)
    BY DEF Size
  <2> QED
    BY <1>3, <2>1, <2>3, <2>4 DEF Settled
<1>7. (Holds(s, b, p, how))' = Holds(s, b, p, how)
  BY <1>4, <1>5, <1>6 DEF Holds
<1> QED
  BY <1>7 DEF Holds

(* every step keeps it,                                                               *)
LEMMA StepStream == StreamInv /\ [Next]_vars => StreamInv'
<1> SUFFICES ASSUME StreamInv, [Next]_vars PROVE Holds(st, buffer, pos, broken)'
  BY StepInd DEF StreamInv
<1>0. Holds(st, buffer, pos, broken)
  BY DEF StreamInv
<1>1. ASSUME NEW n \in 1..Len(Wire(upstream)), Receive(n) PROVE Holds(st, buffer, pos, broken)'
  <2>1. PICK r : r = Receiving(Now, SubSeq(Wire(upstream), pos + 1, pos + n))
    OBVIOUS
  <2>2. /\ UNCHANGED <<target, upstream>> /\ st' = r.st /\ buffer' = r.buffer
        /\ pos' = pos + n /\ broken' = broken /\ ~st.over /\ pos + n <= Len(Wire(upstream))
    BY <1>1, <2>1 DEF Receive, Become
  <2>3. n \in Nat
    OBVIOUS
  <2>4. Holds(r.st, r.buffer, pos + n, broken)
    BY <2>1, <2>2, <2>3, ReceiveHolds
  <2> QED
    BY <2>2, <2>4, HoldsNext
<1>2. CASE Finish
  <2>1. PICK r : r = Ending(Now)
    OBVIOUS
  <2>2. /\ UNCHANGED <<target, upstream>> /\ st' = r.st /\ buffer' = r.buffer
        /\ pos' = pos /\ broken' = broken /\ ~st.over /\ pos = Len(Wire(upstream))
    BY <1>2, <2>1 DEF Finish, Become
  <2>3. Holds(r.st, r.buffer, pos, broken)
    BY <2>1, <2>2, FinishHolds
  <2> QED
    BY <2>2, <2>3, HoldsNext
<1>3. CASE Break
  <2>1. PICK r : r = Ending(Receiving(Receiving(Now, Formatted(BreakEvent, FALSE)),
                                      Formatted(DoneEvent, FALSE)))
    OBVIOUS
  <2>2. PICK how : how = IF buffer = <<>> THEN "between" ELSE "within"
    OBVIOUS
  <2>3. /\ UNCHANGED <<target, upstream>> /\ st' = r.st /\ buffer' = r.buffer
        /\ pos' = pos /\ broken' = how /\ ~st.over
    BY <1>3, <2>1, <2>2 DEF Break, Become
  <2>4. Holds(r.st, r.buffer, pos, how)
    BY <2>1, <2>2, <2>3, BreakHolds
  <2> QED
    BY <2>3, <2>4, HoldsNext
<1>4. CASE UNCHANGED vars
  <2>1. UNCHANGED <<target, upstream>> /\ st' = st /\ buffer' = buffer /\ pos' = pos /\ broken' = broken
    BY <1>4 DEF vars
  <2> QED
    BY <1>0, <2>1, HoldsNext
<1>5. CASE Over
  BY <1>4, <1>5 DEF Over
<1> QED
  BY <1>1, <1>2, <1>3, <1>4, <1>5 DEF Next

(* The invariant holds always.                                                        *)
LEMMA StreamAlways == Spec => []StreamInv
<1>1. Init => StreamInv
  BY InitStream
<1>2. StreamInv /\ [Next]_vars => StreamInv'
  BY StepStream
<1> QED
  BY <1>1, <1>2, PTL DEF Spec

(* and what has arrived are the events it speaks of.                                  *)
LEMMA ArrivedIs ==
  ASSUME StreamInv
  PROVE  /\ Arrived = IF st.over /\ broken = "no" THEN Len(upstream.events) ELSE CompleteBy(pos)
         /\ Arrived \in 0..Len(upstream.events)
         /\ Got(st, DueBy(Arrived))
<1>1. /\ upstream \in Upstreams /\ UpstreamTyped /\ pos \in 0..Len(Wire(upstream))
      /\ Holds(st, buffer, pos, broken)
  BY UpstreamType DEF StreamInv, IndInv, Holds
<1>2. CompleteBy(pos) = pos \div Size(upstream) /\ CompleteBy(pos) \in 0..Len(upstream.events)
  BY <1>1, PositionIs
<1>3. Len(upstream.events) \in Nat
  BY <1>1 DEF UpstreamTyped
<1>4. Arrived = IF st.over /\ broken = "no" THEN Len(upstream.events) ELSE CompleteBy(pos)
  BY <1>2 DEF Arrived
<1>5. Arrived \in 0..Len(upstream.events)
  BY <1>2, <1>3, <1>4
<1>6. Got(st, DueBy(Arrived))
  <2>1. CASE st.over
    <3>1. Settled(st, buffer, IF broken = "no" THEN Len(upstream.events) ELSE CompleteBy(pos), broken)
      BY <1>1, <2>1 DEF Holds
    <3> QED
      BY <1>4, <2>1, <3>1 DEF Settled
  <2>2. CASE ~st.over
    <3>1. Fine(st, CompleteBy(pos))
      BY <1>1, <2>2 DEF Holds
    <3> QED
      BY <1>4, <2>2, <3>1 DEF Fine
  <2> QED
    BY <2>1, <2>2
<1> QED
  BY <1>4, <1>5, <1>6

(* It types the stream: in particular less than one event is ever held back.          *)
LEMMA StreamType == StreamInv => TypeOK
<1> SUFFICES ASSUME StreamInv PROVE TypeOK
  OBVIOUS
<1>1. /\ target \in Targets /\ upstream \in Upstreams /\ UpstreamTyped /\ st \in Frames
      /\ pos \in 0..Len(Wire(upstream)) /\ broken \in {"no", "between", "within"}
  BY UpstreamType DEF StreamInv, IndInv, Holds
<1>2. EventSet = Content \cup Endings \cup {Event("done", 0)}
  BY DEF EventSet
<1>3. st.over \in BOOLEAN
  BY <1>1 DEF Targets, Frames, ChatGoing, ChatEnded, ChatFrames, ResponsesGoing, ResponsesParts, ResponsesEnded,
              ResponsesFrames, MessagesGoing, MessagesEnded, MessagesFrames, SameFrames
<1>4. Len(buffer) < Size(upstream)
  <2>1. CASE st.over
    BY <2>1 DEF StreamInv, Holds, Settled
  <2>2. CASE ~st.over
    <3>1. buffer = Buffered(pos, upstream.crlf)
      BY <2>2 DEF StreamInv, Holds
    <3> QED
      BY <1>1, <3>1, BufferShort
  <2> QED
    BY <2>1, <2>2
<1>5. upstream.events \in Seq(Content \cup Endings \cup {Event("done", 0)})
  BY <1>1, <1>2 DEF UpstreamTyped
<1> QED
  BY <1>1, <1>3, <1>4, <1>5 DEF TypeOK

(* TypeOK (StreamConvert), for every upstream and every way to cut its bytes:         *)
(* iter_events never holds back more than one unfinished event, so that the buffer of *)
(* a stream does not grow with it, and nothing is read past the end of the wire.      *)
THEOREM StreamsTyped == Spec => []TypeOK
<1>1. Spec => []StreamInv
  BY StreamAlways
<1>2. StreamInv => TypeOK
  BY StreamType
<1> QED
  BY <1>1, <1>2, PTL

(* The client has what is due.                                                        *)
LEMMA StreamDelivered == StreamInv => Delivered
<1> SUFFICES ASSUME StreamInv PROVE Delivered
  OBVIOUS
<1>1. PICK m \in Nat : m = Arrived /\ Got(st, DueBy(m)) /\ UpstreamTyped /\ target \in Targets
  <2>1. UpstreamTyped /\ target \in Targets
    BY UpstreamType DEF StreamInv, IndInv
  <2>2. Arrived \in 0..Len(upstream.events) /\ Len(upstream.events) \in Nat
    BY <2>1, ArrivedIs DEF UpstreamTyped
  <2> QED
    BY <2>1, <2>2, ArrivedIs
<1>2. Due = DueBy(m)
  BY <1>1 DEF Due, DueBy, Seen, Kind, PieceKinds
<1>3. CASE target = "same"
  <2>1. Carriers = BlocksIn(st.out) /\ Passes(st.out, Due) /\ \A i : Carried(i) = <<st.out[i].item>>
    BY <1>1, <1>2, <1>3 DEF Carriers, BlocksIn, Got, Carried
  <2>2. \A i : Carried(i)[1] = st.out[i].item
    BY <2>1
  <2>3. {Carried(i) : i \in Carriers} = {<<k>> : k \in Due}
    BY <2>1 DEF Passes
  <2> QED
    BY <2>1, <2>2, <2>3 DEF Delivered, Passes
<1>4. CASE target # "same"
  <2>1. Carriers = PlacesIn(st.out, Pieces) /\ Brings(st.out, Due) /\ \A i : Carried(i) = st.out[i].val
    BY <1>1, <1>2, <1>4 DEF Carriers, PlacesOf, PlacesIn, Pieces, Got, Carried
  <2>2. {Carried(i) : i \in Carriers} = {<<k>> : k \in Due}
    <3>1. {st.out[i].val : i \in Carriers} = {<<k>> : k \in Due}
      <4>1. /\ \A i \in Carriers : \E k \in Due : st.out[i].val = <<k>>
            /\ \A k \in Due : \E i \in Carriers : st.out[i].val = <<k>>
        BY <2>1, Zenon DEF Brings
      <4> HIDE DEF Carriers, Due
      <4> QED
        BY <4>1
    <3>2. {Carried(i) : i \in Carriers} = {st.out[i].val : i \in Carriers}
      BY <2>1
    <3> QED
      BY <3>1, <3>2
  <2> QED
    BY <2>1, <2>2 DEF Delivered, Brings
<1> QED
  BY <1>3, <1>4

(* Delivered (StreamConvert), for every upstream, both ways to end lines and every    *)
(* way to cut the bytes: the client has every piece of the events that have arrived,  *)
(* as soon as they have, once and in their order.                                     *)
THEOREM StreamsDeliver == Spec => []Delivered
<1>1. Spec => []StreamInv
  BY StreamAlways
<1>2. StreamInv => Delivered
  BY StreamDelivered
<1> QED
  BY <1>1, <1>2, PTL
------------------------------------------------------------------------------------
(* Content, then at most one ending, then at most one [DONE].                         *)
LEMMA SentParts ==
  ASSUME upstream \in Upstreams
  PROVE  \E c \in Seq(Content), e \in Seq(Endings), d \in Seq({Event("done", 0)}) :
            upstream.events = c \o e \o d /\ Len(e) \in 0..1
<1>1. upstream.events \in Sent
  BY DEF Upstreams
<1>2. PICK c \in BoundedSeq(Content, MaxEvents), e \in BoundedSeq(Endings, 1),
           d \in BoundedSeq({Event("done", 0)}, 1) : upstream.events = c \o e \o d
  <2> DEFINE A == BoundedSeq(Content, MaxEvents)
             B == BoundedSeq(Endings, 1)
             C == BoundedSeq({Event("done", 0)}, 1)
  <2>1. Sent = {c \o e \o d : c \in A, e \in B, d \in C}
    BY DEF Sent
  <2> HIDE DEF A, B, C
  <2>2. \A s \in Sent : \E c \in A, e \in B, d \in C : s = c \o e \o d
    BY <2>1
  <2>3. \E c \in A, e \in B, d \in C : upstream.events = c \o e \o d
    BY <1>1, <2>2
  <2> QED
    BY <2>3 DEF A, B, C
<1>3. c \in Seq(Content) /\ e \in Seq(Endings) /\ d \in Seq({Event("done", 0)})
  BY BoundedType, StreamAssumption
<1>4. Len(e) \in 0..1
  <2>1. PICK l \in 0..1 : e \in [1..l -> Endings]
    BY DEF BoundedSeq, SeqOf
  <2> QED
    BY <2>1
<1> QED
  BY <1>2, <1>3, <1>4

(* What ends a stream is its last event but for a [DONE].                             *)
LEMMA EndsLate ==
  ASSUME upstream \in Upstreams, NEW i \in 1..Len(upstream.events), NEW j \in 1..Len(upstream.events),
         i < j, Kind(i) \in Chat!Reasons \cup {"error"}
  PROVE  Kind(j) = "done"
<1>1. PICK c \in Seq(Content), e \in Seq(Endings), d \in Seq({Event("done", 0)}) :
         upstream.events = c \o e \o d /\ Len(e) \in 0..1
  BY SentParts
<1>2. PICK a \in Nat, b \in 0..1, z \in Nat : a = Len(c) /\ b = Len(e) /\ z = Len(d)
  <2>1. \A S : \A s \in Seq(S) : Len(s) \in Nat
    OBVIOUS
  <2>2. Len(c) \in Nat /\ Len(d) \in Nat
    BY <2>1
  <2> QED
    BY <1>1, <2>2
<1>3. PICK s \in Seq(EventSet) : s = upstream.events /\ Len(s) = a + b + z
  <2>1. c \in Seq(EventSet) /\ e \in Seq(EventSet) /\ d \in Seq(EventSet)
    BY DEF EventSet
  <2> HIDE DEF EventSet
  <2>2. c \o e \o d \in Seq(EventSet) /\ Len(c \o e \o d) = a + b + z
    BY <1>2, <2>1
  <2> QED
    BY <1>1, <2>2
<1>4. /\ \A x \in 1..a : s[x] = c[x]
      /\ \A x \in (a + b + 1)..(a + b + z) : s[x] = d[x - (a + b)]
  <2>1. c \in Seq(EventSet) /\ e \in Seq(EventSet) /\ d \in Seq(EventSet)
    BY DEF EventSet
  <2> HIDE DEF EventSet
  <2>2. PICK ce \in Seq(EventSet) : /\ ce = c \o e /\ Len(ce) = a + b
                                    /\ \A x \in 1..a : ce[x] = c[x]
    <3>1. /\ c \o e \in Seq(EventSet) /\ Len(c \o e) = Len(c) + Len(e)
          /\ \A x \in 1..(Len(c) + Len(e)) : (c \o e)[x] = IF x <= Len(c) THEN c[x] ELSE e[x - Len(c)]
      BY <2>1, ConcatProperties
    <3>2. \A x \in 1..a : x \in 1..(a + b) /\ x <= a
      OBVIOUS
    <3>3. Len(c \o e) = a + b /\ \A x \in 1..a : (c \o e)[x] = c[x]
      BY <1>2, <3>1, <3>2
    <3> QED
      BY <3>1, <3>3
  <2>3. s = ce \o d
    BY <1>1, <1>3, <2>2
  <2>4. /\ \A x \in 1..(a + b) : s[x] = ce[x]
        /\ \A x \in (a + b + 1)..(a + b + z) : s[x] = d[x - (a + b)]
    BY <1>2, <2>1, <2>2, <2>3
  <2>5. \A x \in 1..a : x \in 1..(a + b)
    OBVIOUS
  <2> QED
    BY <2>2, <2>4, <2>5
<1>5. i \notin 1..a
  <2>1. \A x \in 1..a : c[x] \in Content
    BY <1>2
  <2>2. \A x \in Content : x.kind \notin Chat!Reasons \cup {"error"} /\ x.kind # "cut_with_call"
    BY DEF Content, Event, Chat!Reasons
  <2> QED
    BY <1>3, <1>4, <2>1, <2>2 DEF Kind, Extracted
<1>6. j \in (a + b + 1)..(a + b + z)
  <2>1. i \in 1..(a + b + z) /\ j \in 1..(a + b + z)
    BY <1>3
  <2>2. i >= a + 1
    BY <1>5, <2>1
  <2>3. j >= a + 2
    BY <2>1, <2>2
  <2>4. a + b + 1 <= a + 2
    <3>1. b = 0 \/ b = 1
      OBVIOUS
    <3> QED
      BY <3>1
  <2> QED
    BY <2>1, <2>3, <2>4
<1>7. d[j - (a + b)] = Event("done", 0)
  <2>1. j - (a + b) \in 1..z
    BY <1>2, <1>6
  <2> QED
    BY <1>2, <2>1
<1> QED
  BY <1>3, <1>4, <1>6, <1>7 DEF Kind, Extracted, Event

(* Of what has arrived, the outcome of the upstream.                                  *)
LEMMA StreamOutcome == StreamInv => OutcomeRight
<1> SUFFICES ASSUME StreamInv PROVE OutcomeRight
  OBVIOUS
<1> SUFFICES ASSUME st.over, broken # "within" PROVE OutcomeRight
  BY DEF OutcomeRight
<1>1. PICK m \in Nat : /\ m = Arrived /\ m <= Len(upstream.events) /\ UpstreamTyped
                       /\ upstream \in Upstreams /\ target \in Targets
  <2>1. UpstreamTyped /\ target \in Targets /\ upstream \in Upstreams
    BY UpstreamType DEF StreamInv, IndInv
  <2>2. Arrived \in 0..Len(upstream.events) /\ Len(upstream.events) \in Nat
    BY <2>1, ArrivedIs DEF UpstreamTyped
  <2> QED
    BY <2>1, <2>2
<1>2. Settled(st, buffer, m, broken) /\ broken \in {"no", "between"}
  <2>1. Settled(st, buffer, IF broken = "no" THEN Len(upstream.events) ELSE CompleteBy(pos), broken)
    BY DEF StreamInv, Holds
  <2>2. m = IF broken = "no" THEN Len(upstream.events) ELSE CompleteBy(pos)
    BY <1>1, ArrivedIs
  <2>3. broken \in {"no", "between"}
    BY DEF StreamInv, Holds
  <2> QED
    BY <2>1, <2>2, <2>3
<1> DEFINE SomeOf(kinds) == {k \in Seen : Kind(k) \in kinds}
           failed == broken = "between" \/ SomeOf({"error"}) # {}
           reason == IF SomeOf(Chat!Reasons) = {} THEN "stop"
                     ELSE Kind(CHOOSE k \in SomeOf(Chat!Reasons) : TRUE)
           tools  == reason = "tool_calls" \/ (reason = "stop" /\ SomeOf({"start", "args"}) # {})
<1>3. \A i, j \in 1..m : i < j /\ Kind(i) \in Chat!Reasons \cup {"error"} => Kind(j) = "done"
  <2>1. \A i \in 1..m : i \in 1..Len(upstream.events)
    BY <1>1 DEF UpstreamTyped
  <2> QED
    BY <1>1, <2>1, EndsLate
<1>4. SomeOf({"error"}) # {} <=> FailedBy(m)
  <2>1. ASSUME NEW k \in 1..m, Kind(k) = "error" PROVE k \in Seen
    <3>1. \A i \in 1..(k - 1) : i \in 1..m /\ i < k
      OBVIOUS
    <3>2. \A i \in 1..(k - 1) : Kind(i) # "error"
      BY <1>3, <2>1, <3>1
    <3> QED
      BY <1>1, <3>2 DEF Seen, Kind
  <2>2. \A k \in Seen : k \in 1..m
    BY <1>1 DEF Seen
  <2> QED
    BY <2>1, <2>2 DEF FailedBy
<1>5. CASE target = "same"
  <2>1. broken = "between" => ToldFailure
    BY <1>2, <1>5 DEF Settled, ToldFailure, PlacesOf, PlacesIn
  <2> QED
    BY <1>5, <2>1 DEF OutcomeRight
<1>6. CASE target # "same" /\ failed
  <2>1. Tells(st.out, "error")
    BY <1>2, <1>4, <1>6 DEF Settled, Concluded
  <2>2. ToldFailure
    BY <2>1 DEF ToldFailure, Told, Tells, PlacesOf, PlacesIn
  <2> QED
    BY <1>1, <1>6, <2>2 DEF OutcomeRight, Targets
<1>7. CASE target # "same" /\ ~failed
  <2>1. Outcome(st.out, m) /\ ~FailedBy(m)
    BY <1>2, <1>4, <1>7 DEF Settled, Concluded
  <2>2. Seen = 1..m
    BY <1>1, <2>1 DEF Seen, FailedBy, Kind
  <2>3. SomeOf({"start", "args"}) # {} <=> ToolBy(m)
    BY <2>2 DEF ToolBy, ToolKinds
  <2>4. \A r \in Ends(m) : r = reason
    <3>1. CASE SomeOf(Chat!Reasons) = {}
      BY <2>2, <3>1 DEF Ends, ReasonsBy
    <3>2. CASE SomeOf(Chat!Reasons) # {}
      <4>1. PICK k \in SomeOf(Chat!Reasons) : k = CHOOSE x \in SomeOf(Chat!Reasons) : TRUE
        BY <3>2
      <4>2. ASSUME NEW i \in 1..m, Kind(i) \in Chat!Reasons PROVE i = k
        <5>1. k \in 1..m /\ Kind(k) \in Chat!Reasons
          BY <2>2, <4>1
        <5>2. "done" \notin Chat!Reasons
          BY DEF Chat!Reasons
        <5>3. ~(i < k) /\ ~(k < i)
          BY <1>3, <4>2, <5>1, <5>2
        <5> QED
          BY <5>1, <5>3
      <4>3. reason = Kind(k)
        BY <3>2, <4>1
      <4>4. Ends(m) = ReasonsBy(m)
        <5>1. k \in 1..m /\ Kind(k) \in Chat!Reasons
          BY <2>2, <4>1
        <5> QED
          BY <5>1 DEF Ends, ReasonsBy
      <4> QED
        BY <4>2, <4>3, <4>4 DEF ReasonsBy
    <3> QED
      BY <3>1, <3>2
  <2>5. \A type : Told(type) <=> Tells(st.out, type)
    BY DEF Told, Tells, PlacesOf, PlacesIn
  <2> HIDE DEF reason
  <2>6. CASE target = "chat"
    <3>1. Tells(st.out, IF ToolBy(m) /\ reason = "stop" THEN "tool_calls" ELSE reason)
      BY <2>1, <2>4, <2>6 DEF Outcome
    <3>2. Told(IF tools THEN "tool_calls" ELSE reason)
      BY <2>3, <2>5, <3>1
    <3> QED
      BY <1>7, <2>6, <3>2 DEF OutcomeRight, reason
  <2>7. CASE target = "responses"
    <3>1. Told(IF reason = "length" THEN "incomplete" ELSE "completed")
      BY <2>1, <2>4, <2>5, <2>7 DEF Outcome
    <3> QED
      BY <1>7, <2>7, <3>1 DEF OutcomeRight, reason
  <2>8. CASE target = "messages"
    <3>1. Tells(st.out, IF ToolBy(m) /\ Messages!StopReason(reason) = "end_turn"
                        THEN "tool_use" ELSE Messages!StopReason(reason))
      BY <2>1, <2>4, <2>8 DEF Outcome
    <3>2. reason \in Chat!Reasons
      BY <2>1, <2>4, <2>8 DEF Outcome, Ends, ReasonsBy, Chat!Reasons
    <3>3. Told(IF reason = "length" THEN "max_tokens"
               ELSE IF tools \/ SomeOf({"start", "args"}) # {} THEN "tool_use" ELSE "end_turn")
      <4>1. CASE reason = "length"
        BY <2>5, <3>1, <4>1 DEF Messages!StopReason
      <4>2. CASE reason = "tool_calls"
        BY <2>5, <3>1, <4>2 DEF Messages!StopReason
      <4>3. CASE reason \notin {"length", "tool_calls"}
        <5>1. Messages!StopReason(reason) = "end_turn"
          BY <4>3 DEF Messages!StopReason
        <5>2. CASE ToolBy(m)
          <6>1. tools \/ SomeOf({"start", "args"}) # {}
            BY <2>3, <5>2
          <6>2. Told("tool_use")
            BY <2>5, <3>1, <5>1, <5>2
          <6> QED
            BY <4>3, <6>1, <6>2
        <5>3. CASE ~ToolBy(m)
          <6>1. ~(tools \/ SomeOf({"start", "args"}) # {})
            BY <2>3, <4>3, <5>3
          <6>2. Told("end_turn")
            BY <2>5, <3>1, <5>1, <5>3
          <6> QED
            BY <4>3, <6>1, <6>2
        <5> QED
          BY <5>2, <5>3
      <4> QED
        BY <4>1, <4>2, <4>3
    <3> QED
      BY <1>7, <2>8, <3>3 DEF OutcomeRight, reason
  <2> QED
    BY <1>1, <1>7, <2>6, <2>7, <2>8 DEF Targets
<1> QED
  BY <1>5, <1>6, <1>7

(* OutcomeRight (StreamConvert), for every upstream and every way to cut its bytes:   *)
(* when the stream is over the client has been told how the upstream ended: failed if *)
(* it sent an error or broke between two events, else for its reason.                 *)
THEOREM OutcomesRight == Spec => []OutcomeRight
<1>1. Spec => []StreamInv
  BY StreamAlways
<1>2. StreamInv => OutcomeRight
  BY StreamOutcome
<1> QED
  BY <1>1, <1>2, PTL
====================================================================================
