--------------------------- MODULE Conversation_proofs ---------------------------
(* Proofs about conversations, of any number of turns and calls, through any sequence *)
(* of upstreams: the client's history says what was said (AnswersArrive), every       *)
(* answer tells it how it ended (EndTold), and every request made from the history    *)
(* says to its upstream what was said, but for the losses the specification names     *)
(* (Faithful).                                                                        *)
(*                                                                                    *)
(* A document is read message by message, so reading is a concatenation of what is    *)
(* made of the elements of a list (Flat, in SequenceFacts), and what a turn appends   *)
(* is read after what was there (AddReads).  It remains that what a turn appends says *)
(* the turn: for a user's turn, as each protocol writes it (SaidReads); for an        *)
(* answer, as the gateway hands it on (GivenConveys).  For this every answer in the   *)
(* IR is shown to be one response, whatever the protocol it came in (TheResponse),    *)
(* and every protocol to make of that one an answer that conveys it.                  *)
(*                                                                                    *)
(* A conversion works message by message too, so it makes of what a document says     *)
(* what two mappings of atoms make of it: In(p), what the IR keeps of a client's      *)
(* history, and Out(mode), what an upstream's protocol keeps of the IR.  Together     *)
(* they are the losses that Faithful names (InThenOut).  Each conversion is shown to  *)
(* do no more than its mapping (RequestReads, ClientIn).  The latter needs to know    *)
(* what can be in a client's history: Good(p) is what conversations make of it, and   *)
(* is the invariant's part that TypeOK does not give.                                 *)
(*                                                                                    *)
(* The sets of documents (Docs) are wider than what Typed admits: they say what can   *)
(* be read at all, and are what is needed for AnswersArrive.                          *)
EXTENDS Conversation, SequenceFacts
------------------------------------------------------------------------------------

Roles == {"system", "user", "assistant", "tool"}
AtomKinds == {"text", "think", "image", "file", "call", "result"}
Atoms == [by : Roles, kind : AtomKinds, n : Nat]

(* A list has the indices from 1 to its length.                                       *)
LEMMA ListIs ==
  ASSUME NEW S, NEW s \in Seq(S)
  PROVE  Len(s) \in Nat /\ DOMAIN s = 1..Len(s) /\ \A i \in 1..Len(s) : s[i] \in S
  OBVIOUS

(* A mapped list is as long.                                                          *)
LEMMA MappedIs ==
  ASSUME NEW S, NEW f, NEW s \in Seq(S)
  PROVE  Len(Mapped(f, s)) = Len(s)
<1>1. \A i \in 1..Len(s) : Mapped(f, s)[i] = f[s[i]]
  BY DEF Mapped
<1>2. Len(s) \in Nat
  BY ListIs
<1> QED
  BY <1>2 DEF Mapped

(* Its elements are values of the mapping.                                            *)
LEMMA MappedType ==
  ASSUME NEW S, NEW T, NEW f \in [S -> T], NEW s \in Seq(S)
  PROVE  Mapped(f, s) \in Seq(T)
  BY ListIs DEF Mapped

(* The numbers ns as atoms of one kind.                                               *)
Same(by, kind, ns) == [i \in 1..Len(ns) |-> Atom(by, kind, ns[i])]

(* Atoms, as many as the numbers.                                                     *)
LEMMA SameType ==
  ASSUME NEW by \in Roles, NEW kind \in AtomKinds, NEW ns \in Seq(Nat)
  PROVE  Same(by, kind, ns) \in Seq(Atoms) /\ Len(Same(by, kind, ns)) = Len(ns)
<1>1. PICK f \in [Nat -> Atoms] : f = [n \in Nat |-> Atom(by, kind, n)]
  BY DEF Atom, Atoms
<1>2. Same(by, kind, ns) = Mapped(f, ns)
  <2>1. \A i \in 1..Len(ns) : Atom(by, kind, ns[i]) = f[ns[i]]
    BY <1>1, ListIs
  <2> QED
    BY <2>1 DEF Same, Mapped
<1>3. Mapped(f, ns) \in Seq(Atoms)
  BY MappedType
<1>4. Len(Mapped(f, ns)) = Len(ns)
  BY MappedIs
<1> QED
  BY <1>2, <1>3, <1>4

(* Concatenation is associative.                                                      *)
LEMMA AtomsAssociative == \A a, b, c \in Seq(Atoms) : a \o (b \o c) = (a \o b) \o c
<1> TAKE a, b, c \in Seq(Atoms)
<1>1. PICK S : S = Atoms
  OBVIOUS
<1>2. a \in Seq(S) /\ b \in Seq(S) /\ c \in Seq(S)
  BY <1>1
<1> QED
  BY <1>2, SMT

(* Of no number.                                                                      *)
LEMMA SameNone == \A by, kind : Same(by, kind, <<>>) = <<>>
  BY DEF Same

(* Of one number.                                                                     *)
LEMMA SameOne == \A by, kind, n : Same(by, kind, <<n>>) = <<Atom(by, kind, n)>>
  BY DEF Same

PieceKinds == {"text", "image", "file"}
OnePiece == [kind : PieceKinds, n : Nat]
PieceList == Seq(OnePiece)
OneResult == [id : Nat, parts : PieceList]
ResultList == Seq(OneResult)

(* What a turn's pieces say, as atoms.                                                *)
LEMMA AtomsOfType ==
  ASSUME NEW by \in Roles, NEW pieces \in PieceList
  PROVE  /\ AtomsOf(by, pieces) \in Seq(Atoms)
         /\ AtomsOf(by, pieces) = [i \in 1..Len(pieces) |-> Atom(by, pieces[i].kind, pieces[i].n)]
<1>1. PICK f \in [OnePiece -> Atoms] : f = [p \in OnePiece |-> Atom(by, p.kind, p.n)]
  BY DEF Atom, Atoms, OnePiece, PieceKinds, AtomKinds
<1>2. pieces \in Seq(OnePiece) /\ DOMAIN pieces = 1..Len(pieces)
        /\ \A i \in 1..Len(pieces) : pieces[i] \in OnePiece
  BY ListIs DEF PieceList
<1>3. \A i \in 1..Len(pieces) : Atom(by, pieces[i].kind, pieces[i].n) = f[pieces[i]]
  BY <1>1, <1>2
<1>4. AtomsOf(by, pieces) = [i \in 1..Len(pieces) |-> Atom(by, pieces[i].kind, pieces[i].n)]
  BY <1>2 DEF AtomsOf, Each
<1>5. AtomsOf(by, pieces) = Mapped(f, pieces)
  BY <1>3, <1>4 DEF Mapped
<1>6. Mapped(f, pieces) \in Seq(Atoms)
  BY <1>2, MappedType
<1> QED
  BY <1>4, <1>5, <1>6

(* What content says whose types mean the kinds of table K.                           *)
PartsIn(T) == [type : T, n : Nat]

ContentAtoms(K, by, content) == [i \in 1..Len(content) |-> Atom(by, K[content[i].type], content[i].n)]

(* Content says atoms.                                                                *)
LEMMA ContentType ==
  ASSUME NEW T, NEW K, \A t \in T : K[t] \in AtomKinds, NEW by \in Roles,
         NEW content \in Seq(PartsIn(T))
  PROVE  ContentAtoms(K, by, content) \in Seq(Atoms)
<1>1. PICK f \in [PartsIn(T) -> Atoms] : f = [c \in PartsIn(T) |-> Atom(by, K[c.type], c.n)]
  <2>1. \A c \in PartsIn(T) : Atom(by, K[c.type], c.n) \in Atoms
    BY DEF Atom, Atoms, PartsIn
  <2> QED
    BY <2>1
<1>2. ContentAtoms(K, by, content) = Mapped(f, content)
  <2>1. \A i \in 1..Len(content) : Atom(by, K[content[i].type], content[i].n) = f[content[i]]
    BY <1>1, ListIs
  <2> QED
    BY <2>1 DEF ContentAtoms, Mapped
<1> QED
  BY <1>2, MappedType

(* Table O writes types of T for the kinds, and table K reads them back.              *)
Writes(O, K, T) == \A k \in PieceKinds : O[k] \in T /\ K[O[k]] = k

(* Content that is written for pieces by table O says the pieces.                     *)
LEMMA ContentOfPieces ==
  ASSUME NEW T, NEW K, NEW O, Writes(O, K, T),
         NEW by \in Roles, NEW pieces \in PieceList, NEW c,
         c = [i \in DOMAIN pieces |-> [type |-> O[pieces[i].kind], n |-> pieces[i].n]]
  PROVE  c \in Seq(PartsIn(T)) /\ ContentAtoms(K, by, c) = AtomsOf(by, pieces)
<1>1. Len(pieces) \in Nat /\ DOMAIN pieces = 1..Len(pieces)
        /\ \A i \in 1..Len(pieces) : pieces[i] \in OnePiece
  BY ListIs DEF PieceList
<1>2. \A i \in 1..Len(pieces) : c[i] = [type |-> O[pieces[i].kind], n |-> pieces[i].n]
  BY <1>1
<1>3. \A i \in 1..Len(pieces) : /\ c[i] \in PartsIn(T) /\ c[i].n = pieces[i].n
                                /\ K[c[i].type] = pieces[i].kind
  BY <1>1, <1>2 DEF OnePiece, PartsIn, Writes
<1>4. c = [i \in 1..Len(pieces) |-> c[i]]
  BY <1>1
<1>5. c \in Seq(PartsIn(T)) /\ Len(c) = Len(pieces)
  <2> HIDE <1>2
  <2>1. \A i \in 1..Len(pieces) : c[i] \in PartsIn(T)
    BY <1>3
  <2> QED
    BY <1>1, <2>1, <1>4, TypedList
<1>6. ContentAtoms(K, by, c) = [i \in 1..Len(pieces) |-> Atom(by, pieces[i].kind, pieces[i].n)]
  <2>1. \A i \in 1..Len(pieces) : Atom(by, K[c[i].type], c[i].n) = Atom(by, pieces[i].kind, pieces[i].n)
    BY <1>3
  <2> HIDE <1>3
  <2> QED
    BY <1>5, <2>1, Zenon DEF ContentAtoms
<1> QED
  BY <1>5, <1>6, AtomsOfType

(* Content that gives all numbers one type.                                           *)
LEMMA ContentOfNumbers ==
  ASSUME NEW T, NEW t \in T, NEW ns \in Seq(Nat), NEW c,
         c = [i \in DOMAIN ns |-> [type |-> t, n |-> ns[i]]]
  PROVE  c \in Seq(PartsIn(T))
<1>1. Len(ns) \in Nat /\ DOMAIN ns = 1..Len(ns) /\ \A i \in 1..Len(ns) : ns[i] \in Nat
  BY ListIs
<1>2. c = [i \in 1..Len(ns) |-> c[i]] /\ \A i \in 1..Len(ns) : c[i] = [type |-> t, n |-> ns[i]]
  BY <1>1
<1>3. \A i \in 1..Len(ns) : c[i] \in PartsIn(T)
  BY <1>1, <1>2 DEF PartsIn
<1> QED
  BY <1>1, <1>2, <1>3, TypedList

(* Content that gives all numbers one type says atoms of one kind.                    *)
LEMMA NumbersRead ==
  ASSUME NEW t, NEW K, NEW by, NEW ns \in Seq(Nat), NEW c,
         c = [i \in DOMAIN ns |-> [type |-> t, n |-> ns[i]]]
  PROVE  ContentAtoms(K, by, c) = Same(by, K[t], ns)
<1>1. Len(ns) \in Nat /\ DOMAIN ns = 1..Len(ns)
  BY ListIs
<1>2. c = [i \in 1..Len(ns) |-> c[i]] /\ \A i \in 1..Len(ns) : c[i].type = t /\ c[i].n = ns[i]
  BY <1>1
<1>3. Len(c) = Len(ns)
  BY <1>1, <1>2
<1> QED
  BY <1>2, <1>3 DEF ContentAtoms, Same

(* What a user's turn says.                                                           *)
ResultAtoms(r) == <<Atom("tool", "result", r.id)>> \o AtomsOf("tool", r.parts)

Heard(results, said) ==
    FlattenSeq([i \in 1..Len(results) |-> ResultAtoms(results[i])]) \o AtomsOf("user", said)

(* The call, then the pieces of its result.                                           *)
LEMMA ResultAtomsType ==
  ASSUME NEW r \in OneResult
  PROVE  ResultAtoms(r) \in Seq(Atoms)
<1>1. r.parts \in PieceList /\ Atom("tool", "result", r.id) \in Atoms
  BY DEF OneResult, Atom, Atoms, Roles, AtomKinds
<1>2. <<Atom("tool", "result", r.id)>> \in Seq(Atoms) /\ AtomsOf("tool", r.parts) \in Seq(Atoms)
  BY <1>1, AtomsOfType DEF Roles
<1> QED
  BY <1>2, ConcatProperties DEF ResultAtoms

(* What an answer says.                                                               *)
Answered(think, text, calls) ==
    Same("assistant", "think", think) \o Same("assistant", "text", text)
    \o Same("assistant", "call", calls)

------------------------------------------------------------------------------------
ChatTypes == {"text", "image_url", "file"}
ChatParts == PartsIn(ChatTypes)
ChatMessages == [role : Roles, content : Seq(ChatParts), tool_calls : Seq(Nat),
                 tool_call_id : Nat, reasoning : Seq(Nat)]

(* Every type of part is read as a kind, and written for it.                          *)
LEMMA ChatKinds ==
  /\ \A t \in ChatTypes : Chat!Kinds[t] \in AtomKinds
  /\ Writes(Chat!TypeOf, Chat!Kinds, ChatTypes)
  /\ Chat!Kinds["text"] = "text" /\ "text" \in ChatTypes
  BY DEF Chat!Kinds, Chat!TypeOf, ChatTypes, AtomKinds, PieceKinds, Writes

ChatAtoms(role, content) == ContentAtoms(Chat!Kinds, role, content)

(* The content of a Chat message says atoms.                                          *)
LEMMA ChatAtomsType ==
  ASSUME NEW role \in Roles, NEW content \in Seq(ChatParts)
  PROVE  ChatAtoms(role, content) \in Seq(Atoms)
  BY ChatKinds, ContentType DEF ChatAtoms, ChatParts

ResultOf(m) == IF m.role = "tool" THEN <<m.tool_call_id>> ELSE <<>>

(* What a Chat message says: result, thinking, content and calls, in this order.      *)
LEMMA ChatReads ==
  ASSUME NEW m \in ChatMessages
  PROVE  /\ Chat!ReadMessage(m) \in Seq(Atoms)
         /\ Chat!ReadMessage(m) = Same(m.role, "result", ResultOf(m))
             \o Same(m.role, "think", m.reasoning)
             \o ChatAtoms(m.role, m.content)
             \o Same(m.role, "call", m.tool_calls)
<1>1. m.role \in Roles /\ m.content \in Seq(ChatParts) /\ m.tool_calls \in Seq(Nat)
        /\ m.reasoning \in Seq(Nat) /\ m.tool_call_id \in Nat
  BY DEF ChatMessages
<1>2. ResultOf(m) \in Seq(Nat)
  BY <1>1 DEF ResultOf
<1>4. Chat!ReadMessage(m) = Same(m.role, "result", ResultOf(m)) \o Same(m.role, "think", m.reasoning)
                               \o ChatAtoms(m.role, m.content) \o Same(m.role, "call", m.tool_calls)
  <2>1. DOMAIN m.content = 1..Len(m.content) /\ DOMAIN m.reasoning = 1..Len(m.reasoning)
        /\ DOMAIN m.tool_calls = 1..Len(m.tool_calls) /\ DOMAIN ResultOf(m) = 1..Len(ResultOf(m))
    BY <1>1, <1>2, ListIs
  <2> QED
    BY <2>1, Zenon DEF Chat!ReadMessage, Chat!Each, Same, Atom, ChatAtoms, ContentAtoms, ResultOf
<1>5. Same(m.role, "result", ResultOf(m)) \in Seq(Atoms)
        /\ Same(m.role, "think", m.reasoning) \in Seq(Atoms)
      /\ Same(m.role, "call", m.tool_calls) \in Seq(Atoms)
  BY <1>1, <1>2, SameType DEF AtomKinds
<1>6. Chat!ReadMessage(m) \in Seq(Atoms)
  BY <1>1, <1>4, <1>5, ChatAtomsType, ConcatProperties
<1> QED
  BY <1>4, <1>6

ReadChat == [m \in ChatMessages |-> Chat!ReadMessage(m)]

(* Atoms, of every message.                                                           *)
LEMMA ReadChatMakes == Makes(ReadChat, ChatMessages, Atoms)
  BY ChatReads DEF ReadChat, Makes

(* A Chat document says what its messages say.                                        *)
LEMMA ChatFlat ==
  ASSUME NEW ms \in Seq(ChatMessages), NEW d, d.messages = ms
  PROVE  Chat!Read(d) = Flat(ReadChat, ms)
<1>1. DOMAIN ms = 1..Len(ms) /\ \A i \in 1..Len(ms) : Chat!ReadMessage(ms[i]) = ReadChat[ms[i]]
  BY ListIs DEF ReadChat
<1>2. [i \in DOMAIN ms |-> Chat!ReadMessage(ms[i])] = [i \in 1..Len(ms) |-> ReadChat[ms[i]]]
  BY <1>1
<1>3. Chat!Read(d) = FlattenSeq([i \in DOMAIN ms |-> Chat!ReadMessage(ms[i])])
  BY DEF Chat!Read, Chat!Each, Chat!FlattenSeq, FlattenSeq
<1> QED
  BY <1>2, <1>3 DEF Flat

(* Messages added to a Chat document are read after what was there.                   *)
LEMMA ChatAdd ==
  ASSUME NEW d \in [messages : Seq(ChatMessages)], NEW e \in Seq(ChatMessages)
  PROVE  /\ Chat!Add(d, e) \in [messages : Seq(ChatMessages)]
         /\ Chat!Read(Chat!Add(d, e)) = Chat!Read(d) \o Flat(ReadChat, e)
<1>1. PICK ms \in Seq(ChatMessages) : ms = d.messages
  OBVIOUS
<1>2. ms \o e \in Seq(ChatMessages)
  BY ConcatProperties
<1>3. Chat!Add(d, e) \in [messages : Seq(ChatMessages)] /\ Chat!Add(d, e).messages = ms \o e
  BY <1>1, <1>2 DEF Chat!Add
<1>4. Chat!Read(Chat!Add(d, e)) = Flat(ReadChat, ms \o e) /\ Chat!Read(d) = Flat(ReadChat, ms)
  BY <1>1, <1>2, <1>3, ChatFlat
<1>5. Flat(ReadChat, ms \o e) = Flat(ReadChat, ms) \o Flat(ReadChat, e)
  BY ReadChatMakes, FlatJoins
<1> QED
  BY <1>3, <1>4, <1>5

------------------------------------------------------------------------------------
(* The content of a Chat message that says these pieces.                              *)
ChatContent(pieces) == [i \in DOMAIN pieces |-> Chat!Part(Chat!TypeOf[pieces[i].kind], pieces[i].n)]

(* It does say them.                                                                  *)
LEMMA ChatContentReads ==
  ASSUME NEW pieces \in PieceList, NEW by \in Roles
  PROVE  ChatContent(pieces) \in Seq(ChatParts)
          /\ ChatAtoms(by, ChatContent(pieces)) = AtomsOf(by, pieces)
<1>1. ChatContent(pieces)
        = [i \in DOMAIN pieces |-> [type |-> Chat!TypeOf[pieces[i].kind], n |-> pieces[i].n]]
  BY DEF ChatContent, Chat!Part
<1> QED
  BY <1>1, ChatKinds, ContentOfPieces DEF ChatParts, ChatAtoms

(* A tool message says the result of its call.                                        *)
LEMMA ChatResultReads ==
  ASSUME NEW r \in OneResult
  PROVE  /\ Chat!ToolMessage(r.id, ChatContent(r.parts)) \in ChatMessages
         /\ Chat!ReadMessage(Chat!ToolMessage(r.id, ChatContent(r.parts))) = ResultAtoms(r)
<1>1. r.parts \in PieceList /\ r.id \in Nat
  BY DEF OneResult
<1>2. PICK m : m = Chat!ToolMessage(r.id, ChatContent(r.parts))
  OBVIOUS
<1>3. m = [role |-> "tool", content |-> ChatContent(r.parts), tool_calls |-> <<>>,
           tool_call_id |-> r.id, reasoning |-> <<>>]
  BY <1>2 DEF Chat!ToolMessage, Chat!Message
<1>4. m \in ChatMessages
  BY <1>1, <1>3, ChatContentReads DEF ChatMessages, Roles
<1>5. Chat!ReadMessage(m) = Same("tool", "result", <<r.id>>) \o <<>> \o AtomsOf("tool", r.parts) \o <<>>
  BY <1>1, <1>3, <1>4, ChatReads, ChatContentReads, SameNone DEF ResultOf, Roles
<1>6. Same("tool", "result", <<r.id>>) = <<Atom("tool", "result", r.id)>>
        /\ Same("tool", "result", <<r.id>>) \in Seq(Atoms)
  <2>1. <<r.id>> \in Seq(Nat)
    BY <1>1
  <2> QED
    BY <2>1, SameOne, SameType DEF Roles, AtomKinds
<1>7. ResultAtoms(r) \in Seq(Atoms) /\ AtomsOf("tool", r.parts) \in Seq(Atoms)
  BY <1>1, ResultAtomsType, AtomsOfType DEF Roles
<1>8. Chat!ReadMessage(m) = ResultAtoms(r)
  BY <1>5, <1>6, <1>7, ConcatEmptySeq DEF ResultAtoms
<1> QED
  BY <1>2, <1>4, <1>8

ChatResults(results) ==
    [i \in DOMAIN results |-> Chat!ToolMessage(results[i].id, ChatContent(results[i].parts))]

(* The results say what they say one by one.                                          *)
LEMMA ChatResultsRead ==
  ASSUME NEW results \in ResultList
  PROVE  /\ ChatResults(results) \in Seq(ChatMessages)
         /\ Flat(ReadChat, ChatResults(results))
                 = FlattenSeq([i \in 1..Len(results) |-> ResultAtoms(results[i])])
<1>1. Len(results) \in Nat /\ DOMAIN results = 1..Len(results)
        /\ \A i \in 1..Len(results) : results[i] \in OneResult
  <2>1. results \in Seq(OneResult)
    BY DEF ResultList, OneResult
  <2> QED
    BY <2>1, ListIs
<1>2. PICK ms : ms = ChatResults(results)
  OBVIOUS
<1>3. \A i \in 1..Len(results) : /\ ms[i]
                                     = Chat!ToolMessage(results[i].id, ChatContent(results[i].parts))
                                 /\ ms[i] \in ChatMessages
                                 /\ ReadChat[ms[i]] = ResultAtoms(results[i])
  BY <1>1, <1>2, ChatResultReads DEF ChatResults, ReadChat
<1>4. ms = [i \in 1..Len(results) |-> ms[i]]
  BY <1>1, <1>2 DEF ChatResults
<1>5. ms \in Seq(ChatMessages) /\ Len(ms) = Len(results)
  BY <1>1, <1>3, <1>4, TypedList
<1>6. [i \in 1..Len(ms) |-> ReadChat[ms[i]]] = [i \in 1..Len(results) |-> ResultAtoms(results[i])]
  BY <1>3, <1>5
<1> QED
  BY <1>2, <1>5, <1>6 DEF Flat

(* A message that is no result says its thinking, content and calls.                  *)
LEMMA ChatMessageReads ==
  ASSUME NEW by \in Roles, by # "tool", NEW content \in Seq(ChatParts), NEW calls \in Seq(Nat),
         NEW think \in Seq(Nat)
  PROVE  /\ Chat!Message(by, content, calls, think) \in ChatMessages
         /\ Flat(ReadChat, <<Chat!Message(by, content, calls, think)>>) =
               Same(by, "think", think) \o ChatAtoms(by, content) \o Same(by, "call", calls)
<1>1. PICK m : m = Chat!Message(by, content, calls, think)
  OBVIOUS
<1>2. m = [role |-> by, content |-> content, tool_calls |-> calls, tool_call_id |-> 0,
           reasoning |-> think]
  BY <1>1 DEF Chat!Message, Chat!NoCall
<1>3. m \in ChatMessages
  BY <1>2 DEF ChatMessages
<1>4. Chat!ReadMessage(m) = <<>> \o Same(by, "think", think) \o ChatAtoms(by, content)
        \o Same(by, "call", calls)
  BY <1>2, <1>3, ChatReads, SameNone DEF ResultOf
<1>5. Same(by, "think", think) \in Seq(Atoms)
  BY SameType DEF AtomKinds
<1>6. <<>> \o Same(by, "think", think) = Same(by, "think", think)
  BY <1>5, ConcatEmptySeq
<1>7. Flat(ReadChat, <<m>>) = ReadChat[m]
  BY <1>3, ReadChatMakes, FlatOne
<1> QED
  BY <1>1, <1>3, <1>4, <1>6, <1>7 DEF ReadChat

(* A message without thinking and calls says its content.                             *)
LEMMA ChatSaysOnly ==
  ASSUME NEW by \in Roles, by # "tool", NEW content \in Seq(ChatParts)
  PROVE  /\ Chat!Message(by, content, <<>>, <<>>) \in ChatMessages
         /\ Flat(ReadChat, <<Chat!Message(by, content, <<>>, <<>>)>>) = ChatAtoms(by, content)
<1>1. PICK none \in Seq(Nat) : none = <<>>
  <2>1. <<>> \in Seq(Nat)
    OBVIOUS
  <2> QED
    BY <2>1
<1>2. PICK m : m = Chat!Message(by, content, none, none)
  OBVIOUS
<1>3. m \in ChatMessages
  BY <1>2, ChatMessageReads
<1>4. Flat(ReadChat, <<m>>) = Same(by, "think", none) \o ChatAtoms(by, content)
        \o Same(by, "call", none)
  BY <1>2, ChatMessageReads
<1>5. Flat(ReadChat, <<m>>) = <<>> \o ChatAtoms(by, content) \o <<>>
  BY <1>1, <1>4, SameNone
<1>6. ChatAtoms(by, content) \in Seq(Atoms)
  BY ChatAtomsType
<1>7. <<>> \o ChatAtoms(by, content) \o <<>> = ChatAtoms(by, content)
  BY <1>6, ConcatEmptySeq
<1> QED
  BY <1>1, <1>2, <1>3, <1>5, <1>7

(* A user's turn, results and words, written in Chat.                                 *)
LEMMA ChatSaid ==
  ASSUME NEW results \in ResultList, NEW said \in PieceList
  PROVE  /\ Chat!Said(results, said) \in Seq(ChatMessages)
         /\ Flat(ReadChat, Chat!Said(results, said)) = Heard(results, said)
<1> DEFINE own == IF said = <<>> THEN <<>> ELSE <<Chat!Message("user", ChatContent(said), <<>>, <<>>)>>
<1>1. Chat!Said(results, said) = ChatResults(results) \o own
  BY Zenon DEF Chat!Said, Chat!Each, ChatResults, ChatContent
<1>2. own \in Seq(ChatMessages) /\ Flat(ReadChat, own) = AtomsOf("user", said)
  <2>1. CASE said = <<>>
    <3>1. AtomsOf("user", said) = <<>>
      BY <2>1, AtomsOfType DEF Roles
    <3> QED
      BY <2>1, <3>1, FlatEmpty
  <2>2. CASE said # <<>>
    <3>1. ChatContent(said) \in Seq(ChatParts)
            /\ ChatAtoms("user", ChatContent(said)) = AtomsOf("user", said)
      BY ChatContentReads DEF Roles
    <3>2. /\ Chat!Message("user", ChatContent(said), <<>>, <<>>) \in ChatMessages
          /\ Flat(ReadChat, <<Chat!Message("user", ChatContent(said), <<>>, <<>>)>>)
                  = AtomsOf("user", said)
      BY <3>1, ChatSaysOnly DEF Roles
    <3> QED
      BY <2>2, <3>2
  <2> QED
    BY <2>1, <2>2
<1> HIDE DEF own
<1>3. ChatResults(results) \in Seq(ChatMessages)
  BY ChatResultsRead
<1>4. Flat(ReadChat, ChatResults(results) \o own) = Flat(ReadChat, ChatResults(results))
        \o Flat(ReadChat, own)
  BY <1>2, <1>3, ReadChatMakes, FlatJoins
<1>5. ChatResults(results) \o own \in Seq(ChatMessages)
  BY <1>2, <1>3, ConcatProperties
<1> QED
  BY <1>1, <1>2, <1>4, <1>5, ChatResultsRead DEF Heard

(* The parts of a text.                                                               *)
LEMMA ChatPartsRead ==
  ASSUME NEW text \in Seq(Nat), NEW by \in Roles
  PROVE  /\ Chat!Parts("text", text) \in Seq(ChatParts)
         /\ ChatAtoms(by, Chat!Parts("text", text)) = Same(by, "text", text)
<1>1. Chat!Parts("text", text) = [i \in DOMAIN text |-> [type |-> "text", n |-> text[i]]]
  BY DEF Chat!Parts, Chat!Each, Chat!Part
<1>2. PICK c : c = Chat!Parts("text", text)
  OBVIOUS
<1>3. c \in Seq(PartsIn(ChatTypes))
  BY <1>1, <1>2, ChatKinds, ContentOfNumbers
<1>4. ContentAtoms(Chat!Kinds, by, c) = Same(by, Chat!Kinds["text"], text)
  BY <1>1, <1>2, NumbersRead
<1> QED
  BY <1>2, <1>3, <1>4, ChatKinds DEF ChatParts, ChatAtoms

(* The message a client keeps of a Chat answer says what was answered.                *)
LEMMA ChatAnswered ==
  ASSUME NEW think \in Seq(Nat), NEW text \in Seq(Nat), NEW calls \in Seq(Nat), NEW cut \in BOOLEAN
  PROVE  LET e == Chat!EntriesOf(Chat!Answer(think, text, calls, cut))
         IN  e \in Seq(ChatMessages) /\ Flat(ReadChat, e) = Answered(think, text, calls)
<1>1. PICK m : m = Chat!Message("assistant", Chat!Parts("text", text), calls, think)
  OBVIOUS
<1>2. Chat!EntriesOf(Chat!Answer(think, text, calls, cut)) = <<m>>
  BY <1>1 DEF Chat!EntriesOf, Chat!Answer
<1>3. "assistant" \in Roles /\ "assistant" # "tool"
  BY DEF Roles
<1>4. Chat!Parts("text", text) \in Seq(ChatParts)
        /\ ChatAtoms("assistant", Chat!Parts("text", text)) = Same("assistant", "text", text)
  BY <1>3, ChatPartsRead
<1>5. m \in ChatMessages /\ Flat(ReadChat, <<m>>) = Answered(think, text, calls)
  <2>1. PICK content \in Seq(ChatParts) : content = Chat!Parts("text", text)
    BY <1>4
  <2>2. m = Chat!Message("assistant", content, calls, think)
    BY <1>1, <2>1
  <2>3. /\ m \in ChatMessages
        /\ Flat(ReadChat, <<m>>) = Same("assistant", "think", think) \o ChatAtoms("assistant", content)
                                     \o Same("assistant", "call", calls)
    BY <1>3, <2>2, ChatMessageReads
  <2> QED
    BY <1>4, <2>1, <2>3 DEF Answered
<1> QED
  BY <1>2, <1>5

(* A conversation's beginning.                                                        *)
LEMMA ChatEmpty ==
  ASSUME NEW system \in Seq(Nat)
  PROVE  /\ Chat!Empty(system) \in [messages : Seq(ChatMessages)]
         /\ Chat!Read(Chat!Empty(system)) = Same("system", "text", system)
<1>1. PICK d : d = Chat!Empty(system)
  OBVIOUS
<1>2. CASE system = <<>>
  <2>1. d = [messages |-> <<>>]
    BY <1>1, <1>2 DEF Chat!Empty
  <2>2. d \in [messages : Seq(ChatMessages)] /\ d.messages = <<>> /\ <<>> \in Seq(ChatMessages)
    BY <2>1
  <2>3. Chat!Read(d) = Flat(ReadChat, <<>>)
    BY <2>2, ChatFlat
  <2> QED
    BY <1>1, <1>2, <2>2, <2>3, FlatEmpty, SameNone
<1>3. CASE system # <<>>
  <2>1. "system" \in Roles /\ "system" # "tool"
    BY DEF Roles
  <2>2. Chat!Parts("text", system) \in Seq(ChatParts)
          /\ ChatAtoms("system", Chat!Parts("text", system)) = Same("system", "text", system)
    BY <2>1, ChatPartsRead
  <2>3. PICK m \in ChatMessages : m = Chat!Message("system", Chat!Parts("text", system), <<>>, <<>>)
                /\ Flat(ReadChat, <<m>>) = Same("system", "text", system)
    BY <2>1, <2>2, ChatSaysOnly
  <2>4. d = [messages |-> <<m>>]
    BY <1>1, <1>3, <2>3 DEF Chat!Empty
  <2>5. d \in [messages : Seq(ChatMessages)] /\ d.messages = <<m>> /\ <<m>> \in Seq(ChatMessages)
    BY <2>4
  <2>6. Chat!Read(d) = Flat(ReadChat, <<m>>)
    BY <2>5, ChatFlat
  <2> QED
    BY <1>1, <2>3, <2>5, <2>6
<1> QED
  BY <1>2, <1>3

------------------------------------------------------------------------------------
ResTypes == {"text", "input_text", "output_text", "summary_text", "input_image", "input_file"}
ResParts == PartsIn(ResTypes)
Items == [type : {"message", "reasoning", "function_call", "function_call_output"},
          role : Roles, content : Seq(ResParts), call_id : Nat]
FrontParts == PartsIn({"text"})
ResDocs == [instructions : Seq(FrontParts), input : Seq(Items)]

(* Every type of part is read as a kind, and written for it.                          *)
LEMMA ResKinds ==
  /\ \A t \in ResTypes : Responses!Kinds[t] \in AtomKinds
  /\ Writes(Responses!TypeOf, Responses!Kinds, ResTypes)
  /\ Responses!Kinds["text"] = "text" /\ "text" \in ResTypes
  /\ Responses!Kinds["output_text"] = "text" /\ "output_text" \in ResTypes
  /\ Responses!Kinds["summary_text"] = "think" /\ "summary_text" \in ResTypes
  BY DEF Responses!Kinds, Responses!TypeOf, ResTypes, AtomKinds, PieceKinds, Writes

ResAtoms(role, content) == ContentAtoms(Responses!Kinds, role, content)

(* The content of an item says atoms.                                                 *)
LEMMA ResAtomsType ==
  ASSUME NEW role \in Roles, NEW content \in Seq(ResParts)
  PROVE  ResAtoms(role, content) \in Seq(Atoms)
  BY ResKinds, ContentType DEF ResAtoms, ResParts

(* What an item says by itself.                                                       *)
ItemAtoms(it) ==
    IF it.type = "function_call" THEN <<Atom("assistant", "call", it.call_id)>>
    ELSE IF it.type = "function_call_output" THEN <<Atom("tool", "result", it.call_id)>>
    ELSE <<>>

(* An item says itself, then its content.                                             *)
LEMMA ResReads ==
  ASSUME NEW it \in Items
  PROVE  /\ Responses!ReadItem(it) = ItemAtoms(it) \o ResAtoms(it.role, it.content)
         /\ Responses!ReadItem(it) \in Seq(Atoms)
<1>1. it.role \in Roles /\ it.content \in Seq(ResParts) /\ it.call_id \in Nat
  BY DEF Items
<1>2. DOMAIN it.content = 1..Len(it.content)
  BY <1>1, ListIs
<1>3. Responses!ReadItem(it) = ItemAtoms(it) \o ResAtoms(it.role, it.content)
  <2>1. (CASE it.type = "function_call" -> <<[by |-> "assistant", kind |-> "call", n |-> it.call_id]>>
         [] it.type = "function_call_output" -> <<[by |-> "tool", kind |-> "result", n |-> it.call_id]>>
         [] OTHER -> <<>>) = ItemAtoms(it)
    BY DEF ItemAtoms, Atom
  <2>2. Responses!Each(LAMBDA c : [by |-> it.role, kind |-> Responses!Kinds[c.type], n |-> c.n],
                       it.content)
            = ResAtoms(it.role, it.content)
    BY <1>2 DEF Responses!Each, ResAtoms, ContentAtoms, Atom
  <2> QED
    BY <2>1, <2>2 DEF Responses!ReadItem
<1>4. ItemAtoms(it) \in Seq(Atoms)
  <2>1. Atom("assistant", "call", it.call_id) \in Atoms /\ Atom("tool", "result", it.call_id) \in Atoms
    BY <1>1 DEF Atom, Atoms, Roles, AtomKinds
  <2> QED
    BY <2>1 DEF ItemAtoms
<1>5. ResAtoms(it.role, it.content) \in Seq(Atoms)
  BY <1>1, ResAtomsType
<1> QED
  BY <1>3, <1>4, <1>5, ConcatProperties

ReadRes == [it \in Items |-> Responses!ReadItem(it)]

(* Atoms, of every item.                                                              *)
LEMMA ReadResMakes == Makes(ReadRes, Items, Atoms)
  BY ResReads DEF ReadRes, Makes

(* Items after items are read one list after the other.                               *)
LEMMA ResJoins == \A s, t \in Seq(Items) : Flat(ReadRes, s \o t) = Flat(ReadRes, s) \o Flat(ReadRes, t)
  BY ReadResMakes, FlatJoins

(* What stands before the items or messages.                                          *)
SystemAtoms(parts) == [i \in DOMAIN parts |-> Atom("system", "text", parts[i].n)]

(* The system prompt says atoms.                                                      *)
LEMMA FrontType ==
  ASSUME NEW parts \in Seq(FrontParts)
  PROVE  SystemAtoms(parts) \in Seq(Atoms)
<1>1. PICK f \in [FrontParts -> Atoms] : f = [c \in FrontParts |-> Atom("system", "text", c.n)]
  BY DEF Atom, Atoms, FrontParts, PartsIn, Roles, AtomKinds
<1>2. SystemAtoms(parts) = Mapped(f, parts)
  <2>1. DOMAIN parts = 1..Len(parts)
          /\ \A i \in 1..Len(parts) : Atom("system", "text", parts[i].n) = f[parts[i]]
    BY <1>1, ListIs
  <2> QED
    BY <2>1 DEF SystemAtoms, Mapped
<1> QED
  BY <1>2, MappedType

(* Texts that make a system prompt are what it says.                                  *)
LEMMA FrontOf ==
  ASSUME NEW system \in Seq(Nat), NEW parts,
         parts = [i \in DOMAIN system |-> [type |-> "text", n |-> system[i]]]
  PROVE  parts \in Seq(FrontParts) /\ SystemAtoms(parts) = Same("system", "text", system)
<1>1. DOMAIN system = 1..Len(system) /\ Len(system) \in Nat
        /\ \A i \in 1..Len(system) : system[i] \in Nat
  BY ListIs
<1>2. parts = [i \in 1..Len(system) |-> parts[i]] /\ \A i \in 1..Len(system) : parts[i] \in FrontParts
  BY <1>1 DEF FrontParts, PartsIn
<1>3. parts \in Seq(FrontParts)
  BY <1>1, <1>2, TypedList
<1>4. SystemAtoms(parts) = Same("system", "text", system)
  BY <1>1 DEF SystemAtoms, Same
<1> QED
  BY <1>3, <1>4

(* A Responses document says its instructions, then its items.                        *)
LEMMA ResFlat ==
  ASSUME NEW is \in Seq(Items), NEW d, d.input = is
  PROVE  Responses!Read(d) = SystemAtoms(d.instructions) \o Flat(ReadRes, is)
<1>1. DOMAIN is = 1..Len(is) /\ \A i \in 1..Len(is) : Responses!ReadItem(is[i]) = ReadRes[is[i]]
  BY ListIs DEF ReadRes
<1>2. [i \in DOMAIN is |-> Responses!ReadItem(is[i])] = [i \in 1..Len(is) |-> ReadRes[is[i]]]
  BY <1>1
<1>3. Responses!Read(d) = SystemAtoms(d.instructions)
        \o FlattenSeq([i \in DOMAIN is |-> Responses!ReadItem(is[i])])
  <2>1. Responses!Each(LAMBDA c : [by |-> "system", kind |-> "text", n |-> c.n], d.instructions)
            = SystemAtoms(d.instructions)
    BY DEF Responses!Each, SystemAtoms, Atom
  <2>2. Responses!FlattenSeq(Responses!Each(Responses!ReadItem, d.input))
            = FlattenSeq([i \in DOMAIN is |-> Responses!ReadItem(is[i])])
    BY DEF Responses!Each, Responses!FlattenSeq, FlattenSeq
  <2> QED
    BY <2>1, <2>2 DEF Responses!Read
<1> QED
  BY <1>2, <1>3 DEF Flat

(* Items added to a Responses document are read after what was there.                 *)
LEMMA ResAdd ==
  ASSUME NEW d \in ResDocs, NEW e \in Seq(Items)
  PROVE  /\ Responses!Add(d, e) \in ResDocs
         /\ Responses!Read(Responses!Add(d, e)) = Responses!Read(d) \o Flat(ReadRes, e)
<1>1. PICK is \in Seq(Items) : is = d.input
  BY DEF ResDocs
<1>2. PICK f \in Seq(FrontParts) : f = d.instructions
  BY DEF ResDocs
<1>3. is \o e \in Seq(Items)
  BY ConcatProperties
<1>4. Responses!Add(d, e) = [instructions |-> f, input |-> is \o e]
  <2>1. d = [instructions |-> f, input |-> is]
    BY <1>1, <1>2 DEF ResDocs
  <2>2. \A x : [d EXCEPT !.input = x] = [instructions |-> f, input |-> x]
    BY <2>1
  <2>3. Responses!Add(d, e) = [d EXCEPT !.input = is \o e]
    BY <1>1 DEF Responses!Add
  <2> QED
    BY <2>2, <2>3
<1>5. Responses!Add(d, e) \in ResDocs
  BY <1>3, <1>4 DEF ResDocs
<1>6. /\ Responses!Read(Responses!Add(d, e)) = SystemAtoms(f) \o Flat(ReadRes, is \o e)
      /\ Responses!Read(d) = SystemAtoms(f) \o Flat(ReadRes, is)
  <2>1. PICK a : a = Responses!Add(d, e)
    OBVIOUS
  <2>2. a.input = is \o e /\ a.instructions = f
    BY <1>4, <2>1
  <2>3. Responses!Read(a) = SystemAtoms(a.instructions) \o Flat(ReadRes, is \o e)
    BY <1>3, <2>2, ResFlat
  <2>4. Responses!Read(d) = SystemAtoms(d.instructions) \o Flat(ReadRes, is)
    BY <1>1, ResFlat
  <2> QED
    BY <1>2, <2>1, <2>2, <2>3, <2>4
<1>7. Flat(ReadRes, is \o e) = Flat(ReadRes, is) \o Flat(ReadRes, e)
  BY ReadResMakes, FlatJoins
<1>8. SystemAtoms(f) \in Seq(Atoms) /\ Flat(ReadRes, is) \in Seq(Atoms)
        /\ Flat(ReadRes, e) \in Seq(Atoms)
  BY FrontType, ReadResMakes, FlatType
<1>9. SystemAtoms(f) \o (Flat(ReadRes, is) \o Flat(ReadRes, e))
        = (SystemAtoms(f) \o Flat(ReadRes, is)) \o Flat(ReadRes, e)
  BY <1>8, AtomsAssociative
<1> QED
  BY <1>5, <1>6, <1>7, <1>9

(* An item that is no call and no result says its content.                            *)
LEMMA ResItemReads ==
  ASSUME NEW t \in {"message", "reasoning"}, NEW by \in Roles, NEW content \in Seq(ResParts)
  PROVE  /\ Responses!Item(t, by, content, Responses!NoCall) \in Items
         /\ Flat(ReadRes, <<Responses!Item(t, by, content, Responses!NoCall)>>) = ResAtoms(by, content)
<1>1. PICK it : it = Responses!Item(t, by, content, Responses!NoCall)
  OBVIOUS
<1>2. it = [type |-> t, role |-> by, content |-> content, call_id |-> 0]
  BY <1>1 DEF Responses!Item, Responses!NoCall
<1>3. it \in Items
  BY <1>2 DEF Items
<1>4. ItemAtoms(it) = <<>>
  BY <1>2 DEF ItemAtoms
<1>5. Responses!ReadItem(it) = <<>> \o ResAtoms(by, content)
  BY <1>2, <1>3, <1>4, ResReads
<1>6. <<>> \o ResAtoms(by, content) = ResAtoms(by, content)
  BY ResAtomsType, ConcatEmptySeq
<1>7. Flat(ReadRes, <<it>>) = ReadRes[it]
  BY <1>3, ReadResMakes, FlatOne
<1> QED
  BY <1>1, <1>3, <1>5, <1>6, <1>7 DEF ReadRes

(* The numbers of a list of pieces, as parts of one type.                             *)
LEMMA ResPartsRead ==
  ASSUME NEW ns \in Seq(Nat), NEW t \in ResTypes, NEW by \in Roles
  PROVE  /\ Responses!Parts(t, ns) \in Seq(ResParts)
         /\ ResAtoms(by, Responses!Parts(t, ns)) = Same(by, Responses!Kinds[t], ns)
<1>1. PICK c : c = Responses!Parts(t, ns)
  OBVIOUS
<1>2. c = [i \in DOMAIN ns |-> [type |-> t, n |-> ns[i]]]
  BY <1>1 DEF Responses!Parts, Responses!Each, Responses!Part
<1>3. c \in Seq(PartsIn(ResTypes))
  BY <1>2, ContentOfNumbers
<1>4. ContentAtoms(Responses!Kinds, by, c) = Same(by, Responses!Kinds[t], ns)
  BY <1>2, NumbersRead
<1> QED
  BY <1>1, <1>3, <1>4 DEF ResParts, ResAtoms

(* A reasoning item, if there is thinking.                                            *)
LEMMA ResThinks ==
  ASSUME NEW think \in Seq(Nat)
  PROVE  LET a == IF think = <<>> THEN <<>> ELSE <<Responses!Reasoning(think)>>
         IN  a \in Seq(Items) /\ Flat(ReadRes, a) = Same("assistant", "think", think)
<1>1. CASE think = <<>>
  BY <1>1, FlatEmpty, SameNone
<1>2. CASE think # <<>>
  <2>1. "assistant" \in Roles /\ "summary_text" \in ResTypes
          /\ Responses!Kinds["summary_text"] = "think"
    BY ResKinds DEF Roles
  <2>2. /\ Responses!Parts("summary_text", think) \in Seq(ResParts)
        /\ ResAtoms("assistant", Responses!Parts("summary_text", think))
                = Same("assistant", "think", think)
    BY <2>1, ResPartsRead
  <2>3. PICK it \in Items : /\ it = Responses!Reasoning(think)
                            /\ Flat(ReadRes, <<it>>) = Same("assistant", "think", think)
    BY <2>1, <2>2, ResItemReads DEF Responses!Reasoning
  <2> QED
    BY <1>2, <2>3
<1> QED
  BY <1>1, <1>2

(* A message, if there is text; and perhaps an empty one if there is none.            *)
LEMMA ResTexts ==
  ASSUME NEW text \in Seq(Nat), NEW P \in BOOLEAN, P => text = <<>>
  PROVE  LET a == IF P THEN <<>>
                  ELSE <<Responses!Item("message", "assistant", Responses!Parts("output_text", text),
                                        Responses!NoCall)>>
         IN  a \in Seq(Items) /\ Flat(ReadRes, a) = Same("assistant", "text", text)
<1>1. CASE P
  BY <1>1, FlatEmpty, SameNone
<1>2. CASE ~P
  <2>1. "assistant" \in Roles /\ "output_text" \in ResTypes /\ Responses!Kinds["output_text"] = "text"
    BY ResKinds DEF Roles
  <2>2. /\ Responses!Parts("output_text", text) \in Seq(ResParts)
        /\ ResAtoms("assistant", Responses!Parts("output_text", text)) = Same("assistant", "text", text)
    BY <2>1, ResPartsRead
  <2>3. PICK it \in Items : /\ it
                                = Responses!Item("message", "assistant",
                                                 Responses!Parts("output_text", text), Responses!NoCall)
                            /\ Flat(ReadRes, <<it>>) = Same("assistant", "text", text)
    BY <2>1, <2>2, ResItemReads
  <2> QED
    BY <1>2, <2>3
<1> QED
  BY <1>1, <1>2

(* An item for every call.                                                            *)
LEMMA ResCalls ==
  ASSUME NEW calls \in Seq(Nat)
  PROVE  LET a == Responses!Each(Responses!Call, calls)
         IN  /\ a \in Seq(Items) /\ Len(a) = Len(calls)
             /\ Flat(ReadRes, a) = Same("assistant", "call", calls)
<1>0. Len(calls) \in Nat /\ DOMAIN calls = 1..Len(calls) /\ \A i \in 1..Len(calls) : calls[i] \in Nat
  BY ListIs
<1>1. PICK a : a = Responses!Each(Responses!Call, calls)
  OBVIOUS
<1>2. a = [i \in 1..Len(calls) |-> a[i]] /\ \A i \in 1..Len(calls) : a[i] = Responses!Call(calls[i])
  BY <1>0, <1>1 DEF Responses!Each
<1>3. \A n \in Nat : Responses!Call(n) \in Items
        /\ ReadRes[Responses!Call(n)] = <<Atom("assistant", "call", n)>>
  <2> TAKE n \in Nat
  <2>1. PICK it : it = Responses!Call(n)
    OBVIOUS
  <2>2. it = [type |-> "function_call", role |-> "assistant", content |-> <<>>, call_id |-> n]
    BY <2>1 DEF Responses!Call, Responses!Item
  <2>3. it \in Items
    BY <2>2 DEF Items, Roles
  <2>4. ItemAtoms(it) = <<Atom("assistant", "call", n)>> /\ ResAtoms(it.role, it.content) = <<>>
    BY <2>2 DEF ItemAtoms, ResAtoms, ContentAtoms
  <2>5. Atom("assistant", "call", n) \in Atoms
    BY DEF Atom, Atoms, Roles, AtomKinds
  <2>6. <<Atom("assistant", "call", n)>> \o <<>> = <<Atom("assistant", "call", n)>>
    BY <2>5, ConcatEmptySeq
  <2> QED
    BY <2>1, <2>3, <2>4, <2>6, ResReads DEF ReadRes
<1>4. \A i \in 1..Len(calls) : a[i] \in Items
        /\ ReadRes[a[i]] = <<Atom("assistant", "call", calls[i])>> /\ a[i].call_id = calls[i]
  BY <1>0, <1>2, <1>3 DEF Responses!Call, Responses!Item
<1>5. a \in Seq(Items) /\ Len(a) = Len(calls)
  BY <1>0, <1>2, <1>4, TypedList
<1>6. PICK m \in [Items -> Atoms] : m = [it \in Items |-> Atom("assistant", "call", it.call_id)]
  BY DEF Items, Atom, Atoms, Roles, AtomKinds
<1>7. OneEach(ReadRes, m, a)
  BY <1>4, <1>5, <1>6 DEF OneEach
<1>8. Flat(ReadRes, a) = Mapped(m, a)
  BY <1>5, <1>7, FlatMapped
<1>9. Mapped(m, a) = Same("assistant", "call", calls)
  BY <1>4, <1>5, <1>6 DEF Same, Mapped
<1> QED
  BY <1>1, <1>5, <1>8, <1>9

(* The items of an answer.                                                            *)
ResOutput(think, text, calls, P) ==
    (IF think = <<>> THEN <<>> ELSE <<Responses!Reasoning(think)>>)
    \o (IF P THEN <<>>
        ELSE <<Responses!Item("message", "assistant", Responses!Parts("output_text", text),
                              Responses!NoCall)>>)
    \o Responses!Each(Responses!Call, calls)

(* They say the answer, whether or not an empty message is among them.                *)
LEMMA ResOutputReads ==
  ASSUME NEW think \in Seq(Nat), NEW text \in Seq(Nat), NEW calls \in Seq(Nat), NEW P \in BOOLEAN,
         P => text = <<>>
  PROVE  /\ ResOutput(think, text, calls, P) \in Seq(Items)
         /\ Flat(ReadRes, ResOutput(think, text, calls, P)) = Answered(think, text, calls)
<1>1. PICK a \in Seq(Items) : /\ a = IF think = <<>> THEN <<>> ELSE <<Responses!Reasoning(think)>>
                              /\ Flat(ReadRes, a) = Same("assistant", "think", think)
  BY ResThinks
<1>2. PICK b \in Seq(Items) : /\ b = IF P THEN <<>>
                                  ELSE <<Responses!Item("message", "assistant",
                                                        Responses!Parts("output_text", text),
                                                                Responses!NoCall)>>
                              /\ Flat(ReadRes, b) = Same("assistant", "text", text)
  BY ResTexts
<1>3. PICK c \in Seq(Items) : /\ c = Responses!Each(Responses!Call, calls)
                              /\ Flat(ReadRes, c) = Same("assistant", "call", calls)
  BY ResCalls
<1>4. PICK ab \in Seq(Items) : ab = a \o b
  BY ConcatProperties
<1>5. ab \o c \in Seq(Items)
  BY ConcatProperties
<1>6. Flat(ReadRes, ab \o c) = Flat(ReadRes, ab) \o Flat(ReadRes, c)
  BY ResJoins
<1>7. Flat(ReadRes, a \o b) = Flat(ReadRes, a) \o Flat(ReadRes, b)
  BY ResJoins
<1>8. ResOutput(think, text, calls, P) = ab \o c
  BY <1>1, <1>2, <1>3, <1>4 DEF ResOutput
<1> QED
  BY <1>1, <1>2, <1>3, <1>4, <1>5, <1>6, <1>7, <1>8 DEF Answered

(* What this result has is text.                                                      *)
OnlyText(r) == \A j \in 1..Len(r.parts) : r.parts[j].kind = "text"

ResResult(r) ==
    Responses!Item("function_call_output", "tool", Responses!Parts("text",
                                                            Responses!Numbers(r.parts)), r.id)

(* The output of a call says its result.                                              *)
LEMMA ResResultReads ==
  ASSUME NEW r \in OneResult, OnlyText(r)
  PROVE  ResResult(r) \in Items /\ ReadRes[ResResult(r)] = ResultAtoms(r)
<1>1. r.parts \in PieceList /\ r.id \in Nat
  BY DEF OneResult
<1>2. Len(r.parts) \in Nat /\ DOMAIN r.parts = 1..Len(r.parts)
        /\ \A i \in 1..Len(r.parts) : r.parts[i] \in OnePiece
  BY <1>1, ListIs DEF PieceList
<1>3. PICK ns : ns = Responses!Numbers(r.parts)
  OBVIOUS
<1>4. ns = [i \in 1..Len(r.parts) |-> ns[i]] /\ \A i \in 1..Len(r.parts) : ns[i] = r.parts[i].n
        /\ ns[i] \in Nat
  BY <1>2, <1>3 DEF Responses!Numbers, Responses!Each, OnePiece
<1>5. ns \in Seq(Nat) /\ Len(ns) = Len(r.parts)
  BY <1>2, <1>4, TypedList
<1>6. "tool" \in Roles /\ "text" \in ResTypes /\ Responses!Kinds["text"] = "text"
  BY ResKinds DEF Roles
<1>7. Responses!Parts("text", ns) \in Seq(ResParts)
        /\ ResAtoms("tool", Responses!Parts("text", ns)) = Same("tool", "text", ns)
  BY <1>5, <1>6, ResPartsRead
<1>8. Same("tool", "text", ns) = AtomsOf("tool", r.parts)
  <2>1. AtomsOf("tool", r.parts)
          = [i \in 1..Len(r.parts) |-> Atom("tool", r.parts[i].kind, r.parts[i].n)]
    BY <1>1, <1>6, AtomsOfType
  <2> QED
    BY <1>4, <1>5, <2>1 DEF Same, OnlyText
<1>9. PICK it : it = ResResult(r)
  OBVIOUS
<1>10. it = [type |-> "function_call_output", role |-> "tool", content |-> Responses!Parts("text",
                                                            ns), call_id |-> r.id]
  BY <1>3, <1>9 DEF ResResult, Responses!Item
<1>11. it \in Items
  BY <1>1, <1>6, <1>7, <1>10 DEF Items
<1>12. ItemAtoms(it) = <<Atom("tool", "result", r.id)>>
  BY <1>10 DEF ItemAtoms
<1>13. ReadRes[it] = ItemAtoms(it) \o ResAtoms("tool", Responses!Parts("text", ns))
  BY <1>10, <1>11, ResReads DEF ReadRes
<1> QED
  BY <1>7, <1>8, <1>9, <1>11, <1>12, <1>13 DEF ResultAtoms

ResResults(results) == [i \in DOMAIN results |-> ResResult(results[i])]

(* The results say what they say one by one.                                          *)
LEMMA ResResultsRead ==
  ASSUME NEW results \in ResultList, \A i \in 1..Len(results) : OnlyText(results[i])
  PROVE  /\ ResResults(results) \in Seq(Items)
         /\ Flat(ReadRes, ResResults(results))
                 = FlattenSeq([i \in 1..Len(results) |-> ResultAtoms(results[i])])
<1>1. Len(results) \in Nat /\ DOMAIN results = 1..Len(results)
        /\ \A i \in 1..Len(results) : results[i] \in OneResult
  BY ListIs DEF ResultList
<1>2. PICK is : is = ResResults(results)
  OBVIOUS
<1>3. \A i \in 1..Len(results) : is[i] \in Items /\ ReadRes[is[i]] = ResultAtoms(results[i])
  BY <1>1, <1>2, ResResultReads DEF ResResults
<1>4. is = [i \in 1..Len(results) |-> is[i]]
  BY <1>1, <1>2 DEF ResResults
<1>5. is \in Seq(Items) /\ Len(is) = Len(results)
  BY <1>1, <1>3, <1>4, TypedList
<1>6. [i \in 1..Len(is) |-> ReadRes[is[i]]] = [i \in 1..Len(results) |-> ResultAtoms(results[i])]
  BY <1>3, <1>5
<1> QED
  BY <1>2, <1>5, <1>6 DEF Flat

ResContent(pieces) == [i \in DOMAIN pieces |-> Responses!Part(Responses!TypeOf[pieces[i].kind],
                                                            pieces[i].n)]

(* The content of an item for these pieces says them.                                 *)
LEMMA ResContentReads ==
  ASSUME NEW pieces \in PieceList, NEW by \in Roles
  PROVE  ResContent(pieces) \in Seq(ResParts) /\ ResAtoms(by, ResContent(pieces)) = AtomsOf(by, pieces)
<1>1. ResContent(pieces) = [i \in DOMAIN pieces |-> [type |-> Responses!TypeOf[pieces[i].kind],
                                                     n |-> pieces[i].n]]
  BY DEF ResContent, Responses!Part
<1> QED
  BY <1>1, ResKinds, ContentOfPieces DEF ResParts, ResAtoms

(* A user's turn, whose results are text, written in Responses.                       *)
LEMMA ResSaid ==
  ASSUME NEW results \in ResultList, \A i \in 1..Len(results) : OnlyText(results[i]),
         NEW said \in PieceList
  PROVE  /\ Responses!Said(results, said) \in Seq(Items)
         /\ Flat(ReadRes, Responses!Said(results, said)) = Heard(results, said)
<1> DEFINE own == IF said = <<>> THEN <<>>
                  ELSE <<Responses!Item("message", "user", ResContent(said), Responses!NoCall)>>
<1>1. Responses!Said(results, said) = ResResults(results) \o own
  BY Zenon DEF Responses!Said, Responses!Each, ResResults, ResResult, ResContent
<1>2. own \in Seq(Items) /\ Flat(ReadRes, own) = AtomsOf("user", said)
  <2>1. CASE said = <<>>
    <3>1. AtomsOf("user", said) = <<>>
      BY <2>1, AtomsOfType DEF Roles
    <3> QED
      BY <2>1, <3>1, FlatEmpty
  <2>2. CASE said # <<>>
    <3>1. ResContent(said) \in Seq(ResParts)
            /\ ResAtoms("user", ResContent(said)) = AtomsOf("user", said)
      BY ResContentReads DEF Roles
    <3>2. PICK it \in Items : /\ it
                                  = Responses!Item("message", "user", ResContent(said), Responses!NoCall)
                              /\ Flat(ReadRes, <<it>>) = AtomsOf("user", said)
      BY <3>1, ResItemReads DEF Roles
    <3> QED
      BY <2>2, <3>2
  <2> QED
    BY <2>1, <2>2
<1> HIDE DEF own
<1>3. ResResults(results) \in Seq(Items)
  BY ResResultsRead
<1>4. Flat(ReadRes, ResResults(results) \o own) = Flat(ReadRes, ResResults(results))
        \o Flat(ReadRes, own)
  BY <1>2, <1>3, ResJoins
<1>5. ResResults(results) \o own \in Seq(Items)
  BY <1>2, <1>3, ConcatProperties
<1> QED
  BY <1>1, <1>2, <1>4, <1>5, ResResultsRead DEF Heard

(* A conversation's beginning.                                                        *)
LEMMA ResEmpty ==
  ASSUME NEW system \in Seq(Nat)
  PROVE  /\ Responses!Empty(system) \in ResDocs
         /\ Responses!Read(Responses!Empty(system)) = Same("system", "text", system)
<1>1. PICK c : c = Responses!Parts("text", system)
  OBVIOUS
<1>2. c = [i \in DOMAIN system |-> [type |-> "text", n |-> system[i]]]
  BY <1>1 DEF Responses!Parts, Responses!Each, Responses!Part
<1>3. c \in Seq(FrontParts) /\ SystemAtoms(c) = Same("system", "text", system)
  BY <1>2, FrontOf
<1>4. PICK d : d = Responses!Empty(system)
  OBVIOUS
<1>5. d = [instructions |-> c, input |-> <<>>]
  BY <1>1, <1>4 DEF Responses!Empty
<1>6. d \in ResDocs /\ d.input = <<>> /\ d.instructions = c /\ <<>> \in Seq(Items)
  BY <1>3, <1>5 DEF ResDocs
<1>7. Responses!Read(d) = SystemAtoms(c) \o Flat(ReadRes, <<>>)
  BY <1>6, ResFlat
<1>8. SystemAtoms(c) \o <<>> = SystemAtoms(c)
  BY <1>3, FrontType, ConcatEmptySeq
<1> QED
  BY <1>3, <1>4, <1>6, <1>7, <1>8, FlatEmpty

(* The items a client keeps of a Responses answer say what was answered.              *)
LEMMA ResAnswered ==
  ASSUME NEW think \in Seq(Nat), NEW text \in Seq(Nat), NEW calls \in Seq(Nat), NEW cut \in BOOLEAN
  PROVE  LET e == Responses!EntriesOf(Responses!Answer(think, text, calls, cut))
         IN  e \in Seq(Items) /\ Flat(ReadRes, e) = Answered(think, text, calls)
<1>1. PICK P \in BOOLEAN : P = (text = <<>>)
  OBVIOUS
<1>2. Responses!EntriesOf(Responses!Answer(think, text, calls, cut)) = ResOutput(think, text, calls, P)
  BY <1>1 DEF Responses!EntriesOf, Responses!Answer, ResOutput
<1>3. PICK e : e = ResOutput(think, text, calls, P)
  OBVIOUS
<1>4. e \in Seq(Items) /\ Flat(ReadRes, e) = Answered(think, text, calls)
  BY <1>1, <1>3, ResOutputReads
<1> QED
  BY <1>2, <1>3, <1>4

------------------------------------------------------------------------------------
MesTypes == {"text", "image", "document", "thinking", "tool_use", "tool_result"}
MesPartTypes == {"text", "image", "document"}
MesParts == PartsIn(MesPartTypes)
MesBlocks == [type : MesTypes, n : Nat, content : Seq(MesParts)]
Entries == [role : Roles, content : Seq(MesBlocks)]
MesDocs == [system : Seq(FrontParts), messages : Seq(Entries)]

(* Every type of block and part is read as a kind, and written for it.                *)
LEMMA MesKinds ==
  /\ \A t \in MesTypes : Messages!Kinds[t] \in AtomKinds
  /\ \A t \in MesPartTypes : Messages!Kinds[t] \in AtomKinds
  /\ Writes(Messages!TypeOf, Messages!Kinds, MesPartTypes)
  /\ Messages!Kinds["text"] = "text" /\ Messages!Kinds["thinking"] = "think"
  /\ Messages!Kinds["tool_use"] = "call" /\ Messages!Kinds["tool_result"] = "result"
  BY DEF Messages!Kinds, Messages!TypeOf, MesTypes, MesPartTypes, AtomKinds, PieceKinds, Writes

Teller(role, b) == IF b.type = "tool_result" THEN "tool" ELSE role

BlockAtoms(role, b) ==
    <<Atom(Teller(role, b), Messages!Kinds[b.type], b.n)>>
    \o ContentAtoms(Messages!Kinds, Teller(role, b), b.content)

(* A block says itself, then its content.                                             *)
LEMMA BlockReads ==
  ASSUME NEW role \in Roles, NEW b \in MesBlocks
  PROVE  Messages!ReadBlock(role, b) = BlockAtoms(role, b) /\ BlockAtoms(role, b) \in Seq(Atoms)
<1>1. b.type \in MesTypes /\ b.n \in Nat /\ b.content \in Seq(MesParts)
  BY DEF MesBlocks
<1>2. DOMAIN b.content = 1..Len(b.content)
  BY <1>1, ListIs
<1>3. PICK by \in Roles : by = Teller(role, b)
  BY DEF Teller, Roles
<1>4. Messages!ReadBlock(role, b) = BlockAtoms(role, b)
  <2>1. CASE b.type = "tool_result"
    BY <1>2, <2>1 DEF Messages!ReadBlock, Messages!Each, BlockAtoms, ContentAtoms, Atom, Teller
  <2>2. CASE b.type # "tool_result"
    BY <1>2, <2>2 DEF Messages!ReadBlock, Messages!Each, BlockAtoms, ContentAtoms, Atom, Teller
  <2> QED
    BY <2>1, <2>2
<1>5. <<Atom(by, Messages!Kinds[b.type], b.n)>> \in Seq(Atoms)
  <2>1. Atom(by, Messages!Kinds[b.type], b.n) \in Atoms
    BY <1>1, MesKinds DEF Atom, Atoms
  <2> QED
    BY <2>1
<1>6. ContentAtoms(Messages!Kinds, by, b.content) \in Seq(Atoms)
  BY <1>1, MesKinds, ContentType DEF MesParts
<1>7. BlockAtoms(role, b) \in Seq(Atoms)
  BY <1>3, <1>5, <1>6, ConcatProperties DEF BlockAtoms
<1> QED
  BY <1>4, <1>7

ReadBlocks(role) == [b \in MesBlocks |-> BlockAtoms(role, b)]

(* Atoms, of every block.                                                             *)
LEMMA ReadBlocksMakes == ASSUME NEW role \in Roles PROVE Makes(ReadBlocks(role), MesBlocks, Atoms)
  BY BlockReads DEF ReadBlocks, Makes

(* Blocks after blocks are read one list after the other.                             *)
LEMMA BlocksJoin ==
  \A role \in Roles : \A s, t \in Seq(MesBlocks) :
     Flat(ReadBlocks(role), s \o t) = Flat(ReadBlocks(role), s) \o Flat(ReadBlocks(role), t)
  BY ReadBlocksMakes, FlatJoins

ReadMes == [m \in Entries |-> Flat(ReadBlocks(m.role), m.content)]

(* Atoms, of every message.                                                           *)
LEMMA ReadMesMakes == Makes(ReadMes, Entries, Atoms)
<1>1. ASSUME NEW m \in Entries PROVE Flat(ReadBlocks(m.role), m.content) \in Seq(Atoms)
  <2>1. m.role \in Roles /\ m.content \in Seq(MesBlocks)
    BY DEF Entries
  <2> QED
    BY <2>1, ReadBlocksMakes, FlatType
<1> QED
  BY <1>1 DEF ReadMes, Makes

(* Messages after messages are read one list after the other.                         *)
LEMMA MesJoins == \A s, t \in Seq(Entries) : Flat(ReadMes, s \o t) = Flat(ReadMes, s)
        \o Flat(ReadMes, t)
  BY ReadMesMakes, FlatJoins

(* A Messages document says its system prompt, then its messages.                     *)
LEMMA MesFlat ==
  ASSUME NEW ms \in Seq(Entries), NEW d, d.messages = ms
  PROVE  Messages!Read(d) = SystemAtoms(d.system) \o Flat(ReadMes, ms)
<1>1. DOMAIN ms = 1..Len(ms) /\ \A i \in 1..Len(ms) : ms[i] \in Entries
  BY ListIs
<1>2. ASSUME NEW m \in Entries
      PROVE  Messages!FlattenSeq(Messages!Each(LAMBDA b : Messages!ReadBlock(m.role, b),
                                               m.content)) = ReadMes[m]
  <2>1. m.role \in Roles /\ m.content \in Seq(MesBlocks)
    BY DEF Entries
  <2>2. DOMAIN m.content = 1..Len(m.content) /\ \A i \in 1..Len(m.content) : m.content[i] \in MesBlocks
    BY <2>1, ListIs
  <2>3. \A i \in 1..Len(m.content) : Messages!ReadBlock(m.role, m.content[i])
          = ReadBlocks(m.role)[m.content[i]]
    BY <2>1, <2>2, BlockReads DEF ReadBlocks
  <2>4. [i \in DOMAIN m.content |-> Messages!ReadBlock(m.role, m.content[i])]
            = [i \in 1..Len(m.content) |-> ReadBlocks(m.role)[m.content[i]]]
    BY <2>2, <2>3
  <2>5. Messages!FlattenSeq(Messages!Each(LAMBDA b : Messages!ReadBlock(m.role, b), m.content))
            = FlattenSeq([i \in DOMAIN m.content |-> Messages!ReadBlock(m.role, m.content[i])])
    BY DEF Messages!Each, Messages!FlattenSeq, FlattenSeq
  <2> QED
    BY <2>4, <2>5 DEF ReadMes, Flat
<1>3. [i \in DOMAIN ms |->
         Messages!FlattenSeq(Messages!Each(LAMBDA b : Messages!ReadBlock(ms[i].role, b), ms[i].content))]
          = [i \in 1..Len(ms) |-> ReadMes[ms[i]]]
  BY <1>1, <1>2
<1>4. Messages!Each(LAMBDA c : [by |-> "system", kind |-> "text", n |-> c.n], d.system)
        = SystemAtoms(d.system)
  BY DEF Messages!Each, SystemAtoms, Atom
<1>5. Messages!FlattenSeq(Messages!Each(
         LAMBDA m : Messages!FlattenSeq(Messages!Each(LAMBDA b : Messages!ReadBlock(m.role, b), m.content)),
         d.messages))
          = Flat(ReadMes, ms)
  <2>1. Messages!Each(
           LAMBDA m : Messages!FlattenSeq(Messages!Each(LAMBDA b : Messages!ReadBlock(m.role, b), m.content)),
           d.messages)
           = [i \in 1..Len(ms) |-> ReadMes[ms[i]]]
    BY <1>3 DEF Messages!Each
  <2>2. \A s : Messages!FlattenSeq(s) = FlattenSeq(s)
    BY DEF Messages!FlattenSeq, FlattenSeq
  <2> QED
    BY <2>1, <2>2 DEF Flat
<1> QED
  BY <1>4, <1>5 DEF Messages!Read

(* Messages added to a Messages document are read after what was there.               *)
LEMMA MesAdd ==
  ASSUME NEW d \in MesDocs, NEW e \in Seq(Entries)
  PROVE  /\ Messages!Add(d, e) \in MesDocs
         /\ Messages!Read(Messages!Add(d, e)) = Messages!Read(d) \o Flat(ReadMes, e)
<1>1. PICK ms \in Seq(Entries) : ms = d.messages
  BY DEF MesDocs
<1>2. PICK f \in Seq(FrontParts) : f = d.system
  BY DEF MesDocs
<1>3. ms \o e \in Seq(Entries)
  BY ConcatProperties
<1>4. Messages!Add(d, e) = [system |-> f, messages |-> ms \o e]
  <2>1. d = [system |-> f, messages |-> ms]
    BY <1>1, <1>2 DEF MesDocs
  <2>2. \A x : [d EXCEPT !.messages = x] = [system |-> f, messages |-> x]
    BY <2>1
  <2>3. Messages!Add(d, e) = [d EXCEPT !.messages = ms \o e]
    BY <1>1 DEF Messages!Add
  <2> QED
    BY <2>2, <2>3
<1>5. Messages!Add(d, e) \in MesDocs
  BY <1>3, <1>4 DEF MesDocs
<1>6. /\ Messages!Read(Messages!Add(d, e)) = SystemAtoms(f) \o Flat(ReadMes, ms \o e)
      /\ Messages!Read(d) = SystemAtoms(f) \o Flat(ReadMes, ms)
  <2>1. PICK a : a = Messages!Add(d, e)
    OBVIOUS
  <2>2. a.messages = ms \o e /\ a.system = f
    BY <1>4, <2>1
  <2>3. Messages!Read(a) = SystemAtoms(a.system) \o Flat(ReadMes, ms \o e)
    BY <1>3, <2>2, MesFlat
  <2>4. Messages!Read(d) = SystemAtoms(d.system) \o Flat(ReadMes, ms)
    BY <1>1, MesFlat
  <2> QED
    BY <1>2, <2>1, <2>2, <2>3, <2>4
<1>7. Flat(ReadMes, ms \o e) = Flat(ReadMes, ms) \o Flat(ReadMes, e)
  BY MesJoins
<1>8. SystemAtoms(f) \in Seq(Atoms) /\ Flat(ReadMes, ms) \in Seq(Atoms)
        /\ Flat(ReadMes, e) \in Seq(Atoms)
  BY FrontType, ReadMesMakes, FlatType
<1>9. SystemAtoms(f) \o (Flat(ReadMes, ms) \o Flat(ReadMes, e))
        = (SystemAtoms(f) \o Flat(ReadMes, ms)) \o Flat(ReadMes, e)
  BY <1>8, AtomsAssociative
<1> QED
  BY <1>5, <1>6, <1>7, <1>9

(* A block that is no result is one atom.                                             *)
LEMMA PlainBlockReads ==
  ASSUME NEW role \in Roles, NEW t \in MesTypes \ {"tool_result"}, NEW n \in Nat
  PROVE  /\ Messages!Block(t, n) \in MesBlocks
         /\ ReadBlocks(role)[Messages!Block(t, n)] = <<Atom(role, Messages!Kinds[t], n)>>
<1>1. PICK b : b = Messages!Block(t, n)
  OBVIOUS
<1>2. b = [type |-> t, n |-> n, content |-> <<>>]
  BY <1>1 DEF Messages!Block
<1>3. b \in MesBlocks
  BY <1>2 DEF MesBlocks
<1>4. Teller(role, b) = role /\ ContentAtoms(Messages!Kinds, role, b.content) = <<>>
  BY <1>2 DEF Teller, ContentAtoms
<1>5. <<Atom(role, Messages!Kinds[t], n)>> \in Seq(Atoms)
  <2>1. Atom(role, Messages!Kinds[t], n) \in Atoms
    BY MesKinds DEF Atom, Atoms
  <2> QED
    BY <2>1
<1>6. <<Atom(role, Messages!Kinds[t], n)>> \o <<>> = <<Atom(role, Messages!Kinds[t], n)>>
  BY <1>5, ConcatEmptySeq
<1>7. BlockAtoms(role, b) = <<Atom(role, Messages!Kinds[t], n)>>
  BY <1>2, <1>4, <1>6 DEF BlockAtoms
<1> QED
  BY <1>1, <1>3, <1>7 DEF ReadBlocks

(* Blocks that are no results are atom for atom what they say.                        *)
Plain(bs) == \A i \in 1..Len(bs) : \E t \in MesTypes \ {"tool_result"}, n \in Nat : bs[i]
        = Messages!Block(t, n)

(* Blocks that are no results, atom for atom.                                         *)
LEMMA PlainBlocksRead ==
  ASSUME NEW role \in Roles, NEW bs \in Seq(MesBlocks), Plain(bs)
  PROVE  Flat(ReadBlocks(role), bs)
          = [i \in 1..Len(bs) |-> Atom(role, Messages!Kinds[bs[i].type], bs[i].n)]
<1>1. PICK m \in [MesBlocks -> Atoms] : m
        = [b \in MesBlocks |-> Atom(role, Messages!Kinds[b.type], b.n)]
  <2>1. \A b \in MesBlocks : Atom(role, Messages!Kinds[b.type], b.n) \in Atoms
    BY MesKinds DEF Atom, Atoms, MesBlocks
  <2> QED
    BY <2>1
<1>2. \A i \in 1..Len(bs) : bs[i] \in MesBlocks
  BY ListIs
<1>3. OneEach(ReadBlocks(role), m, bs)
  <2>1. ASSUME NEW i \in 1..Len(bs) PROVE ReadBlocks(role)[bs[i]] = <<m[bs[i]]>>
    <3>1. PICK t \in MesTypes \ {"tool_result"}, n \in Nat : bs[i] = Messages!Block(t, n)
      BY DEF Plain
    <3>2. ReadBlocks(role)[bs[i]] = <<Atom(role, Messages!Kinds[t], n)>>
      BY <3>1, PlainBlockReads
    <3>3. bs[i].type = t /\ bs[i].n = n
      BY <3>1 DEF Messages!Block
    <3> QED
      BY <1>1, <1>2, <3>2, <3>3
  <2> QED
    BY <2>1 DEF OneEach
<1>4. Flat(ReadBlocks(role), bs) = Mapped(m, bs)
  BY <1>3, FlatMapped
<1> QED
  BY <1>1, <1>2, <1>4 DEF Mapped

(* Blocks of one type say numbers of one kind.                                        *)
LEMMA BlocksRead ==
  ASSUME NEW role \in Roles, NEW t \in MesTypes \ {"tool_result"}, NEW ns \in Seq(Nat)
  PROVE  /\ Messages!Blocks(t, ns) \in Seq(MesBlocks)
         /\ Flat(ReadBlocks(role), Messages!Blocks(t, ns)) = Same(role, Messages!Kinds[t], ns)
<1>1. Len(ns) \in Nat /\ DOMAIN ns = 1..Len(ns) /\ \A i \in 1..Len(ns) : ns[i] \in Nat
  BY ListIs
<1>2. PICK bs : bs = Messages!Blocks(t, ns)
  OBVIOUS
<1>3. bs = [i \in 1..Len(ns) |-> bs[i]] /\ \A i \in 1..Len(ns) : bs[i] = Messages!Block(t, ns[i])
  BY <1>1, <1>2 DEF Messages!Blocks, Messages!Each
<1>4. \A i \in 1..Len(ns) : bs[i] \in MesBlocks
  BY <1>1, <1>3, PlainBlockReads DEF Roles
<1>5. bs \in Seq(MesBlocks) /\ Len(bs) = Len(ns)
  BY <1>1, <1>3, <1>4, TypedList
<1>6. Plain(bs)
  BY <1>1, <1>3, <1>5 DEF Plain
<1>7. Flat(ReadBlocks(role), bs)
        = [i \in 1..Len(bs) |-> Atom(role, Messages!Kinds[bs[i].type], bs[i].n)]
  BY <1>5, <1>6, PlainBlocksRead
<1>8. \A i \in 1..Len(ns) : bs[i].type = t /\ bs[i].n = ns[i]
  BY <1>3 DEF Messages!Block
<1> QED
  BY <1>2, <1>5, <1>7, <1>8 DEF Same

MesOwn(pieces) == [i \in DOMAIN pieces |-> Messages!Block(Messages!TypeOf[pieces[i].kind], pieces[i].n)]

(* The blocks of a user's own pieces say them.                                        *)
LEMMA MesOwnReads ==
  ASSUME NEW role \in Roles, NEW pieces \in PieceList
  PROVE  MesOwn(pieces) \in Seq(MesBlocks)
          /\ Flat(ReadBlocks(role), MesOwn(pieces)) = AtomsOf(role, pieces)
<1>1. Len(pieces) \in Nat /\ DOMAIN pieces = 1..Len(pieces)
        /\ \A i \in 1..Len(pieces) : pieces[i] \in OnePiece
  BY ListIs DEF PieceList
<1>2. PICK bs : bs = MesOwn(pieces)
  OBVIOUS
<1>3. \A k \in PieceKinds : Messages!TypeOf[k] \in MesTypes \ {"tool_result"}
        /\ Messages!Kinds[Messages!TypeOf[k]] = k
  BY DEF Messages!TypeOf, Messages!Kinds, PieceKinds, MesTypes
<1>4. bs = [i \in 1..Len(pieces) |-> bs[i]]
        /\ \A i \in 1..Len(pieces) : bs[i]
                = Messages!Block(Messages!TypeOf[pieces[i].kind], pieces[i].n)
  BY <1>1, <1>2 DEF MesOwn
<1>5. \A i \in 1..Len(pieces) : pieces[i].kind \in PieceKinds /\ pieces[i].n \in Nat
  BY <1>1 DEF OnePiece
<1>6. \A i \in 1..Len(pieces) : bs[i] \in MesBlocks
  BY <1>3, <1>4, <1>5, PlainBlockReads DEF Roles
<1>7. bs \in Seq(MesBlocks) /\ Len(bs) = Len(pieces)
  BY <1>1, <1>4, <1>6, TypedList
<1>8. Plain(bs)
  BY <1>3, <1>4, <1>5, <1>7 DEF Plain
<1>9. Flat(ReadBlocks(role), bs)
        = [i \in 1..Len(bs) |-> Atom(role, Messages!Kinds[bs[i].type], bs[i].n)]
  BY <1>7, <1>8, PlainBlocksRead
<1>10. \A i \in 1..Len(pieces) : Messages!Kinds[bs[i].type] = pieces[i].kind /\ bs[i].n = pieces[i].n
  BY <1>3, <1>4, <1>5 DEF Messages!Block
<1>11. AtomsOf(role, pieces) = [i \in 1..Len(pieces) |-> Atom(role, pieces[i].kind, pieces[i].n)]
  BY AtomsOfType
<1> QED
  BY <1>2, <1>7, <1>9, <1>10, <1>11

MesContent(pieces) == [i \in DOMAIN pieces |-> Messages!Part(Messages!TypeOf[pieces[i].kind],
                                                            pieces[i].n)]

(* The content of a result for these pieces says them.                                *)
LEMMA MesContentReads ==
  ASSUME NEW pieces \in PieceList, NEW by \in Roles
  PROVE  MesContent(pieces) \in Seq(MesParts)
          /\ ContentAtoms(Messages!Kinds, by, MesContent(pieces)) = AtomsOf(by, pieces)
<1>1. MesContent(pieces) = [i \in DOMAIN pieces |-> [type |-> Messages!TypeOf[pieces[i].kind],
                                                     n |-> pieces[i].n]]
  BY DEF MesContent, Messages!Part
<1> QED
  BY <1>1, MesKinds, ContentOfPieces DEF MesParts

MesResult(r) == Messages!Result(r.id, MesContent(r.parts))

(* A result block says the result of its call.                                        *)
LEMMA MesResultReads ==
  ASSUME NEW r \in OneResult, NEW role \in Roles
  PROVE  MesResult(r) \in MesBlocks /\ ReadBlocks(role)[MesResult(r)] = ResultAtoms(r)
<1>1. r.parts \in PieceList /\ r.id \in Nat
  BY DEF OneResult
<1>2. MesContent(r.parts) \in Seq(MesParts)
        /\ ContentAtoms(Messages!Kinds, "tool", MesContent(r.parts)) = AtomsOf("tool", r.parts)
  BY <1>1, MesContentReads DEF Roles
<1>3. PICK b : b = MesResult(r)
  OBVIOUS
<1>4. b = [type |-> "tool_result", n |-> r.id, content |-> MesContent(r.parts)]
  BY <1>3 DEF MesResult, Messages!Result, Messages!Block
<1>5. b \in MesBlocks
  BY <1>1, <1>2, <1>4 DEF MesBlocks, MesTypes
<1>6. Teller(role, b) = "tool" /\ Messages!Kinds[b.type] = "result"
  BY <1>4, MesKinds DEF Teller
<1> QED
  BY <1>2, <1>3, <1>4, <1>5, <1>6 DEF ReadBlocks, BlockAtoms, ResultAtoms

MesResults(results) == [i \in DOMAIN results |-> MesResult(results[i])]

(* The results say what they say one by one.                                          *)
LEMMA MesResultsRead ==
  ASSUME NEW results \in ResultList, NEW role \in Roles
  PROVE  /\ MesResults(results) \in Seq(MesBlocks)
         /\ Flat(ReadBlocks(role), MesResults(results))
                 = FlattenSeq([i \in 1..Len(results) |-> ResultAtoms(results[i])])
<1>1. Len(results) \in Nat /\ DOMAIN results = 1..Len(results)
        /\ \A i \in 1..Len(results) : results[i] \in OneResult
  BY ListIs DEF ResultList
<1>2. PICK bs : bs = MesResults(results)
  OBVIOUS
<1>3. \A i \in 1..Len(results) : bs[i] \in MesBlocks
        /\ ReadBlocks(role)[bs[i]] = ResultAtoms(results[i])
  BY <1>1, <1>2, MesResultReads DEF MesResults
<1>4. bs = [i \in 1..Len(results) |-> bs[i]]
  BY <1>1, <1>2 DEF MesResults
<1>5. bs \in Seq(MesBlocks) /\ Len(bs) = Len(results)
  BY <1>1, <1>3, <1>4, TypedList
<1>6. [i \in 1..Len(bs) |-> ReadBlocks(role)[bs[i]]]
        = [i \in 1..Len(results) |-> ResultAtoms(results[i])]
  BY <1>3, <1>5
<1> QED
  BY <1>2, <1>5, <1>6 DEF Flat

(* A message says what its blocks say.                                                *)
LEMMA EntryReads ==
  ASSUME NEW role \in Roles, NEW bs \in Seq(MesBlocks)
  PROVE  <<Messages!Entry(role, bs)>> \in Seq(Entries)
          /\ Flat(ReadMes, <<Messages!Entry(role, bs)>>) = Flat(ReadBlocks(role), bs)
<1>1. PICK m : m = Messages!Entry(role, bs)
  OBVIOUS
<1>2. m = [role |-> role, content |-> bs]
  BY <1>1 DEF Messages!Entry
<1>3. m \in Entries
  BY <1>2 DEF Entries
<1>4. Flat(ReadMes, <<m>>) = ReadMes[m]
  BY <1>3, ReadMesMakes, FlatOne
<1> QED
  BY <1>1, <1>2, <1>3, <1>4 DEF ReadMes

(* A user's turn, results and words, written in one message.                          *)
LEMMA MesSaid ==
  ASSUME NEW results \in ResultList, NEW said \in PieceList
  PROVE  /\ Messages!Said(results, said) \in Seq(Entries)
         /\ Flat(ReadMes, Messages!Said(results, said)) = Heard(results, said)
<1>1. "user" \in Roles
  BY DEF Roles
<1>2. PICK a \in Seq(MesBlocks) : /\ a = MesResults(results)
                                  /\ Flat(ReadBlocks("user"), a)
                                          = FlattenSeq([i \in 1..Len(results) |-> ResultAtoms(results[i])])
  BY <1>1, MesResultsRead
<1>3. PICK b \in Seq(MesBlocks) : b = MesOwn(said)
        /\ Flat(ReadBlocks("user"), b) = AtomsOf("user", said)
  BY <1>1, MesOwnReads
<1>4. Messages!Said(results, said) = <<Messages!Entry("user", a \o b)>>
  BY <1>2, <1>3, Zenon DEF Messages!Said, Messages!Each, MesResults, MesResult, MesContent, MesOwn
<1>5. a \o b \in Seq(MesBlocks)
  BY ConcatProperties
<1>6. Flat(ReadBlocks("user"), a \o b) = Flat(ReadBlocks("user"), a) \o Flat(ReadBlocks("user"), b)
  BY <1>1, BlocksJoin
<1>7. /\ <<Messages!Entry("user", a \o b)>> \in Seq(Entries)
      /\ Flat(ReadMes, <<Messages!Entry("user", a \o b)>>) = Flat(ReadBlocks("user"), a \o b)
  BY <1>1, <1>5, EntryReads
<1> QED
  BY <1>2, <1>3, <1>4, <1>6, <1>7 DEF Heard

(* A conversation's beginning.                                                        *)
LEMMA MesEmpty ==
  ASSUME NEW system \in Seq(Nat)
  PROVE  /\ Messages!Empty(system) \in MesDocs
         /\ Messages!Read(Messages!Empty(system)) = Same("system", "text", system)
<1>1. PICK c : c = Messages!Parts("text", system)
  OBVIOUS
<1>2. c = [i \in DOMAIN system |-> [type |-> "text", n |-> system[i]]]
  BY <1>1 DEF Messages!Parts, Messages!Each, Messages!Part
<1>3. c \in Seq(FrontParts) /\ SystemAtoms(c) = Same("system", "text", system)
  BY <1>2, FrontOf
<1>4. PICK d : d = Messages!Empty(system)
  OBVIOUS
<1>5. d = [system |-> c, messages |-> <<>>]
  BY <1>1, <1>4 DEF Messages!Empty
<1>6. d \in MesDocs /\ d.messages = <<>> /\ d.system = c /\ <<>> \in Seq(Entries)
  BY <1>3, <1>5 DEF MesDocs
<1>7. Messages!Read(d) = SystemAtoms(c) \o Flat(ReadMes, <<>>)
  BY <1>6, MesFlat
<1>8. SystemAtoms(c) \o <<>> = SystemAtoms(c)
  BY <1>3, FrontType, ConcatEmptySeq
<1> QED
  BY <1>3, <1>4, <1>6, <1>7, <1>8, FlatEmpty

(* The message a client keeps of a Messages answer says what was answered.            *)
LEMMA MesAnswered ==
  ASSUME NEW think \in Seq(Nat), NEW text \in Seq(Nat), NEW calls \in Seq(Nat), NEW cut \in BOOLEAN
  PROVE  LET e == Messages!EntriesOf(Messages!Answer(think, text, calls, cut))
         IN  e \in Seq(Entries) /\ Flat(ReadMes, e) = Answered(think, text, calls)
<1>1. "assistant" \in Roles /\ {"thinking", "text", "tool_use"} \subseteq MesTypes \ {"tool_result"}
  BY DEF Roles, MesTypes
<1>2. PICK a \in Seq(MesBlocks) : a = Messages!Blocks("thinking", think)
        /\ Flat(ReadBlocks("assistant"), a) = Same("assistant", "think", think)
  BY <1>1, BlocksRead, MesKinds
<1>3. PICK b \in Seq(MesBlocks) : b = Messages!Blocks("text", text)
        /\ Flat(ReadBlocks("assistant"), b) = Same("assistant", "text", text)
  BY <1>1, BlocksRead, MesKinds
<1>4. PICK c \in Seq(MesBlocks) : c = Messages!Blocks("tool_use", calls)
        /\ Flat(ReadBlocks("assistant"), c) = Same("assistant", "call", calls)
  BY <1>1, BlocksRead, MesKinds
<1>5. PICK ab \in Seq(MesBlocks) : ab = a \o b
  BY ConcatProperties
<1>6. ab \o c \in Seq(MesBlocks)
  BY ConcatProperties
<1>7. Flat(ReadBlocks("assistant"), ab \o c) = Answered(think, text, calls)
  <2>1. Flat(ReadBlocks("assistant"), ab \o c) = Flat(ReadBlocks("assistant"), ab)
          \o Flat(ReadBlocks("assistant"), c)
    BY <1>1, BlocksJoin
  <2>2. Flat(ReadBlocks("assistant"), a \o b) = Flat(ReadBlocks("assistant"), a)
          \o Flat(ReadBlocks("assistant"), b)
    BY <1>1, BlocksJoin
  <2> QED
    BY <1>2, <1>3, <1>4, <1>5, <2>1, <2>2 DEF Answered
<1>8. Messages!EntriesOf(Messages!Answer(think, text, calls, cut))
        = <<Messages!Entry("assistant", ab \o c)>>
  BY <1>2, <1>3, <1>4, <1>5 DEF Messages!EntriesOf, Messages!Answer
<1>9. /\ <<Messages!Entry("assistant", ab \o c)>> \in Seq(Entries)
      /\ Flat(ReadMes, <<Messages!Entry("assistant", ab \o c)>>)
              = Flat(ReadBlocks("assistant"), ab \o c)
  BY <1>1, <1>6, EntryReads
<1> QED
  BY <1>7, <1>8, <1>9

------------------------------------------------------------------------------------
(* The elements of s that are in T.                                                   *)
Kept(T, S) == [x \in S |-> IF x \in T THEN <<x>> ELSE <<>>]

(* An element or nothing, of every element.                                           *)
LEMMA KeptMakes == \A S, T : Makes(Kept(T, S), S, S)
<1>1. ASSUME NEW S, NEW T, NEW x \in S PROVE (IF x \in T THEN <<x>> ELSE <<>>) \in Seq(S)
  OBVIOUS
<1> QED
  BY <1>1 DEF Kept, Makes

(* What is kept of one list after another.                                            *)
LEMMA KeptJoins ==
  ASSUME NEW S, NEW T, NEW s \in Seq(S), NEW t \in Seq(S)
  PROVE  Flat(Kept(T, S), s \o t) = Flat(Kept(T, S), s) \o Flat(Kept(T, S), t)
  BY KeptMakes, FlatJoins

(* Nothing is kept if nothing passes.                                                 *)
LEMMA KeptNone ==
  ASSUME NEW S, NEW T, NEW s \in Seq(S), \A i \in 1..Len(s) : s[i] \notin T
  PROVE  Flat(Kept(T, S), s) = <<>>
<1>1. PICK f : f = Kept(T, S)
  OBVIOUS
<1>2. \A i \in 1..Len(s) : f[s[i]] = <<>>
  BY <1>1, ListIs DEF Kept
<1> QED
  BY <1>1, <1>2, FlatNothing

(* All is kept if all passes.                                                         *)
LEMMA KeptAll ==
  ASSUME NEW S, NEW T, NEW s \in Seq(S), \A i \in 1..Len(s) : s[i] \in T
  PROVE  Flat(Kept(T, S), s) = s
<1>1. PICK m \in [S -> S] : m = [x \in S |-> x]
  OBVIOUS
<1>2. PICK f : f = Kept(T, S)
  OBVIOUS
<1>5. OneEach(f, m, s)
  BY <1>1, <1>2, ListIs DEF OneEach, Kept
<1>3. Flat(Kept(T, S), s) = Mapped(m, s)
  <2>1. Flat(f, s) = Mapped(m, s)
    BY <1>5, FlatMaps
  <2> QED
    BY <1>2, <2>1
<1>4. Mapped(m, s) = s
  <2>1. s = [i \in 1..Len(s) |-> s[i]] /\ \A i \in 1..Len(s) : m[s[i]] = s[i]
    BY <1>1, ListIs
  <2> QED
    BY <2>1 DEF Mapped
<1> QED
  BY <1>3, <1>4

(* The one list in the middle of three of which there are elements in T.              *)
LEMMA KeptOfThree ==
  ASSUME NEW S, NEW T, NEW a \in Seq(S), NEW b \in Seq(S), NEW c \in Seq(S)
  PROVE  Flat(Kept(T, S), a \o b \o c) = Flat(Kept(T, S), a) \o Flat(Kept(T, S), b)
          \o Flat(Kept(T, S), c)
<1>1. PICK ab \in Seq(S) : ab = a \o b
  BY ConcatProperties
<1>2. Flat(Kept(T, S), ab) = Flat(Kept(T, S), a) \o Flat(Kept(T, S), b)
  BY <1>1, KeptJoins
<1>3. Flat(Kept(T, S), ab \o c) = Flat(Kept(T, S), ab) \o Flat(Kept(T, S), c)
  BY KeptJoins
<1> QED
  BY <1>1, <1>2, <1>3

(* One list concatenated is itself.                                                   *)
LEMMA FlattenOne ==
  ASSUME NEW T, NEW s \in Seq(T)
  PROVE  FlattenSeq(<<s>>) = s
<1>1. PICK none \in Seq(Seq(T)) : none = <<>>
  <2>1. <<>> \in Seq(Seq(T))
    OBVIOUS
  <2> QED
    BY <2>1
<1>2. FlattenSeq(Append(none, s)) = FlattenSeq(none) \o s
  BY FlattenAppend
<1>3. Append(none, s) = <<s>>
  BY <1>1
<1>4. <<>> \o s = s
  BY ConcatEmptySeq
<1> QED
  BY <1>1, <1>2, <1>3, <1>4, FlattenEmpty

------------------------------------------------------------------------------------
(* The parts of a text, in the IR.                                                    *)
TextParts(text) == [i \in DOMAIN text |-> [type |-> "text", n |-> text[i]]]

EndOf(calls, cut) == IF cut THEN "length" ELSE IF calls # <<>> THEN "tool_calls" ELSE "stop"

(* What every answer is in the IR, whatever the protocol of its upstream.             *)
TheResponse(think, text, calls, cut) ==
    [content |-> TextParts(text), tool_calls |-> calls, reasoning |-> think, finish |-> EndOf(calls, cut)]

(* A Chat answer in the IR.                                                           *)
LEMMA ChatAnswerToIR ==
  ASSUME NEW think, NEW text, NEW calls, NEW cut
  PROVE  Chat!AnswerToIR(Chat!Answer(think, text, calls, cut)) = TheResponse(think, text, calls, cut)
  BY DEF Chat!AnswerToIR, Chat!Answer, Chat!Response, Chat!Message, Chat!Parts, Chat!Each, Chat!Part,
         TheResponse, TextParts, EndOf

OfType(t) == {it \in Items : it.type = t}

(* The items of a type are those kept of it.                                          *)
LEMMA ResItemsIn ==
  ASSUME NEW s \in Seq(Items), NEW t
  PROVE  Responses!ItemsIn(s, t) = Flat(Kept(OfType(t), Items), s)
<1>1. DOMAIN s = 1..Len(s) /\ \A i \in 1..Len(s) : s[i] \in Items
  BY ListIs
<1>2. \A i \in 1..Len(s) : Kept(OfType(t), Items)[s[i]] = IF s[i].type = t THEN <<s[i]>> ELSE <<>>
  BY <1>1 DEF Kept, OfType
<1>3. Responses!ItemsIn(s, t)
        = FlattenSeq([i \in DOMAIN s |-> IF s[i].type = t THEN <<s[i]>> ELSE <<>>])
  BY DEF Responses!ItemsIn, Responses!Chosen, Responses!Each, Responses!FlattenSeq, FlattenSeq
<1>4. [i \in DOMAIN s |-> IF s[i].type = t THEN <<s[i]>> ELSE <<>>]
        = [i \in 1..Len(s) |-> Kept(OfType(t), Items)[s[i]]]
  BY <1>1, <1>2
<1> QED
  BY <1>3, <1>4 DEF Flat

(* The three parts of an answer's output, and the types of their items.               *)
OutputParts(think, text, calls, P, a, b, c) ==
    /\ ResOutput(think, text, calls, P) = a \o b \o c
    /\ a = IF think = <<>> THEN <<>> ELSE <<Responses!Reasoning(think)>>
    /\ b = IF P THEN <<>>
           ELSE <<Responses!Item("message", "assistant", Responses!Parts("output_text", text),
                                 Responses!NoCall)>>
    /\ c = Responses!Each(Responses!Call, calls) /\ Len(c) = Len(calls)
    /\ \A i \in 1..Len(a) : a[i].type = "reasoning"
    /\ \A i \in 1..Len(b) : b[i].type = "message"
    /\ \A i \in 1..Len(c) : c[i].type = "function_call" /\ c[i].call_id = calls[i]

InThreeParts(think, text, calls, P) ==
    \E a, b, c \in Seq(Items) : OutputParts(think, text, calls, P, a, b, c)

(* An answer's output has these three parts.                                          *)
LEMMA ResOutputParts ==
  ASSUME NEW think \in Seq(Nat), NEW text \in Seq(Nat), NEW calls \in Seq(Nat), NEW P \in BOOLEAN,
         P => text = <<>>
  PROVE  InThreeParts(think, text, calls, P)
<1>1. PICK a \in Seq(Items) : a = IF think = <<>> THEN <<>> ELSE <<Responses!Reasoning(think)>>
  BY ResThinks
<1>2. PICK b \in Seq(Items) : b = IF P THEN <<>>
        ELSE <<Responses!Item("message", "assistant", Responses!Parts("output_text", text),
                              Responses!NoCall)>>
  BY ResTexts
<1>3. PICK c \in Seq(Items) : c = Responses!Each(Responses!Call, calls) /\ Len(c) = Len(calls)
  BY ResCalls
<1>4. \A i \in 1..Len(a) : a[i].type = "reasoning"
  BY <1>1 DEF Responses!Reasoning, Responses!Item
<1>5. \A i \in 1..Len(b) : b[i].type = "message"
  BY <1>2 DEF Responses!Item
<1>6. \A i \in 1..Len(c) : c[i].type = "function_call" /\ c[i].call_id = calls[i]
  <2>1. DOMAIN calls = 1..Len(calls)
    BY ListIs
  <2>2. \A i \in 1..Len(c) : c[i] = Responses!Call(calls[i])
    BY <1>3, <2>1 DEF Responses!Each
  <2>3. \A n : Responses!Call(n).type = "function_call" /\ Responses!Call(n).call_id = n
    BY DEF Responses!Call, Responses!Item
  <2> QED
    BY <2>2, <2>3
<1>7. ResOutput(think, text, calls, P) = a \o b \o c
  BY <1>1, <1>2, <1>3 DEF ResOutput
<1>8. OutputParts(think, text, calls, P, a, b, c)
  BY <1>1, <1>2, <1>3, <1>4, <1>5, <1>6, <1>7 DEF OutputParts
<1> QED
  BY <1>8, Zenon DEF InThreeParts

(* A Responses answer in the IR, although its items are picked out type by type.      *)
LEMMA ResAnswerToIR ==
  ASSUME NEW think \in Seq(Nat), NEW text \in Seq(Nat), NEW calls \in Seq(Nat), NEW cut \in BOOLEAN
  PROVE  Responses!AnswerToIR(Responses!Answer(think, text, calls, cut))
          = TheResponse(think, text, calls, cut)
<1>1. PICK P \in BOOLEAN : P = (text = <<>>)
  OBVIOUS
<1>2. PICK o \in Seq(Items) : o = ResOutput(think, text, calls, P)
  BY <1>1, ResOutputReads
<1>3. Responses!Answer(think, text, calls, cut)
        = [output |-> o, status |-> IF cut THEN "incomplete" ELSE "completed"]
  BY <1>1, <1>2 DEF Responses!Answer, ResOutput
<1>19. InThreeParts(think, text, calls, P)
  BY <1>1, ResOutputParts
<1>18. PICK a, b, c \in Seq(Items) : OutputParts(think, text, calls, P, a, b, c)
  BY <1>19, Zenon DEF InThreeParts
<1>4. /\ o = a \o b \o c
      /\ a = IF think = <<>> THEN <<>> ELSE <<Responses!Reasoning(think)>>
      /\ b = IF P THEN <<>>
             ELSE <<Responses!Item("message", "assistant", Responses!Parts("output_text", text),
                                   Responses!NoCall)>>
      /\ c = Responses!Each(Responses!Call, calls) /\ Len(c) = Len(calls)
      /\ \A i \in 1..Len(a) : a[i].type = "reasoning"
      /\ \A i \in 1..Len(b) : b[i].type = "message"
      /\ \A i \in 1..Len(c) : c[i].type = "function_call" /\ c[i].call_id = calls[i]
  BY <1>2, <1>18 DEF OutputParts
<1>5. \A i \in 1..Len(a) : a[i] \in OfType("reasoning") /\ a[i] \notin OfType("message")
        /\ a[i] \notin OfType("function_call")
  BY <1>4, ListIs DEF OfType
<1>6. \A i \in 1..Len(b) : b[i] \in OfType("message") /\ b[i] \notin OfType("reasoning")
        /\ b[i] \notin OfType("function_call")
  BY <1>4, ListIs DEF OfType
<1>7. \A i \in 1..Len(c) : c[i] \in OfType("function_call") /\ c[i] \notin OfType("message")
        /\ c[i] \notin OfType("reasoning")
  BY <1>4, ListIs DEF OfType
<1>8. \A t : Responses!ItemsIn(o, t) = Flat(Kept(OfType(t), Items), a)
        \o Flat(Kept(OfType(t), Items), b) \o Flat(Kept(OfType(t), Items), c)
  <2> TAKE t
  <2>1. Responses!ItemsIn(o, t) = Flat(Kept(OfType(t), Items), o)
    BY ResItemsIn
  <2>2. PICK T : T = OfType(t)
    OBVIOUS
  <2>3. Flat(Kept(T, Items), a \o b \o c) = Flat(Kept(T, Items), a) \o Flat(Kept(T, Items), b)
          \o Flat(Kept(T, Items), c)
    BY KeptOfThree
  <2> QED
    BY <1>4, <2>1, <2>2, <2>3
<1>9. Responses!ItemsIn(o, "reasoning") = a
  <2>1. Flat(Kept(OfType("reasoning"), Items), a) = a
    BY <1>5, KeptAll
  <2>2. Flat(Kept(OfType("reasoning"), Items), b) = <<>>
          /\ Flat(Kept(OfType("reasoning"), Items), c) = <<>>
    BY <1>6, <1>7, KeptNone
  <2>3. a \o <<>> \o <<>> = a
    BY ConcatEmptySeq
  <2> QED
    BY <1>8, <2>1, <2>2, <2>3
<1>10. Responses!ItemsIn(o, "message") = b
  <2>1. Flat(Kept(OfType("message"), Items), b) = b
    BY <1>6, KeptAll
  <2>2. Flat(Kept(OfType("message"), Items), a) = <<>> /\ Flat(Kept(OfType("message"), Items), c) = <<>>
    BY <1>5, <1>7, KeptNone
  <2>3. <<>> \o b \o <<>> = b
    BY ConcatEmptySeq
  <2> QED
    BY <1>8, <2>1, <2>2, <2>3
<1>11. Responses!ItemsIn(o, "function_call") = c
  <2>1. Flat(Kept(OfType("function_call"), Items), c) = c
    BY <1>7, KeptAll
  <2>2. Flat(Kept(OfType("function_call"), Items), a) = <<>>
          /\ Flat(Kept(OfType("function_call"), Items), b) = <<>>
    BY <1>5, <1>6, KeptNone
  <2>3. <<>> \o <<>> \o c = c
    BY ConcatEmptySeq
  <2> QED
    BY <1>8, <2>1, <2>2, <2>3
<1>12. \A t, ns : ns \in Seq(Nat) => Responses!Numbers(Responses!Parts(t, ns)) = ns
  BY ListIs DEF Responses!Numbers, Responses!Parts, Responses!Each, Responses!Part
<1>13. Responses!LastSummary(o) = think
  <2>1. CASE think = <<>>
    BY <1>4, <1>9, <2>1 DEF Responses!LastSummary
  <2>2. CASE think # <<>>
    <3>1. a = <<Responses!Reasoning(think)>> /\ Responses!Last(a) = Responses!Reasoning(think)
      BY <1>4, <2>2 DEF Responses!Last
    <3>2. Responses!Numbers(Responses!Reasoning(think).content) = think
      BY <1>12 DEF Responses!Reasoning, Responses!Item
    <3>3. a # <<>>
      BY <3>1
    <3> QED
      BY <1>9, <3>1, <3>2, <3>3 DEF Responses!LastSummary
  <2> QED
    BY <2>1, <2>2
<1>14. Responses!OutputText(o) = TextParts(text)
  <2>1. Responses!FlattenSeq(Responses!Each(LAMBDA it : Responses!Numbers(it.content), b)) = text
    <3>0. \A s : Responses!FlattenSeq(s) = FlattenSeq(s)
      BY DEF Responses!FlattenSeq, FlattenSeq
    <3>1. CASE P
      <4>1. Responses!Each(LAMBDA it : Responses!Numbers(it.content), b) = <<>> /\ text = <<>>
        <5>1. b = <<>> /\ text = <<>>
          BY <1>1, <1>4, <3>1
        <5>2. \A x : x = <<>> => Responses!Each(LAMBDA it : Responses!Numbers(it.content), x) = <<>>
          BY DEF Responses!Each
        <5> QED
          BY <5>1, <5>2
      <4> QED
        BY <3>0, <4>1, FlattenEmpty
    <3>2. CASE ~P
      <4>1. Responses!Each(LAMBDA it : Responses!Numbers(it.content), b)
              = <<Responses!Numbers(Responses!Parts("output_text", text))>>
        BY <1>4, <3>2 DEF Responses!Each, Responses!Item
      <4>2. Responses!Numbers(Responses!Parts("output_text", text)) = text
        BY <1>12
      <4> QED
        BY <3>0, <4>1, <4>2, FlattenOne
    <3> QED
      BY <3>1, <3>2
  <2> QED
    BY <1>10, <2>1
       DEF Responses!OutputText, Responses!Parts, Responses!Each, Responses!Part, TextParts
<1>15. Responses!Each(LAMBDA it : it.call_id, c) = calls
  <2>1. DOMAIN c = 1..Len(calls)
    BY <1>4, ListIs
  <2>2. calls = [i \in 1..Len(calls) |-> calls[i]]
    BY ListIs
  <2>3. \A i \in 1..Len(calls) : c[i].call_id = calls[i]
    BY <1>4
  <2>4. Responses!Each(LAMBDA it : it.call_id, c) = [i \in 1..Len(calls) |-> c[i].call_id]
    BY <2>1 DEF Responses!Each
  <2> QED
    BY <2>2, <2>3, <2>4
<1>16. PICK x : x = Responses!Answer(think, text, calls, cut)
  OBVIOUS
<1>17. x.output = o /\ x.status = IF cut THEN "incomplete" ELSE "completed"
  BY <1>3, <1>16
<1> QED
  BY <1>11, <1>13, <1>14, <1>15, <1>16, <1>17
     DEF Responses!AnswerToIR, Responses!Response, Responses!FinishOf, TheResponse, EndOf

(* The numbers of blocks, and the blocks of some types among those of one.            *)
BlockOf(types) == {b \in MesBlocks : b.type \in types}

(* The blocks of some types are those kept of them.                                   *)
LEMMA MesOf ==
  ASSUME NEW s \in Seq(MesBlocks), NEW types
  PROVE  Messages!Of(types, s) = Flat(Kept(BlockOf(types), MesBlocks), s)
<1>1. DOMAIN s = 1..Len(s) /\ \A i \in 1..Len(s) : s[i] \in MesBlocks
  BY ListIs
<1>2. \A i \in 1..Len(s) : Kept(BlockOf(types), MesBlocks)[s[i]]
        = IF s[i].type \in types THEN <<s[i]>> ELSE <<>>
  BY <1>1 DEF Kept, BlockOf
<1>3. Messages!Of(types, s)
        = FlattenSeq([i \in DOMAIN s |-> IF s[i].type \in types THEN <<s[i]>> ELSE <<>>])
  BY DEF Messages!Of, Messages!Chosen, Messages!Each, Messages!FlattenSeq, FlattenSeq
<1>4. [i \in DOMAIN s |-> IF s[i].type \in types THEN <<s[i]>> ELSE <<>>]
        = [i \in 1..Len(s) |-> Kept(BlockOf(types), MesBlocks)[s[i]]]
  BY <1>1, <1>2
<1> QED
  BY <1>3, <1>4 DEF Flat

AllOf(t, bs) == \A i \in 1..Len(bs) : bs[i] \in MesBlocks /\ bs[i].type = t

(* Blocks made for numbers have one type, and the numbers.                            *)
LEMMA BlocksAre ==
  ASSUME NEW t \in MesTypes \ {"tool_result"}, NEW ns \in Seq(Nat)
  PROVE  AllOf(t, Messages!Blocks(t, ns)) /\ Messages!Numbers(Messages!Blocks(t, ns)) = ns
<1>1. Len(ns) \in Nat /\ DOMAIN ns = 1..Len(ns) /\ \A i \in 1..Len(ns) : ns[i] \in Nat
  BY ListIs
<1>2. PICK bs \in Seq(MesBlocks) : bs = Messages!Blocks(t, ns)
  BY BlocksRead DEF Roles
<1>3. bs = [i \in 1..Len(ns) |-> Messages!Block(t, ns[i])]
  BY <1>1, <1>2 DEF Messages!Blocks, Messages!Each
<1>4. Len(bs) = Len(ns) /\ DOMAIN bs = 1..Len(ns)
  BY <1>1, <1>3, ListIs
<1>5. \A i \in 1..Len(ns) : bs[i].type = t /\ bs[i].n = ns[i]
  BY <1>3 DEF Messages!Block
<1>6. AllOf(t, bs)
  BY <1>4, <1>5, ListIs DEF AllOf
<1>7. ns = [i \in 1..Len(ns) |-> ns[i]]
  BY <1>1
<1>8. Messages!Numbers(bs) = [i \in 1..Len(ns) |-> bs[i].n]
  BY <1>4 DEF Messages!Numbers, Messages!Each
<1> QED
  BY <1>2, <1>5, <1>6, <1>7, <1>8

(* Of blocks of one type all or none are kept.                                        *)
LEMMA AllKept ==
  ASSUME NEW bs \in Seq(MesBlocks), NEW t, AllOf(t, bs), NEW types
  PROVE  Flat(Kept(BlockOf(types), MesBlocks), bs) = IF t \in types THEN bs ELSE <<>>
<1>1. CASE t \in types
  <2>1. \A i \in 1..Len(bs) : bs[i] \in BlockOf(types)
    BY <1>1 DEF AllOf, BlockOf
  <2> QED
    BY <1>1, <2>1, KeptAll
<1>2. CASE t \notin types
  <2>1. \A i \in 1..Len(bs) : bs[i] \notin BlockOf(types)
    BY <1>2 DEF AllOf, BlockOf
  <2> QED
    BY <1>2, <2>1, KeptNone
<1> QED
  BY <1>1, <1>2

(* A Messages answer in the IR.                                                       *)
LEMMA MesAnswerToIR ==
  ASSUME NEW think \in Seq(Nat), NEW text \in Seq(Nat), NEW calls \in Seq(Nat), NEW cut \in BOOLEAN
  PROVE  Messages!AnswerToIR(Messages!Answer(think, text, calls, cut))
          = TheResponse(think, text, calls, cut)
<1>1. {"thinking", "text", "tool_use"} \subseteq MesTypes \ {"tool_result"}
  BY DEF MesTypes
<1>2. PICK a \in Seq(MesBlocks) : a = Messages!Blocks("thinking", think) /\ AllOf("thinking", a)
        /\ Messages!Numbers(a) = think
  BY <1>1, BlocksRead, BlocksAre DEF Roles
<1>3. PICK b \in Seq(MesBlocks) : b = Messages!Blocks("text", text) /\ AllOf("text", b)
        /\ Messages!Numbers(b) = text
  BY <1>1, BlocksRead, BlocksAre DEF Roles
<1>4. PICK c \in Seq(MesBlocks) : c = Messages!Blocks("tool_use", calls) /\ AllOf("tool_use", c)
        /\ Messages!Numbers(c) = calls
  BY <1>1, BlocksRead, BlocksAre DEF Roles
<1>5. PICK o \in Seq(MesBlocks) : o = a \o b \o c
  <2>1. a \o b \in Seq(MesBlocks)
    BY ConcatProperties
  <2> QED
    BY <2>1, ConcatProperties
<1>6. \A types : Messages!Of(types, o) = (IF "thinking" \in types THEN a ELSE <<>>)
        \o (IF "text" \in types THEN b ELSE <<>>)
                                          \o (IF "tool_use" \in types THEN c ELSE <<>>)
  <2> TAKE types
  <2>1. Messages!Of(types, o) = Flat(Kept(BlockOf(types), MesBlocks), o)
    BY MesOf
  <2>2. PICK T : T = BlockOf(types)
    OBVIOUS
  <2>3. Flat(Kept(T, MesBlocks), a \o b \o c) = Flat(Kept(T, MesBlocks), a)
          \o Flat(Kept(T, MesBlocks), b) \o Flat(Kept(T, MesBlocks), c)
    BY KeptOfThree
  <2>4. /\ Flat(Kept(T, MesBlocks), a) = IF "thinking" \in types THEN a ELSE <<>>
        /\ Flat(Kept(T, MesBlocks), b) = IF "text" \in types THEN b ELSE <<>>
        /\ Flat(Kept(T, MesBlocks), c) = IF "tool_use" \in types THEN c ELSE <<>>
    BY <1>2, <1>3, <1>4, <2>2, AllKept
  <2> QED
    BY <1>5, <2>1, <2>2, <2>3, <2>4
<1>7. \A s \in Seq(MesBlocks) : s \o <<>> = s /\ <<>> \o s = s
  BY ConcatEmptySeq
<1>8. Messages!Of({"thinking"}, o) = a /\ Messages!Of({"text"}, o) = b
        /\ Messages!Of({"tool_use"}, o) = c
  <2>1. Messages!Of({"thinking"}, o) = a \o <<>> \o <<>> /\ Messages!Of({"text"}, o) = <<>> \o b \o <<>>
        /\ Messages!Of({"tool_use"}, o) = <<>> \o <<>> \o c
    BY <1>6
  <2>2. <<>> \o <<>> = <<>>
    OBVIOUS
  <2> QED
    BY <1>7, <2>1, <2>2
<1>9. Messages!Each(Messages!PartToIR, b) = TextParts(text)
  <2>1. DOMAIN text = 1..Len(text) /\ DOMAIN b = 1..Len(b)
    BY ListIs
  <2>2. b = [i \in DOMAIN text |-> Messages!Block("text", text[i])]
    BY <1>3 DEF Messages!Blocks, Messages!Each
  <2>3. \A n : Messages!PartToIR(Messages!Block("text", n)) = [type |-> "text", n |-> n]
    BY DEF Messages!PartToIR, Messages!Block, Messages!Part
  <2>4. Messages!Each(Messages!PartToIR, b) = [i \in DOMAIN text |-> Messages!PartToIR(b[i])]
    BY <2>2 DEF Messages!Each
  <2> QED
    BY <2>2, <2>3, <2>4 DEF TextParts
<1>10. PICK x : x = Messages!Answer(think, text, calls, cut)
  OBVIOUS
<1>11. x.content = o /\ x.stop_reason = IF cut THEN "max_tokens"
        ELSE IF calls # <<>> THEN "tool_use" ELSE "end_turn"
  BY <1>2, <1>3, <1>4, <1>5, <1>10 DEF Messages!Answer
<1> QED
  BY <1>2, <1>4, <1>8, <1>9, <1>10, <1>11
     DEF Messages!AnswerToIR, Messages!Response, Messages!Thinking, TheResponse, EndOf

------------------------------------------------------------------------------------
(* From the IR to a Chat client: what a Chat upstream would have answered.            *)
LEMMA ChatAnswerFromIR ==
  ASSUME NEW think, NEW text, NEW calls, NEW cut
  PROVE  Chat!AnswerFromIR(TheResponse(think, text, calls, cut)) = Chat!Answer(think, text, calls, cut)
  BY DEF Chat!AnswerFromIR, Chat!Answer, Chat!Message, Chat!Parts, Chat!Each, Chat!Part,
         TheResponse, TextParts, EndOf

(* From the IR to a Messages client: what such an upstream would have answered.       *)
LEMMA MesAnswerFromIR ==
  ASSUME NEW think, NEW text, NEW calls, NEW cut
  PROVE  Messages!AnswerFromIR(TheResponse(think, text, calls, cut))
          = Messages!Answer(think, text, calls, cut)
<1>1. \A n : Messages!PartFromIR([type |-> "text", n |-> n]) = Messages!Block("text", n)
  BY DEF Messages!PartFromIR
<1>2. Messages!Each(Messages!PartFromIR, TextParts(text)) = Messages!Blocks("text", text)
  BY <1>1 DEF Messages!Each, TextParts, Messages!Blocks
<1>3. PICK r : r = TheResponse(think, text, calls, cut)
  OBVIOUS
<1>4. r.content = TextParts(text) /\ r.reasoning = think /\ r.tool_calls = calls
        /\ r.finish = EndOf(calls, cut)
  BY <1>3 DEF TheResponse
<1> QED
  BY <1>2, <1>3, <1>4 DEF Messages!AnswerFromIR, Messages!Answer, EndOf

(* All parts of a text are text.                                                      *)
LEMMA ResTextOf ==
  ASSUME NEW text \in Seq(Nat)
  PROVE  Responses!TextOf(TextParts(text)) = TextParts(text)
<1>1. PICK c \in Seq(FrontParts) : c = TextParts(text)
  BY FrontOf DEF TextParts
<1>2. DOMAIN c = 1..Len(c) /\ \A i \in 1..Len(c) : c[i] \in FrontParts /\ c[i].type = "text"
  <2>1. DOMAIN c = 1..Len(c) /\ \A i \in 1..Len(c) : c[i] \in FrontParts
    BY ListIs
  <2>2. \A x \in FrontParts : x.type = "text"
    BY DEF FrontParts, PartsIn
  <2> QED
    BY <2>1, <2>2
<1>3. PICK k : k = Kept(FrontParts, FrontParts)
  OBVIOUS
<1>4. Flat(k, c) = c
  BY <1>2, <1>3, KeptAll
<1>5. \A i \in 1..Len(c) : k[c[i]] = <<c[i]>>
  BY <1>2, <1>3 DEF Kept
<1>6. Responses!TextOf(c)
        = FlattenSeq([i \in 1..Len(c) |-> IF c[i].type \in {"text"} THEN <<c[i]>> ELSE <<>>])
  BY <1>2 DEF Responses!TextOf, Responses!Of, Responses!Chosen, Responses!Each, Responses!FlattenSeq,
          FlattenSeq
<1>7. [i \in 1..Len(c) |-> IF c[i].type \in {"text"} THEN <<c[i]>> ELSE <<>>]
        = [i \in 1..Len(c) |-> k[c[i]]]
  BY <1>2, <1>5
<1> QED
  BY <1>1, <1>4, <1>6, <1>7 DEF Flat

(* From the IR to a Responses client: not always what such an upstream would answer,  *)
(* for a message may be empty, but an output that says the same.                      *)
LEMMA ResAnswerFromIR ==
  ASSUME NEW think \in Seq(Nat), NEW text \in Seq(Nat), NEW calls \in Seq(Nat), NEW cut \in BOOLEAN
  PROVE  Responses!AnswerFromIR(TheResponse(think, text, calls, cut)) =
            [output |-> ResOutput(think, text, calls, text = <<>> /\ calls # <<>>),
             status |-> IF cut THEN "incomplete" ELSE "completed"]
<1>1. PICK r : r = TheResponse(think, text, calls, cut)
  OBVIOUS
<1>2. r.content = TextParts(text) /\ r.reasoning = think /\ r.tool_calls = calls
        /\ r.finish = EndOf(calls, cut)
  BY <1>1 DEF TheResponse
<1>3. (TextParts(text) = <<>>) <=> (text = <<>>)
  BY DEF TextParts
<1>4. Responses!Numbers(Responses!TextOf(TextParts(text))) = text
  <2>1. Responses!Numbers(TextParts(text)) = [i \in DOMAIN text |-> text[i]]
    BY DEF Responses!Numbers, Responses!Each, TextParts
  <2> QED
    BY <2>1, ResTextOf
<1>5. (EndOf(calls, cut) = "length") <=> cut
  BY DEF EndOf
<1> QED
  BY <1>1, <1>2, <1>3, <1>4, <1>5 DEF Responses!AnswerFromIR, ResOutput

(* Whether the output has a call.                                                     *)
HasCall(o) == \E i \in DOMAIN o : o[i].type = "function_call"

(* It has one exactly when the answer has.                                            *)
LEMMA ResHasCall ==
  ASSUME NEW think \in Seq(Nat), NEW text \in Seq(Nat), NEW calls \in Seq(Nat), NEW P \in BOOLEAN,
         P => text = <<>>,
         NEW o, o = ResOutput(think, text, calls, P)
  PROVE  HasCall(o) <=> calls # <<>>
<1>0. InThreeParts(think, text, calls, P)
  BY ResOutputParts
<1>1. PICK a, b, c \in Seq(Items) : OutputParts(think, text, calls, P, a, b, c)
  BY <1>0, Zenon DEF InThreeParts
<1>2. /\ o = a \o b \o c /\ Len(c) = Len(calls)
      /\ \A i \in 1..Len(a) : a[i].type = "reasoning"
      /\ \A i \in 1..Len(b) : b[i].type = "message"
      /\ \A i \in 1..Len(c) : c[i].type = "function_call"
  BY <1>1 DEF OutputParts
<1>3. PICK ab \in Seq(Items) : ab = a \o b
  BY ConcatProperties
<1>4. \A i \in 1..Len(ab) : ab[i].type # "function_call"
  <2> TAKE i \in 1..Len(ab)
  <2>1. Len(ab) = Len(a) + Len(b) /\ ab[i] = IF i <= Len(a) THEN a[i] ELSE b[i - Len(a)]
    BY <1>3, ConcatProperties
  <2>2. Len(a) \in Nat /\ Len(b) \in Nat
    BY ListIs
  <2>3. CASE i <= Len(a)
    BY <1>2, <2>1, <2>2, <2>3
  <2>4. CASE ~(i <= Len(a))
    <3>1. i - Len(a) \in 1..Len(b)
      BY <2>1, <2>2, <2>4
    <3> QED
      BY <1>2, <2>1, <2>4, <3>1
  <2> QED
    BY <2>3, <2>4
<1>5. /\ Len(o) = Len(ab) + Len(c) /\ o \in Seq(Items)
      /\ \A i \in 1..(Len(ab) + Len(c)) : o[i] = IF i <= Len(ab) THEN ab[i] ELSE c[i - Len(ab)]
  BY <1>2, <1>3, ConcatProperties
<1>6. Len(ab) \in Nat /\ Len(c) \in Nat /\ DOMAIN o = 1..Len(o)
  BY <1>5, ListIs
<1>7. (calls = <<>>) <=> Len(c) = 0
  BY <1>2
<1>8. ASSUME calls = <<>>, NEW i \in DOMAIN o PROVE o[i].type # "function_call"
  BY <1>4, <1>5, <1>6, <1>7, <1>8
<1>9. ASSUME calls # <<>> PROVE \E i \in DOMAIN o : o[i].type = "function_call"
  <2>1. Len(ab) + 1 \in 1..(Len(ab) + Len(c)) /\ ~(Len(ab) + 1 <= Len(ab))
          /\ (Len(ab) + 1) - Len(ab) = 1 /\ 1 \in 1..Len(c)
    BY <1>6, <1>7, <1>9
  <2>2. o[Len(ab) + 1] = c[1]
    BY <1>5, <2>1
  <2> QED
    <3>1. Len(ab) + 1 \in DOMAIN o
      BY <1>5, <1>6, <2>1
    <3>2. c[1].type = "function_call"
      BY <1>2, <2>1
    <3> QED
      BY <2>2, <3>1, <3>2
<1> QED
  BY <1>8, <1>9 DEF HasCall

------------------------------------------------------------------------------------
(* The three protocols together.                                                      *)
ChatDocs == [messages : Seq(ChatMessages)]
Docs(p) == IF p = "chat" THEN ChatDocs ELSE IF p = "responses" THEN ResDocs ELSE MesDocs
EntriesIn(p) == IF p = "chat" THEN Seq(ChatMessages) ELSE IF p = "responses" THEN Seq(Items)
        ELSE Seq(Entries)
Says(p, e) == IF p = "chat" THEN Flat(ReadChat, e) ELSE IF p = "responses" THEN Flat(ReadRes, e)
        ELSE Flat(ReadMes, e)

(* A conversation's beginning says the system prompt.                                 *)
LEMMA EmptyReads ==
  ASSUME NEW p \in Protocols, NEW system \in Seq(Nat)
  PROVE  Empty(p, system) \in Docs(p) /\ Read(p, Empty(p, system)) = Same("system", "text", system)
<1>1. CASE p = "chat"
  BY <1>1, ChatEmpty DEF Empty, Read, Docs, ChatDocs
<1>2. CASE p = "responses"
  BY <1>2, ResEmpty DEF Empty, Read, Docs
<1>3. CASE p = "messages"
  BY <1>3, MesEmpty DEF Empty, Read, Docs
<1> QED
  BY <1>1, <1>2, <1>3 DEF Protocols

(* Entries added to a document are read after what was there.                         *)
LEMMA AddReads ==
  ASSUME NEW p \in Protocols, NEW d \in Docs(p), NEW e \in EntriesIn(p)
  PROVE  Add(p, d, e) \in Docs(p) /\ Read(p, Add(p, d, e)) = Read(p, d) \o Says(p, e)
<1>1. CASE p = "chat"
  BY <1>1, ChatAdd DEF Add, Read, Docs, ChatDocs, EntriesIn, Says
<1>2. CASE p = "responses"
  BY <1>2, ResAdd DEF Add, Read, Docs, EntriesIn, Says
<1>3. CASE p = "messages"
  BY <1>3, MesAdd DEF Add, Read, Docs, EntriesIn, Says
<1> QED
  BY <1>1, <1>2, <1>3 DEF Protocols

(* What a user's turn appends says the turn.                                          *)
LEMMA SaidReads ==
  ASSUME NEW p \in Protocols, NEW results \in ResultList, NEW said \in PieceList,
         p = "responses" => \A i \in 1..Len(results) : OnlyText(results[i])
  PROVE  Said(p, results, said) \in EntriesIn(p)
          /\ Says(p, Said(p, results, said)) = Heard(results, said)
<1>1. CASE p = "chat"
  BY <1>1, ChatSaid DEF Said, EntriesIn, Says
<1>2. CASE p = "responses"
  BY <1>2, ResSaid DEF Said, EntriesIn, Says
<1>3. CASE p = "messages"
  BY <1>3, MesSaid DEF Said, EntriesIn, Says
<1> QED
  BY <1>1, <1>2, <1>3 DEF Protocols

(* An answer says this, and tells this of its end.                                    *)
Conveys(p, answer, think, text, calls, cut) ==
    /\ EntriesOf(p, answer) \in EntriesIn(p)
    /\ Says(p, EntriesOf(p, answer)) = Answered(think, text, calls)
    /\ Told(p, answer) = [cut |-> cut, calls |-> calls # <<>> /\ ~cut]

(* What an upstream answers in its protocol conveys the answer.                       *)
LEMMA AnswerConveys ==
  ASSUME NEW p \in Protocols, NEW think \in Seq(Nat), NEW text \in Seq(Nat), NEW calls \in Seq(Nat),
         NEW cut \in BOOLEAN
  PROVE  Conveys(p, Answer(p, think, text, calls, cut), think, text, calls, cut)
<1>1. CASE p = "chat"
  <2>1. Chat!Told(Chat!Answer(think, text, calls, cut)) = [cut |-> cut, calls |-> calls # <<>> /\ ~cut]
    BY DEF Chat!Told, Chat!Answer
  <2> QED
    BY <1>1, <2>1, ChatAnswered DEF Conveys, Answer, EntriesOf, EntriesIn, Says, Told
<1>2. CASE p = "responses"
  <2>1. PICK P \in BOOLEAN : P = (text = <<>>)
    OBVIOUS
  <2>2. PICK o : o = ResOutput(think, text, calls, P)
    OBVIOUS
  <2>3. Responses!Answer(think, text, calls, cut)
          = [output |-> o, status |-> IF cut THEN "incomplete" ELSE "completed"]
    BY <2>1, <2>2 DEF Responses!Answer, ResOutput
  <2>4. HasCall(o) <=> calls # <<>>
    <3>1. P => text = <<>>
      BY <2>1
    <3> QED
      BY <2>2, <3>1, ResHasCall
  <2>5. Responses!Told(Responses!Answer(think, text, calls, cut))
          = [cut |-> cut, calls |-> calls # <<>> /\ ~cut]
    BY <2>3, <2>4 DEF Responses!Told, HasCall
  <2> QED
    BY <1>2, <2>5, ResAnswered DEF Conveys, Answer, EntriesOf, EntriesIn, Says, Told
<1>3. CASE p = "messages"
  <2>1. Messages!Told(Messages!Answer(think, text, calls, cut))
          = [cut |-> cut, calls |-> calls # <<>> /\ ~cut]
    BY DEF Messages!Told, Messages!Answer
  <2> QED
    BY <1>3, <2>1, MesAnswered DEF Conveys, Answer, EntriesOf, EntriesIn, Says, Told
<1> QED
  BY <1>1, <1>2, <1>3 DEF Protocols

(* Through the gateway too, whatever protocol the upstream speaks.                    *)
LEMMA GivenConveys ==
  ASSUME NEW p \in Protocols, NEW mode \in Protocols,
         NEW think \in Seq(Nat), NEW text \in Seq(Nat), NEW calls \in Seq(Nat), NEW cut \in BOOLEAN
  PROVE  Conveys(p, AnswerToInbound(p, mode, Answer(mode, think, text, calls, cut)), think, text,
                 calls, cut)
<1>1. CASE p = mode
  BY <1>1, AnswerConveys DEF AnswerToInbound
<1>2. CASE p # mode
  <2>1. AnswerToIR(Answer(mode, think, text, calls, cut), mode) = TheResponse(think, text, calls, cut)
    <3>1. CASE mode = "chat"
      BY <3>1, ChatAnswerToIR DEF AnswerToIR, Answer
    <3>2. CASE mode = "responses"
      BY <3>2, ResAnswerToIR DEF AnswerToIR, Answer
    <3>3. CASE mode = "messages"
      BY <3>3, MesAnswerToIR DEF AnswerToIR, Answer
    <3> QED
      BY <3>1, <3>2, <3>3 DEF Protocols
  <2>2. PICK r : r = TheResponse(think, text, calls, cut)
    OBVIOUS
  <2>3. CASE p = "chat"
    <3>1. AnswerToInbound(p, mode, Answer(mode, think, text, calls, cut)) = Chat!AnswerFromIR(r)
      BY <1>2, <2>1, <2>2, <2>3 DEF AnswerToInbound
    <3>2. Chat!AnswerFromIR(r) = Answer(p, think, text, calls, cut)
      BY <2>2, <2>3, ChatAnswerFromIR DEF Answer
    <3> QED
      BY <3>1, <3>2, AnswerConveys
  <2>4. CASE p = "messages"
    <3>1. AnswerToInbound(p, mode, Answer(mode, think, text, calls, cut)) = Messages!AnswerFromIR(r)
      BY <1>2, <2>1, <2>2, <2>4 DEF AnswerToInbound
    <3>2. Messages!AnswerFromIR(r) = Answer(p, think, text, calls, cut)
      BY <2>2, <2>4, MesAnswerFromIR DEF Answer
    <3> QED
      BY <3>1, <3>2, AnswerConveys
  <2>5. CASE p = "responses"
    <3>1. AnswerToInbound(p, mode, Answer(mode, think, text, calls, cut)) = Responses!AnswerFromIR(r)
      BY <1>2, <2>1, <2>2, <2>5 DEF AnswerToInbound
    <3>2. PICK P \in BOOLEAN : P = (text = <<>> /\ calls # <<>>)
      OBVIOUS
    <3>3. PICK o : o = ResOutput(think, text, calls, P)
      OBVIOUS
    <3>4. Responses!AnswerFromIR(r)
            = [output |-> o, status |-> IF cut THEN "incomplete" ELSE "completed"]
      BY <2>2, <3>2, <3>3, ResAnswerFromIR
    <3>5. HasCall(o) <=> calls # <<>>
      BY <3>2, <3>3, ResHasCall
    <3>6. PICK x : x = Responses!AnswerFromIR(r) /\ x.output = o
            /\ x.status = IF cut THEN "incomplete" ELSE "completed"
      <4>1. PICK x : x = Responses!AnswerFromIR(r)
        OBVIOUS
      <4> QED
        BY <3>4, <4>1
    <3>7. Responses!Told(x) = [cut |-> cut, calls |-> calls # <<>> /\ ~cut]
      BY <3>5, <3>6 DEF Responses!Told, HasCall
    <3>8. o \in Seq(Items) /\ Flat(ReadRes, o) = Answered(think, text, calls)
      BY <3>2, <3>3, ResOutputReads
    <3> QED
      BY <2>5, <3>1, <3>6, <3>7, <3>8
         DEF Conveys, EntriesOf, Responses!EntriesOf, EntriesIn, Says, Told
  <2> QED
    BY <2>3, <2>4, <2>5 DEF Protocols
<1> QED
  BY <1>1, <1>2

------------------------------------------------------------------------------------
(* What every step keeps: a readable history that says what was said.                 *)
ConversationInv ==
    /\ client \in Protocols
    /\ doc \in Docs(client)
    /\ truth \in Seq(Seq(Atoms)) /\ Len(truth) > 0
    /\ AnswersArrive
    /\ EndTold

(* The pieces of a turn are pieces of the kinds asked for.                            *)
LEMMA PiecesType ==
  ASSUME NEW n \in Nat, NEW kinds \in Seq(PieceKinds)
  PROVE  Pieces(kinds, n) \in PieceList /\ (kinds = <<>> => Pieces(kinds, n) = <<>>)
         /\ Len(Pieces(kinds, n)) = Len(kinds)
                 /\ \A i \in 1..Len(kinds) : Pieces(kinds, n)[i].kind = kinds[i]
<1>1. Len(kinds) \in Nat /\ DOMAIN kinds = 1..Len(kinds)
        /\ \A i \in 1..Len(kinds) : kinds[i] \in PieceKinds
  BY ListIs
<1>2. PICK ps : ps = Pieces(kinds, n)
  OBVIOUS
<1>3. ps = [i \in 1..Len(kinds) |-> ps[i]]
        /\ \A i \in 1..Len(kinds) : ps[i] = [kind |-> kinds[i], n |-> n + i - 1]
  BY <1>1, <1>2 DEF Pieces
<1>4. \A i \in 1..Len(kinds) : ps[i] \in OnePiece /\ ps[i].kind = kinds[i]
  <2> TAKE i \in 1..Len(kinds)
  <2>1. n + i - 1 \in Nat /\ kinds[i] \in PieceKinds
    BY <1>1
  <2> QED
    BY <1>3, <2>1 DEF OnePiece
<1>5. ps \in Seq(OnePiece) /\ Len(ps) = Len(kinds)
  BY <1>1, <1>3, <1>4, TypedList
<1>6. kinds = <<>> => ps = <<>>
  BY <1>3
<1> QED
  BY <1>2, <1>4, <1>5, <1>6 DEF PieceList

(* The client appends entries and what they say is said.                              *)
LEMMA Appending ==
  ASSUME ConversationInv, NEW e \in EntriesIn(client), NEW x \in Seq(Atoms), Says(client, e) = x,
         doc' = Add(client, doc, e), truth' = Append(truth, x), client' = client
  PROVE  /\ client' \in Protocols /\ doc' \in Docs(client')
         /\ truth' \in Seq(Seq(Atoms)) /\ Len(truth') > 0 /\ AnswersArrive'
<1>1. client \in Protocols /\ doc \in Docs(client) /\ truth \in Seq(Seq(Atoms))
        /\ Read(client, doc) = FlattenSeq(truth)
  BY DEF ConversationInv, AnswersArrive
<1>2. doc' \in Docs(client) /\ Read(client, doc') = Read(client, doc) \o x
  BY <1>1, AddReads
<1>3. truth' \in Seq(Seq(Atoms)) /\ Len(truth') > 0
  BY <1>1
<1>4. FlattenSeq(truth') = FlattenSeq(truth) \o x
  BY <1>1, FlattenAppend
<1> QED
  BY <1>1, <1>2, <1>3, <1>4 DEF AnswersArrive

(* A user's turn says atoms.                                                          *)
LEMMA HeardType ==
  ASSUME NEW results \in ResultList, NEW said \in PieceList
  PROVE  Heard(results, said) \in Seq(Atoms)
<1>1. Len(results) \in Nat /\ \A i \in 1..Len(results) : results[i] \in OneResult
  BY ListIs DEF ResultList
<1>2. PICK ss : ss = [i \in 1..Len(results) |-> ResultAtoms(results[i])]
  OBVIOUS
<1>3. ss = [i \in 1..Len(results) |-> ss[i]] /\ \A i \in 1..Len(results) : ss[i] \in Seq(Atoms)
  BY <1>1, <1>2, ResultAtomsType
<1>4. ss \in Seq(Seq(Atoms))
  BY <1>1, <1>3, TypedList
<1>5. FlattenSeq(ss) \in Seq(Atoms) /\ AtomsOf("user", said) \in Seq(Atoms)
  BY <1>4, FlattenType, AtomsOfType DEF Roles
<1> QED
  BY <1>2, <1>5, ConcatProperties DEF Heard

(* The initial states are good.                                                       *)
LEMMA ConversationStarts == Init => ConversationInv
<1> SUFFICES ASSUME Init PROVE ConversationInv
  OBVIOUS
<1>1. PICK system \in {<<>>, <<1>>} :
          /\ doc = Empty(client, system)
          /\ truth = <<Each(LAMBDA n : Atom("system", "text", n), system)>>
  BY DEF Init
<1>2. system \in Seq(Nat) /\ client \in Protocols
  <2>1. <<>> \in Seq(Nat) /\ <<1>> \in Seq(Nat)
    OBVIOUS
  <2> QED
    BY <1>1, <2>1 DEF Init
<1>3. doc \in Docs(client) /\ Read(client, doc) = Same("system", "text", system)
  BY <1>1, <1>2, EmptyReads
<1>4. Each(LAMBDA n : Atom("system", "text", n), system) = Same("system", "text", system)
  BY <1>2, ListIs DEF Each, Same
<1>5. PICK x \in Seq(Atoms) : x = Same("system", "text", system)
  BY <1>2, SameType DEF Roles, AtomKinds
<1>6. truth = <<x>> /\ truth \in Seq(Seq(Atoms)) /\ Len(truth) > 0
  BY <1>1, <1>4, <1>5
<1>7. FlattenSeq(<<x>>) = x
  BY FlattenOne
<1>8. AnswersArrive
  BY <1>3, <1>5, <1>6, <1>7 DEF AnswersArrive
<1>9. EndTold
  BY DEF Init, EndTold
<1> QED
  BY <1>2, <1>3, <1>6, <1>8, <1>9 DEF ConversationInv

(* What the user's turn, or the tools' and the user's, does (Ask, Return).            *)
HeardTurn ==
    \E results \in ResultList, said \in PieceList :
        /\ client = "responses" => \A i \in 1..Len(results) : OnlyText(results[i])
        /\ doc' = Add(client, doc, Said(client, results, said))
        /\ truth' = Append(truth, Heard(results, said))
        /\ client' = client /\ told' = told

(* What an answer does (Reply): the client is given it, and appends what it is given. *)
Given(given, think, text, calls, cut) ==
    /\ \E mode \in Protocols :
          given = AnswerToInbound(client, mode, Answer(mode, think, text, calls, cut))
    /\ doc' = Add(client, doc, EntriesOf(client, given))
    /\ truth' = Append(truth, Answered(think, text, calls))
    /\ told' = [answer |-> Told(client, given), fact |-> [cut |-> cut, calls |-> calls # <<>> /\ ~cut]]
    /\ client' = client

AnswerTurn ==
    \E think, text, calls \in Seq(Nat), cut \in BOOLEAN : \E given :
        Given(given, think, text, calls, cut)

(* A turn that is heard keeps them good.                                              *)
LEMMA HeardArrives ==
  ASSUME ConversationInv, HeardTurn
  PROVE  ConversationInv'
<1>1. PICK results \in ResultList, said \in PieceList :
          /\ client = "responses" => \A i \in 1..Len(results) : OnlyText(results[i])
          /\ doc' = Add(client, doc, Said(client, results, said))
          /\ truth' = Append(truth, Heard(results, said))
          /\ client' = client /\ told' = told
  BY DEF HeardTurn
<1>2. client \in Protocols
  BY DEF ConversationInv
<1>3. PICK e \in EntriesIn(client) : e = Said(client, results, said)
        /\ Says(client, e) = Heard(results, said)
  BY <1>1, <1>2, SaidReads
<1>4. PICK x \in Seq(Atoms) : x = Heard(results, said)
  BY HeardType
<1>5. /\ client' \in Protocols /\ doc' \in Docs(client')
      /\ truth' \in Seq(Seq(Atoms)) /\ Len(truth') > 0 /\ AnswersArrive'
  BY <1>1, <1>3, <1>4, Appending
<1>6. EndTold'
  BY <1>1 DEF ConversationInv, EndTold
<1> QED
  BY <1>5, <1>6 DEF ConversationInv

(* What an answer says are atoms.                                                     *)
LEMMA AnsweredType ==
  ASSUME NEW think \in Seq(Nat), NEW text \in Seq(Nat), NEW calls \in Seq(Nat)
  PROVE  Answered(think, text, calls) \in Seq(Atoms)
<1>1. /\ Same("assistant", "think", think) \in Seq(Atoms)
      /\ Same("assistant", "text", text) \in Seq(Atoms)
      /\ Same("assistant", "call", calls) \in Seq(Atoms)
  BY SameType DEF Roles, AtomKinds
<1> QED
  BY <1>1, ConcatProperties DEF Answered

(* An answer keeps them good: what the client is given conveys it.                    *)
LEMMA AnswerArrives ==
  ASSUME ConversationInv, AnswerTurn
  PROVE  ConversationInv'
<1>0. client \in Protocols
  BY DEF ConversationInv
<1>1. PICK think, text, calls \in Seq(Nat), cut \in BOOLEAN :
          \E given : Given(given, think, text, calls, cut)
  BY DEF AnswerTurn
<1>2. PICK given : Given(given, think, text, calls, cut)
  BY <1>1
<1>3. Conveys(client, given, think, text, calls, cut)
  BY <1>0, <1>2, GivenConveys DEF Given
<1>4. PICK e \in EntriesIn(client) : e = EntriesOf(client, given)
        /\ Says(client, e) = Answered(think, text, calls)
  BY <1>3 DEF Conveys
<1>5. PICK x \in Seq(Atoms) : x = Answered(think, text, calls)
  BY AnsweredType
<1>6. /\ client' \in Protocols /\ doc' \in Docs(client')
      /\ truth' \in Seq(Seq(Atoms)) /\ Len(truth') > 0 /\ AnswersArrive'
  BY <1>2, <1>4, <1>5, Appending DEF Given
<1>7. EndTold'
  BY <1>2, <1>3 DEF EndTold, Conveys, Given
<1> QED
  BY <1>6, <1>7 DEF ConversationInv

(* The user's question is heard.                                                      *)
LEMMA AskHeard ==
  ASSUME ConversationInv, NEW kinds \in Words, Ask(kinds)
  PROVE  HeardTurn
<1>1. kinds \in Seq(PieceKinds)
  <2>1. \A a, b \in PieceKinds : <<a>> \in Seq(PieceKinds) /\ <<a, b>> \in Seq(PieceKinds)
    OBVIOUS
  <2>2. {"text", "image", "file"} \subseteq PieceKinds
    BY DEF PieceKinds
  <2> QED
    BY <2>1, <2>2 DEF Words
<1>2. Base \in Nat
  <2>1. Len(truth) \in Nat
    BY ListIs DEF ConversationInv
  <2> QED
    BY <2>1 DEF Base
<1>3. PICK said \in PieceList : said = Pieces(kinds, Base)
  BY <1>1, <1>2, PiecesType
<1>4. PICK results \in ResultList : results = <<>>
  BY EmptySeq DEF ResultList
<1>5. \A i \in 1..Len(results) : OnlyText(results[i])
  BY <1>4
<1>6. Heard(results, said) = AtomsOf("user", said)
  <2>1. [i \in 1..Len(results) |-> ResultAtoms(results[i])] = <<>>
    BY <1>4
  <2>2. AtomsOf("user", said) \in Seq(Atoms)
    BY AtomsOfType DEF Roles
  <2>3. <<>> \o AtomsOf("user", said) = AtomsOf("user", said)
    BY <2>2, ConcatEmptySeq
  <2> QED
    BY <2>1, <2>3, FlattenEmpty DEF Heard
<1>7. doc' = Add(client, doc, Said(client, results, said))
        /\ truth' = Append(truth, Heard(results, said))
      /\ client' = client /\ told' = told
  BY <1>3, <1>4, <1>6 DEF Ask
<1> QED
  BY <1>5, <1>7 DEF HeardTurn

(* Numbers counted on.                                                                *)
LEMMA NumbersUp ==
  ASSUME NEW k \in Nat, NEW b \in Nat
  PROVE  [i \in 1..k |-> b + i] \in Seq(Nat) /\ Len([i \in 1..k |-> b + i]) = k
<1>1. PICK f : f = [i \in 1..k |-> b + i]
  OBVIOUS
<1>2. f = [i \in 1..k |-> f[i]] /\ \A i \in 1..k : f[i] \in Nat
  BY <1>1
<1>3. f \in Seq(Nat) /\ Len(f) = k
  BY <1>2, TypedList
<1> QED
  BY <1>1, <1>3

(* An upstream's reply is an answer.                                                  *)
LEMMA ReplyAnswers ==
  ASSUME ConversationInv, ConversationAssumption, NEW mode \in Protocols, NEW think \in 0..1,
         NEW text \in 0..1, NEW calls \in 0..MaxCalls, NEW cut \in BOOLEAN,
         Reply(mode, think, text, calls, cut)
  PROVE  AnswerTurn
<1>1. Base \in Nat /\ calls \in Nat
  <2>1. Len(truth) \in Nat
    BY ListIs DEF ConversationInv
  <2> QED
    BY <2>1 DEF Base, ConversationAssumption
<1>2. PICK thoughts \in Seq(Nat) : thoughts = [i \in 1..(2 * think) |-> Base + i]
  <2>1. 2 * think \in Nat
    OBVIOUS
  <2> QED
    BY <1>1, <2>1, NumbersUp
<1>3. PICK texts \in Seq(Nat) : texts = [i \in 1..(2 * text) |-> Base + 2 + i]
  <2>1. 2 * text \in Nat /\ Base + 2 \in Nat
    BY <1>1
  <2> QED
    BY <2>1, NumbersUp
<1>4. PICK ids \in Seq(Nat) : ids = [i \in 1..calls |-> Base + 4 + i] /\ Len(ids) = calls
  <2>1. Base + 4 \in Nat
    BY <1>1
  <2> QED
    BY <1>1, <2>1, NumbersUp
<1>5. (ids # <<>>) <=> calls > 0
  <2>1. Len(ids) = calls
    BY <1>4
  <2>2. (ids = <<>>) <=> (Len(ids) = 0)
    BY EmptySeq
  <2> QED
    BY <1>1, <2>1, <2>2
<1>6. PICK given : given = AnswerToInbound(client, mode, Answer(mode, thoughts, texts, ids, cut))
  OBVIOUS
<1>7. \A kind, ns : ns \in Seq(Nat) => Each(LAMBDA n : Atom("assistant", kind, n), ns)
        = Same("assistant", kind, ns)
  BY ListIs DEF Each, Same
<1>8. /\ doc' = Add(client, doc, EntriesOf(client, given)) /\ client' = client
      /\ truth' = Append(truth, Each(LAMBDA n : Atom("assistant", "think", n), thoughts)
                                \o Each(LAMBDA n : Atom("assistant", "text", n), texts)
                                \o Each(LAMBDA n : Atom("assistant", "call", n), ids))
      /\ told' = [answer |-> Told(client, given), fact |-> [cut |-> cut, calls |-> calls > 0 /\ ~cut]]
  BY <1>2, <1>3, <1>4, <1>6 DEF Reply
<1>9. truth' = Append(truth, Answered(thoughts, texts, ids))
  BY <1>7, <1>8 DEF Answered
<1>10. told' = [answer |-> Told(client, given), fact |-> [cut |-> cut, calls |-> ids # <<>> /\ ~cut]]
  BY <1>5, <1>8
<1> QED
  BY <1>6, <1>8, <1>9, <1>10 DEF AnswerTurn, Given

(* The calls of an answer are atoms.                                                  *)
LEMMA CallsOfType ==
  ASSUME ConversationInv
  PROVE  CallsOf(Len(truth)) \in Seq(Atoms)
<1>1. PICK t \in Seq(Atoms) : t = truth[Len(truth)]
  <2>1. truth \in Seq(Seq(Atoms)) /\ Len(truth) > 0 /\ Len(truth) \in Nat
    BY ListIs DEF ConversationInv
  <2> QED
    BY <2>1
<1>2. PICK k : k = Kept({a \in Atoms : a.kind = "call"}, Atoms) /\ Makes(k, Atoms, Atoms)
  BY KeptMakes
<1>3. DOMAIN t = 1..Len(t) /\ \A i \in 1..Len(t) : t[i] \in Atoms
  BY ListIs
<1>4. [i \in DOMAIN t |-> IF t[i].kind = "call" THEN <<t[i]>> ELSE <<>>] = [i \in 1..Len(t) |-> k[t[i]]]
  BY <1>2, <1>3 DEF Kept
<1>5. CallsOf(Len(truth))
        = FlattenSeq([i \in DOMAIN t |-> IF t[i].kind = "call" THEN <<t[i]>> ELSE <<>>])
  BY <1>1 DEF CallsOf, Chosen, Each
<1>6. CallsOf(Len(truth)) = Flat(k, t)
  BY <1>4, <1>5 DEF Flat
<1> QED
  BY <1>2, <1>6, FlatType

(* The tools' results are heard; a Responses client's are text.                       *)
LEMMA ReturnHeard ==
  ASSUME ConversationInv, NEW picture \in BOOLEAN, NEW said \in BOOLEAN, Return(picture, said)
  PROVE  HeardTurn
<1>1. Base \in Nat
  <2>1. Len(truth) \in Nat
    BY ListIs DEF ConversationInv
  <2> QED
    BY <2>1 DEF Base
<1>2. PICK calls \in Seq(Atoms) : calls = CallsOf(Len(truth))
  BY CallsOfType
<1>3. Len(calls) \in Nat /\ DOMAIN calls = 1..Len(calls) /\ \A i \in 1..Len(calls) : calls[i] \in Atoms
  BY ListIs
<1> DEFINE kindsOf(i) == IF picture /\ i = 1 THEN <<"text", "image">> ELSE <<"text">>
<1>4. PICK results : results = [i \in DOMAIN calls |->
                          [id |-> calls[i].n, parts |-> Pieces(kindsOf(i), Base + 3 * i)]]
  OBVIOUS
<1>5. /\ <<"text", "image">> \in Seq(PieceKinds) /\ <<"text">> \in Seq(PieceKinds)
          /\ <<>> \in Seq(PieceKinds)
  <2>1. "text" \in PieceKinds /\ "image" \in PieceKinds
    BY DEF PieceKinds
  <2> QED
    BY <2>1
<1>6. \A i \in 1..Len(calls) : kindsOf(i) \in Seq(PieceKinds) /\ Base + 3 * i \in Nat
  BY <1>1, <1>5
<1>7. \A i \in 1..Len(calls) : Pieces(kindsOf(i), Base + 3 * i) \in PieceList
  <2> HIDE DEF kindsOf
  <2> QED
    BY <1>6, PiecesType
<1>8. \A i \in 1..Len(calls) : results[i] \in OneResult
  <2> HIDE DEF kindsOf
  <2> QED
    BY <1>3, <1>4, <1>7 DEF OneResult, Atoms
<1>9. results = [i \in 1..Len(calls) |-> results[i]]
  BY <1>3, <1>4
<1>10. results \in ResultList /\ Len(results) = Len(calls) /\ DOMAIN results = 1..Len(results)
  <2>1. results \in Seq(OneResult) /\ Len(results) = Len(calls)
    BY <1>3, <1>8, <1>9, TypedList
  <2> QED
    BY <2>1, ListIs DEF ResultList
<1>11. ~picture => \A i \in 1..Len(results) : OnlyText(results[i])
  <2> SUFFICES ASSUME ~picture, NEW i \in 1..Len(results) PROVE OnlyText(results[i])
    OBVIOUS
  <2>1. results[i].parts = Pieces(<<"text">>, Base + 3 * i)
    BY <1>3, <1>4, <1>10
  <2>2. Base + 3 * i \in Nat
    BY <1>6, <1>10
  <2>3. Len(<<"text">>) = 1
    OBVIOUS
  <2>4. Len(Pieces(<<"text">>, Base + 3 * i)) = 1
          /\ \A j \in 1..1 : Pieces(<<"text">>, Base + 3 * i)[j].kind = <<"text">>[j]
    BY <1>5, <2>2, <2>3, PiecesType
  <2>5. \A j \in 1..1 : <<"text">>[j] = "text"
    OBVIOUS
  <2> QED
    BY <2>1, <2>4, <2>5 DEF OnlyText
<1>12. PICK words \in PieceList : words = Pieces(IF said THEN <<"text">> ELSE <<>>, Base)
  BY <1>1, <1>5, PiecesType
<1>13. /\ doc' = Add(client, doc, Said(client, results, words)) /\ client' = client /\ told' = told
       /\ truth' = Append(truth, FlattenSeq(Each(LAMBDA r : <<Atom("tool", "result", r.id)>>
               \o AtomsOf("tool", r.parts), results))
                                 \o AtomsOf("user", words))
       /\ picture => client # "responses"
  BY <1>2, <1>4, <1>12 DEF Return
<1>14. truth' = Append(truth, Heard(results, words))
  BY <1>10, <1>13 DEF Heard, ResultAtoms, Each
<1> QED
  BY <1>10, <1>11, <1>13, <1>14 DEF HeardTurn

(* What a step does.                                                                  *)
LEMMA StepTakesTurn ==
  ASSUME ConversationInv, [Next]_vars
  PROVE  HeardTurn \/ AnswerTurn \/ UNCHANGED vars
<1>1. ASSUME NEW kinds \in Words, Ask(kinds) PROVE HeardTurn
  BY <1>1, AskHeard
<1>2. ASSUME NEW mode \in Protocols, NEW think \in 0..1, NEW text \in 0..1,
             NEW calls \in 0..MaxCalls, NEW cut \in BOOLEAN,
             Reply(mode, think, text, calls, cut)
      PROVE  AnswerTurn
  BY <1>2, ReplyAnswers, ConversationAssumption
<1>3. ASSUME NEW picture \in BOOLEAN, NEW said \in BOOLEAN, Return(picture, said)
      PROVE  HeardTurn
  BY <1>3, ReturnHeard
<1> QED
  BY <1>1, <1>2, <1>3 DEF Next

(* What every step keeps.                                                             *)
LEMMA ConversationKept == Spec => []ConversationInv
<1>1. Init => ConversationInv
  BY ConversationStarts
<1>2. ConversationInv /\ [Next]_vars => ConversationInv'
  <2> SUFFICES ASSUME ConversationInv, [Next]_vars PROVE ConversationInv'
    OBVIOUS
  <2>1. CASE HeardTurn
    BY <2>1, HeardArrives
  <2>2. CASE AnswerTurn
    BY <2>2, AnswerArrives
  <2>3. CASE UNCHANGED vars
    BY <2>3 DEF vars, ConversationInv, AnswersArrive, EndTold
  <2> QED
    BY <2>1, <2>2, <2>3, StepTakesTurn
<1> QED
  BY <1>1, <1>2, PTL DEF Spec

(* Whatever protocols upstreams answer in, and after however many turns, the client's *)
(* history says what was said (_upstream_resp_to_inbound): every thought, text and    *)
(* call of every answer, once and in order.  The answers are those of Reply: at most  *)
(* one reasoning item, then text, then calls.                                         *)
THEOREM AnswersArriveInOrder == Spec => []AnswersArrive
<1>1. ConversationInv => AnswersArrive
  BY DEF ConversationInv
<1> QED
  BY <1>1, ConversationKept, PTL

(* The client is told of a cut if and only if there was one, and otherwise of calls   *)
(* to run exactly when the answer has them, in the words of its own protocol.         *)
THEOREM EndsTold == Spec => []EndTold
<1>1. ConversationInv => EndTold
  BY DEF ConversationInv
<1> QED
  BY <1>1, ConversationKept, PTL

----------------------------------------------------------------------------------
(* Requests: what an upstream is asked says what was said (Faithful).                 *)

(* A list of elements of a smaller set.                                               *)
LEMMA SeqGrows ==
  ASSUME NEW S, NEW T, S \subseteq T, NEW s \in Seq(S)
  PROVE  s \in Seq(T)
<1>1. Len(s) \in Nat /\ s = [i \in 1..Len(s) |-> s[i]] /\ \A i \in 1..Len(s) : s[i] \in T
  BY ListIs
<1> QED
  BY <1>1, TypedList

(* h makes every element of s itself.                                                 *)
Keeps(h, s) == \A i \in 1..Len(s) : h[s[i]] = <<s[i]>>

(* Then it makes the list itself.                                                     *)
LEMMA FlatKeeps ==
  ASSUME NEW S, NEW s \in Seq(S), NEW h, Keeps(h, s)
  PROVE  Flat(h, s) = s
<1>1. PICK m : m = [x \in S |-> x]
  OBVIOUS
<1>2. \A i \in 1..Len(s) : m[s[i]] = s[i]
  BY <1>1, ListIs
<1>3. OneEach(h, m, s)
  BY <1>2 DEF OneEach, Keeps
<1>4. Flat(h, s) = Mapped(m, s)
  BY <1>3, FlatMaps
<1>5. Mapped(m, s) = [i \in 1..Len(s) |-> s[i]]
  BY <1>2 DEF Mapped
<1>6. Len(s) \in Nat /\ s = [i \in 1..Len(s) |-> s[i]]
  BY ListIs
<1> QED
  BY <1>4, <1>5, <1>6

----------------------------------------------------------------------------------
(* Content read part by part.                                                         *)
ReadPart(K, by, T) == [x \in PartsIn(T) |-> <<Atom(by, K[x.type], x.n)>>]

Reads(K, T) == \A t \in T : K[t] \in AtomKinds

(* One atom, of every part.                                                           *)
LEMMA ReadPartMakes ==
  ASSUME NEW T, NEW K, Reads(K, T), NEW by \in Roles
  PROVE  Makes(ReadPart(K, by, T), PartsIn(T), Atoms)
<1>1. \A x \in PartsIn(T) : Atom(by, K[x.type], x.n) \in Atoms
  BY DEF PartsIn, Reads, Atom, Atoms
<1>2. \A x \in PartsIn(T) : <<Atom(by, K[x.type], x.n)>> \in Seq(Atoms)
  BY <1>1
<1> QED
  BY <1>2 DEF Makes, ReadPart

(* What content says, part by part.                                                   *)
LEMMA ContentFlat ==
  ASSUME NEW T, NEW K, NEW by, NEW c \in Seq(PartsIn(T))
  PROVE  ContentAtoms(K, by, c) = Flat(ReadPart(K, by, T), c)
<1>1. PICK m : m = [x \in PartsIn(T) |-> Atom(by, K[x.type], x.n)]
  OBVIOUS
<1>2. \A i \in 1..Len(c) : c[i] \in PartsIn(T)
  BY ListIs
<1>3. \A i \in 1..Len(c) : m[c[i]] = Atom(by, K[c[i].type], c[i].n)
  BY <1>1, <1>2
<1>4. OneEach(ReadPart(K, by, T), m, c)
  BY <1>2, <1>3 DEF OneEach, ReadPart
<1>5. Flat(ReadPart(K, by, T), c) = Mapped(m, c)
  BY <1>4, FlatMaps
<1> QED
  BY <1>3, <1>5 DEF Mapped, ContentAtoms

(* The conversion g of parts does to what they say what h does to atoms.              *)
Turns(T, K, L, by, g, h) ==
    \A x \in PartsIn(T) : ContentAtoms(L, by, g[x]) = h[Atom(by, K[x.type], x.n)]

(* So the content converted by g says what h makes of what the content says.          *)
LEMMA Converted ==
  ASSUME NEW T, NEW U, NEW K, NEW L, Reads(K, T), Reads(L, U), NEW by \in Roles,
         NEW g, Makes(g, PartsIn(T), PartsIn(U)), NEW h, Makes(h, Atoms, Atoms),
         Turns(T, K, L, by, g, h), NEW c \in Seq(PartsIn(T))
  PROVE  ContentAtoms(L, by, Flat(g, c)) = Flat(h, ContentAtoms(K, by, c))
<1>1. PICK P, Q, A, B : P = PartsIn(T) /\ Q = PartsIn(U) /\ A = ReadPart(K, by, T)
        /\ B = ReadPart(L, by, U)
  OBVIOUS
<1>2. Makes(A, P, Atoms) /\ Makes(B, Q, Atoms) /\ Makes(g, P, Q)
  BY <1>1, ReadPartMakes
<1>3. c \in Seq(P) /\ Flat(g, c) \in Seq(Q)
  BY <1>1, <1>2, FlatType
<1>4. ContentAtoms(L, by, Flat(g, c)) = Flat(B, Flat(g, c)) /\ ContentAtoms(K, by, c) = Flat(A, c)
  BY <1>1, <1>3, ContentFlat
<1>5. PICK v : v = [x \in P |-> Flat(B, g[x])]
  OBVIOUS
<1>6. PICK w : w = [x \in P |-> Flat(h, A[x])]
  OBVIOUS
<1>7. Flat(B, Flat(g, c)) = Flat(v, c)
  BY <1>2, <1>3, <1>5, FlatFlat
<1>8. Flat(h, Flat(A, c)) = Flat(w, c)
  BY <1>2, <1>3, <1>6, FlatFlat
<1>9. ASSUME NEW x \in P PROVE v[x] = w[x]
  <2>1. g[x] \in Seq(Q)
    BY <1>2 DEF Makes
  <2>2. Flat(B, g[x]) = ContentAtoms(L, by, g[x])
    BY <1>1, <2>1, ContentFlat
  <2>3. ContentAtoms(L, by, g[x]) = h[Atom(by, K[x.type], x.n)]
    BY <1>1 DEF Turns
  <2>4. PICK a \in Atoms : a = Atom(by, K[x.type], x.n)
    BY <1>1 DEF PartsIn, Reads, Atom, Atoms
  <2>5. A[x] = <<a>>
    BY <1>1, <2>4 DEF ReadPart
  <2>6. Flat(h, <<a>>) = h[a]
    BY FlatOne
  <2> QED
    BY <1>5, <1>6, <2>2, <2>3, <2>4, <2>5, <2>6
<1>10. \A i \in 1..Len(c) : v[c[i]] = w[c[i]]
  <2>1. \A i \in 1..Len(c) : c[i] \in P
    BY <1>3, ListIs
  <2> QED
    BY <1>9, <2>1
<1>11. Flat(v, c) = Flat(w, c)
  BY <1>10, FlatSame
<1> QED
  BY <1>4, <1>7, <1>8, <1>11
----------------------------------------------------------------------------------
(* What of an atom reaches the IR from a client, and an upstream from the IR.         *)
In(p) == [a \in Atoms |->
             IF (a.kind = "file" /\ p # "responses") \/ (a.kind = "image" /\ a.by = "tool"
                     /\ p # "chat")
             THEN <<>>
             ELSE <<[a EXCEPT !.kind = IF @ = "file" THEN "text" ELSE @]>>]

Out(mode) == [a \in Atoms |->
                 IF (a.kind = "think" /\ mode = "messages")
                    \/ (a.kind = "image" /\ a.by = "tool" /\ mode # "chat")
                 THEN <<>> ELSE <<a>>]

(* One atom or none, of every atom.                                                   *)
LEMMA OutMakes == \A mode : Makes(Out(mode), Atoms, Atoms)
  BY DEF Out, Makes

(* One atom or none, here too.                                                        *)
LEMMA InMakes == \A p : Makes(In(p), Atoms, Atoms)
<1> TAKE p
<1>1. \A a \in Atoms : [a EXCEPT !.kind = IF @ = "file" THEN "text" ELSE @] \in Atoms
  BY DEF Atoms, AtomKinds
<1> QED
  BY <1>1 DEF In, Makes

(* What both do, as Faithful states it.                                               *)
LEMMA InThenOut ==
  ASSUME NEW mode \in Protocols, NEW s \in Seq(Atoms)
  PROVE  Arriving(mode, s) = Flat(Out(mode), Flat(In(client), s))
<1>1. PICK k : k = [a \in Atoms |-> IF Reaches(mode, a) THEN <<a>> ELSE <<>>]
  OBVIOUS
<1>2. PICK m : m = [a \in Atoms |-> [a EXCEPT !.kind = IF @ = "file" THEN "text" ELSE @]]
  OBVIOUS
<1>3. PICK e : e = [a \in Atoms |-> <<m[a]>>]
  OBVIOUS
<1>4. m \in [Atoms -> Atoms]
  BY <1>2 DEF Atoms, AtomKinds
<1>5. Makes(k, Atoms, Atoms) /\ Makes(e, Atoms, Atoms)
  BY <1>1, <1>3, <1>4 DEF Makes
<1>6. PICK t \in Seq(Atoms) : t = Flat(k, s)
  BY <1>5, FlatType
<1>7. Chosen(LAMBDA a : Reaches(mode, a), s) = t
  <2>1. DOMAIN s = 1..Len(s)
          /\ \A i \in 1..Len(s) : k[s[i]] = IF Reaches(mode, s[i]) THEN <<s[i]>> ELSE <<>>
    BY <1>1, ListIs
  <2>2. [i \in DOMAIN s |-> IF Reaches(mode, s[i]) THEN <<s[i]>> ELSE <<>>]
          = [i \in 1..Len(s) |-> k[s[i]]]
    BY <2>1
  <2>3. Chosen(LAMBDA a : Reaches(mode, a), s)
          = FlattenSeq([i \in DOMAIN s |-> IF Reaches(mode, s[i]) THEN <<s[i]>> ELSE <<>>])
    BY DEF Chosen, Each
  <2> QED
    BY <1>6, <2>2, <2>3 DEF Flat
<1>8. Arriving(mode, s) = Mapped(m, t)
  <2>1. DOMAIN t = 1..Len(t)
          /\ \A i \in 1..Len(t) : m[t[i]] = [t[i] EXCEPT !.kind = IF @ = "file" THEN "text" ELSE @]
    BY <1>2, ListIs
  <2>2. Arriving(mode, s) = [i \in DOMAIN t |-> [t[i] EXCEPT !.kind = IF @ = "file" THEN "text" ELSE @]]
    BY <1>7 DEF Arriving, Each
  <2> QED
    BY <2>1, <2>2 DEF Mapped
<1>9. Flat(e, t) = Mapped(m, t)
  <2>1. OneEach(e, m, t)
    BY <1>3, ListIs DEF OneEach
  <2> QED
    BY <2>1, FlatMaps
<1>10. PICK v : v = [a \in Atoms |-> Flat(e, k[a])]
  OBVIOUS
<1>11. PICK w : w = [a \in Atoms |-> Flat(Out(mode), In(client)[a])]
  OBVIOUS
<1>12. Flat(e, t) = Flat(v, s)
  BY <1>5, <1>6, <1>10, FlatFlat
<1>13. Flat(Out(mode), Flat(In(client), s)) = Flat(w, s)
  BY <1>11, InMakes, OutMakes, FlatFlat
<1>14. ASSUME NEW a \in Atoms PROVE v[a] = w[a]
  <2>1. v[a] = IF Reaches(mode, a) THEN <<m[a]>> ELSE <<>>
    <3>1. Flat(e, <<a>>) = e[a]
      BY <1>5, FlatOne
    <3> QED
      BY <1>1, <1>3, <1>10, <3>1, FlatEmpty
  <2>2. PICK dropped \in BOOLEAN :
           dropped = ((a.kind = "file" /\ client # "responses") \/ (a.kind = "image" /\ a.by
                   = "tool" /\ client # "chat"))
    OBVIOUS
  <2>3. In(client)[a] = IF dropped THEN <<>> ELSE <<m[a]>>
    BY <1>2, <2>2 DEF In
  <2>4. Flat(Out(mode), <<m[a]>>) = Out(mode)[m[a]]
    BY <1>4, OutMakes, FlatOne
  <2>5. w[a] = IF dropped THEN <<>> ELSE Out(mode)[m[a]]
    BY <1>11, <2>3, <2>4, FlatEmpty
  <2>6. m[a] \in Atoms /\ m[a].by = a.by /\ m[a].kind = (IF a.kind = "file" THEN "text" ELSE a.kind)
    BY <1>2, <1>4 DEF Atoms
  <2>7. Out(mode)[m[a]] = IF (a.kind = "think" /\ mode = "messages") \/ (a.kind = "image" /\ a.by
          = "tool" /\ mode # "chat")
                          THEN <<>> ELSE <<m[a]>>
    BY <2>6 DEF Out
  <2>8. Reaches(mode, a) <=> ~dropped
          /\ ~((a.kind = "think" /\ mode = "messages") \/ (a.kind = "image" /\ a.by = "tool"
                  /\ mode # "chat"))
    BY <2>2 DEF Reaches, Protocols
  <2> QED
    BY <2>1, <2>5, <2>7, <2>8
<1>15. Flat(v, s) = Flat(w, s)
  <2>1. \A i \in 1..Len(s) : v[s[i]] = w[s[i]]
    BY <1>14, ListIs
  <2> QED
    BY <2>1, FlatSame
<1> QED
  BY <1>8, <1>9, <1>12, <1>13, <1>15
----------------------------------------------------------------------------------
(* The messages of the IR.                                                            *)
IRTypes == {"text", "image_url"}
IRParts == PartsIn(IRTypes)
IRMessages == {m \in [role : Roles, content : Seq(IRParts), tool_calls : Seq(Nat),
                      tool_call_id : Nat, reasoning : Seq(Nat)] :
                  m.role # "assistant" => m.tool_calls = <<>> /\ m.reasoning = <<>>}
TurnMessages == {m \in IRMessages : m.role # "system"}
FrontMessages == {m \in IRMessages : m.role = "system" /\ m.content \in Seq(FrontParts)}

(* The IR's messages are read as Chat's are.                                          *)
LEMMA IRIsChat == IRMessages \subseteq ChatMessages
<1> SUFFICES ASSUME NEW m \in IRMessages PROVE m \in ChatMessages
  OBVIOUS
<1>1. IRParts \subseteq ChatParts
  BY DEF IRParts, ChatParts, PartsIn, IRTypes, ChatTypes
<1>2. m.content \in Seq(ChatParts)
  <2>1. m.content \in Seq(IRParts)
    BY DEF IRMessages
  <2> QED
    BY <1>1, <2>1, SeqGrows
<1> QED
  BY <1>2 DEF IRMessages, ChatMessages

(* A tool message says its call, then its content.                                    *)
LEMMA ToolReads ==
  ASSUME NEW m \in IRMessages, m.role = "tool"
  PROVE  /\ ReadChat[m] = <<Atom("tool", "result", m.tool_call_id)>> \o ChatAtoms("tool", m.content)
         /\ ChatAtoms("tool", m.content) \in Seq(Atoms)
         /\ Atom("tool", "result", m.tool_call_id) \in Atoms
<1>1. m \in ChatMessages /\ m.content \in Seq(ChatParts) /\ m.tool_call_id \in Nat
        /\ m.tool_calls = <<>> /\ m.reasoning = <<>>
  BY IRIsChat DEF IRMessages, ChatMessages
<1>2. ReadChat[m] = Same("tool", "result", <<m.tool_call_id>>) \o <<>>
        \o ChatAtoms("tool", m.content) \o <<>>
  BY <1>1, ChatReads, SameNone DEF ReadChat, ResultOf
<1>3. ChatAtoms("tool", m.content) \in Seq(Atoms) /\ Atom("tool", "result", m.tool_call_id) \in Atoms
  BY <1>1, ChatAtomsType DEF Roles, Atom, Atoms, AtomKinds
<1>4. <<Atom("tool", "result", m.tool_call_id)>> \in Seq(Atoms)
  BY <1>3
<1>5. PICK x \in Seq(Atoms), c \in Seq(Atoms) :
         x = <<Atom("tool", "result", m.tool_call_id)>> /\ c = ChatAtoms("tool", m.content)
  BY <1>3, <1>4
<1>6. ReadChat[m] = x \o <<>> \o c \o <<>>
  BY <1>2, <1>5, SameOne
<1>7. x \o <<>> = x /\ (x \o c) \o <<>> = x \o c
  <2>1. x \o c \in Seq(Atoms)
    BY ConcatProperties
  <2> QED
    BY <2>1, ConcatEmptySeq
<1> QED
  BY <1>3, <1>5, <1>6, <1>7

(* Every other message says its thinking, content and calls.                          *)
LEMMA OwnReads ==
  ASSUME NEW m \in IRMessages, m.role # "tool"
  PROVE  /\ ReadChat[m] = Same(m.role, "think", m.reasoning) \o ChatAtoms(m.role, m.content)
                             \o Same(m.role, "call", m.tool_calls)
         /\ Same(m.role, "think", m.reasoning) \in Seq(Atoms)
                 /\ ChatAtoms(m.role, m.content) \in Seq(Atoms)
         /\ Same(m.role, "call", m.tool_calls) \in Seq(Atoms)
<1>1. m \in ChatMessages /\ m.content \in Seq(ChatParts) /\ m.tool_calls \in Seq(Nat)
        /\ m.reasoning \in Seq(Nat) /\ m.role \in Roles
  BY IRIsChat DEF IRMessages, ChatMessages
<1>2. ReadChat[m] = <<>> \o Same(m.role, "think", m.reasoning) \o ChatAtoms(m.role, m.content)
                       \o Same(m.role, "call", m.tool_calls)
  BY <1>1, ChatReads, SameNone DEF ReadChat, ResultOf
<1>3. Same(m.role, "think", m.reasoning) \in Seq(Atoms) /\ ChatAtoms(m.role, m.content) \in Seq(Atoms)
      /\ Same(m.role, "call", m.tool_calls) \in Seq(Atoms)
  BY <1>1, SameType, ChatAtomsType DEF AtomKinds
<1>4. <<>> \o Same(m.role, "think", m.reasoning) = Same(m.role, "think", m.reasoning)
  BY <1>3, ConcatEmptySeq
<1> QED
  BY <1>2, <1>3, <1>4

(* The kinds of a message of the IR.                                                  *)
LEMMA IRAtomsAre ==
  ASSUME NEW by, NEW content \in Seq(IRParts)
  PROVE  \A i \in 1..Len(ChatAtoms(by, content)) :
             ChatAtoms(by, content)[i].by = by /\ ChatAtoms(by, content)[i].kind \in {"text", "image"}
<1>1. Len(content) \in Nat /\ \A i \in 1..Len(content) : content[i].type \in IRTypes
  <2>1. Len(content) \in Nat /\ \A i \in 1..Len(content) : content[i] \in IRParts
    BY ListIs
  <2>2. \A x \in IRParts : x.type \in IRTypes
    BY DEF IRParts, PartsIn
  <2> QED
    BY <2>1, <2>2
<1>2. \A t \in IRTypes : Chat!Kinds[t] \in {"text", "image"}
  BY DEF IRTypes, Chat!Kinds
<1>3. PICK s : s = ChatAtoms(by, content)
  OBVIOUS
<1>4. s = [i \in 1..Len(content) |-> Atom(by, Chat!Kinds[content[i].type], content[i].n)]
  BY <1>3 DEF ChatAtoms, ContentAtoms
<1>5. Len(s) = Len(content) /\ \A i \in 1..Len(content) : s[i].by = by
        /\ s[i].kind = Chat!Kinds[content[i].type]
  BY <1>1, <1>4 DEF Atom
<1> QED
  BY <1>1, <1>2, <1>3, <1>5

(* Atoms of one kind, by one speaker, are of this kind and by this speaker.           *)
LEMMA SameAre ==
  ASSUME NEW by, NEW kind, NEW ns \in Seq(Nat)
  PROVE  \A i \in 1..Len(Same(by, kind, ns)) : Same(by, kind, ns)[i].by = by
          /\ Same(by, kind, ns)[i].kind = kind
<1>1. Len(ns) \in Nat
  BY ListIs
<1>2. PICK s : s = Same(by, kind, ns)
  OBVIOUS
<1>3. s = [i \in 1..Len(ns) |-> Atom(by, kind, ns[i])]
  BY <1>2 DEF Same
<1>4. Len(s) = Len(ns) /\ \A i \in 1..Len(ns) : s[i].by = by /\ s[i].kind = kind
  BY <1>1, <1>3 DEF Atom
<1> QED
  BY <1>2, <1>4
----------------------------------------------------------------------------------
(* From the IR to an upstream.                                                        *)

(* What is made of a mapped list is made of the list.                                 *)
LEMMA FlatOfMapped ==
  ASSUME NEW S, NEW s \in Seq(S), NEW m, NEW g
  PROVE  Flat(g, Mapped(m, s)) = Flat([x \in S |-> g[m[x]]], s)
<1>1. Len(s) \in Nat /\ \A i \in 1..Len(s) : s[i] \in S
  BY ListIs
<1>2. PICK t : t = Mapped(m, s)
  OBVIOUS
<1>3. Len(t) = Len(s) /\ \A i \in 1..Len(s) : t[i] = m[s[i]]
  BY <1>1, <1>2, MappedIs DEF Mapped
<1>4. PICK h : h = [x \in S |-> g[m[x]]]
  OBVIOUS
<1>5. \A i \in 1..Len(s) : g[t[i]] = h[s[i]]
  BY <1>1, <1>3, <1>4
<1>6. [i \in 1..Len(t) |-> g[t[i]]] = [i \in 1..Len(s) |-> h[s[i]]]
  BY <1>3, <1>5
<1> QED
  BY <1>2, <1>4, <1>6 DEF Flat

(* The texts of a content.                                                            *)
TextPart == [x \in IRParts |-> IF x.type = "text" THEN <<x>> ELSE <<>>]

(* One text or none, of every part.                                                   *)
LEMMA TextPartMakes == Makes(TextPart, IRParts, FrontParts)
<1>1. \A x \in IRParts : x.type = "text" => x \in FrontParts
  BY DEF IRParts, FrontParts, PartsIn
<1> QED
  BY <1>1 DEF TextPart, Makes

(* The texts of some content (_text_of).                                              *)
LEMMA TextOfIs ==
  ASSUME NEW c \in Seq(IRParts)
  PROVE  Responses!TextOf(c) = Flat(TextPart, c) /\ Messages!TextOf(c) = Flat(TextPart, c)
<1>1. DOMAIN c = 1..Len(c) /\ \A i \in 1..Len(c) : c[i] \in IRParts
  BY ListIs
<1>2. \A i \in 1..Len(c) : TextPart[c[i]] = IF c[i].type \in {"text"} THEN <<c[i]>> ELSE <<>>
  BY <1>1 DEF TextPart
<1>3. PICK e : e = [i \in DOMAIN c |-> IF c[i].type \in {"text"} THEN <<c[i]>> ELSE <<>>]
  OBVIOUS
<1>4. Responses!TextOf(c) = FlattenSeq(e)
  BY <1>3 DEF Responses!TextOf, Responses!Of, Responses!Chosen, Responses!Each, Responses!FlattenSeq, FlattenSeq
<1>5. Messages!TextOf(c) = FlattenSeq(e)
  BY <1>3 DEF Messages!TextOf, Messages!Of, Messages!Chosen, Messages!Each, Messages!FlattenSeq, FlattenSeq
<1>6. e = [i \in 1..Len(c) |-> TextPart[c[i]]]
  BY <1>1, <1>2, <1>3
<1> QED
  BY <1>4, <1>5, <1>6 DEF Flat

(* All of the system prompt is text.                                                  *)
LEMMA FrontIsText ==
  ASSUME NEW c \in Seq(FrontParts)
  PROVE  c \in Seq(IRParts) /\ Flat(TextPart, c) = c
<1>1. FrontParts \subseteq IRParts /\ \A x \in FrontParts : TextPart[x] = <<x>>
  BY DEF FrontParts, IRParts, PartsIn, TextPart, IRTypes
<1>2. c \in Seq(IRParts)
  BY <1>1, SeqGrows
<1>3. Keeps(TextPart, c)
  BY <1>1, ListIs DEF Keeps
<1> QED
  BY <1>2, <1>3, FlatKeeps
----------------------------------------------------------------------------------
(* What an upstream gets of each part of a message.                                   *)
LEMMA OutAll ==
  ASSUME NEW s \in Seq(Atoms)
  PROVE  Flat(Out("chat"), s) = s
<1>1. Keeps(Out("chat"), s)
  BY ListIs DEF Keeps, Out
<1> QED
  BY <1>1, FlatKeeps

(* Of atoms of one kind, all reach the upstream or none does.                         *)
LEMMA OutSame ==
  ASSUME NEW mode, NEW by \in Roles, NEW kind \in {"think", "text", "call", "result"},
         NEW ns \in Seq(Nat)
  PROVE  Flat(Out(mode), Same(by, kind, ns))
            = IF kind = "think" /\ mode = "messages" THEN <<>> ELSE Same(by, kind, ns)
<1>1. PICK s \in Seq(Atoms) : s = Same(by, kind, ns)
  BY SameType DEF AtomKinds
<1>2. \A i \in 1..Len(s) : s[i] \in Atoms /\ s[i].kind = kind
  BY <1>1, ListIs, SameAre
<1>3. CASE kind = "think" /\ mode = "messages"
  <2>1. \A i \in 1..Len(s) : Out(mode)[s[i]] = <<>>
    BY <1>2, <1>3 DEF Out
  <2> QED
    BY <1>1, <1>3, <2>1, FlatNothing
<1>4. CASE ~(kind = "think" /\ mode = "messages")
  <2>1. Keeps(Out(mode), s)
    BY <1>2, <1>4 DEF Out, Keeps
  <2> QED
    BY <1>1, <1>4, <2>1, FlatKeeps
<1> QED
  BY <1>3, <1>4

(* All of the content of a message that is no tool's does.                            *)
LEMMA OutContent ==
  ASSUME NEW mode, NEW by \in Roles, by # "tool", NEW content \in Seq(IRParts)
  PROVE  Flat(Out(mode), ChatAtoms(by, content)) = ChatAtoms(by, content)
<1>1. PICK s : s = ChatAtoms(by, content)
  OBVIOUS
<1>2. s \in Seq(Atoms)
  <2>1. IRParts \subseteq ChatParts
    BY DEF IRParts, ChatParts, PartsIn, IRTypes, ChatTypes
  <2> QED
    BY <1>1, <2>1, SeqGrows, ChatAtomsType
<1>3. \A i \in 1..Len(s) : s[i] \in Atoms /\ s[i].by = by /\ s[i].kind \in {"text", "image"}
  BY <1>1, <1>2, ListIs, IRAtomsAre
<1>4. Keeps(Out(mode), s)
  BY <1>3 DEF Out, Keeps
<1> QED
  BY <1>1, <1>2, <1>4, FlatKeeps

(* Of a tool's, the texts do, unless the upstream speaks Chat.                        *)
LEMMA OutToolContent ==
  ASSUME NEW mode, mode # "chat", NEW content \in Seq(IRParts), NEW L, L["text"] = "text"
  PROVE  ContentAtoms(L, "tool", Flat(TextPart, content)) = Flat(Out(mode), ChatAtoms("tool", content))
<1>1. Reads(Chat!Kinds, IRTypes) /\ Reads(L, {"text"}) /\ "tool" \in Roles
  BY DEF Reads, Chat!Kinds, IRTypes, AtomKinds, Roles
<1>2. Turns(IRTypes, Chat!Kinds, L, "tool", TextPart, Out(mode))
  <2> SUFFICES ASSUME NEW x \in IRParts
               PROVE  ContentAtoms(L, "tool", TextPart[x])
                       = Out(mode)[Atom("tool", Chat!Kinds[x.type], x.n)]
    BY DEF Turns, IRParts
  <2>1. x.type \in IRTypes /\ x.n \in Nat
    BY DEF IRParts, PartsIn
  <2>2. CASE x.type = "text"
    <3>1. PICK a : a = Atom("tool", "text", x.n)
      OBVIOUS
    <3>2. a \in Atoms /\ a.kind = "text"
      BY <2>1, <3>1 DEF Atom, Atoms, AtomKinds, Roles
    <3>3. Out(mode)[a] = <<a>>
      BY <3>2 DEF Out
    <3>4. ContentAtoms(L, "tool", <<x>>) = <<a>>
      BY <2>2, <3>1 DEF ContentAtoms
    <3> QED
      BY <2>2, <3>1, <3>3, <3>4 DEF TextPart, Chat!Kinds
  <2>3. CASE x.type = "image_url"
    <3>1. PICK a : a = Atom("tool", "image", x.n)
      OBVIOUS
    <3>2. a \in Atoms /\ a.kind = "image" /\ a.by = "tool"
      BY <2>1, <3>1 DEF Atom, Atoms, AtomKinds, Roles
    <3>3. Out(mode)[a] = <<>>
      BY <3>2 DEF Out
    <3>4. ContentAtoms(L, "tool", <<>>) = <<>>
      BY DEF ContentAtoms
    <3> QED
      BY <2>3, <3>1, <3>3, <3>4 DEF TextPart, Chat!Kinds
  <2> QED
    BY <2>1, <2>2, <2>3 DEF IRTypes
<1>3. Makes(TextPart, PartsIn(IRTypes), PartsIn({"text"})) /\ content \in Seq(PartsIn(IRTypes))
  BY TextPartMakes DEF IRParts, FrontParts
<1> QED
  BY <1>1, <1>2, <1>3, OutMakes, Converted DEF ChatAtoms

(* What reaches an upstream of one list after another.                                *)
LEMMA OutJoins ==
  ASSUME NEW mode, NEW s \in Seq(Atoms), NEW t \in Seq(Atoms)
  PROVE  Flat(Out(mode), s \o t) = Flat(Out(mode), s) \o Flat(Out(mode), t)
<1>1. PICK o : o = Out(mode)
  OBVIOUS
<1>2. Makes(o, Atoms, Atoms)
  BY <1>1, OutMakes
<1>3. Flat(o, s \o t) = Flat(o, s) \o Flat(o, t)
  BY <1>2, FlatJoins
<1> QED
  BY <1>1, <1>3

(* What reaches the IR of one list after another.                                     *)
LEMMA InJoins ==
  ASSUME NEW p, NEW s \in Seq(Atoms), NEW t \in Seq(Atoms)
  PROVE  Flat(In(p), s \o t) = Flat(In(p), s) \o Flat(In(p), t)
<1>1. PICK o : o = In(p)
  OBVIOUS
<1>2. Makes(o, Atoms, Atoms)
  BY <1>1, InMakes
<1>3. Flat(o, s \o t) = Flat(o, s) \o Flat(o, t)
  BY <1>2, FlatJoins
<1> QED
  BY <1>1, <1>3

(* What reaches an upstream of a message that is no tool's,                           *)
LEMMA OutOwn ==
  ASSUME NEW mode, NEW m \in IRMessages, m.role # "tool"
  PROVE  Flat(Out(mode), ReadChat[m]) =
            (IF mode = "messages" THEN <<>> ELSE Same(m.role, "think", m.reasoning))
            \o ChatAtoms(m.role, m.content) \o Same(m.role, "call", m.tool_calls)
<1>1. m.role \in Roles /\ m.content \in Seq(IRParts) /\ m.reasoning \in Seq(Nat)
        /\ m.tool_calls \in Seq(Nat)
  BY DEF IRMessages
<1>2. PICK a \in Seq(Atoms), b \in Seq(Atoms), c \in Seq(Atoms) :
         a = Same(m.role, "think", m.reasoning) /\ b = ChatAtoms(m.role, m.content)
         /\ c = Same(m.role, "call", m.tool_calls) /\ ReadChat[m] = a \o b \o c
  BY OwnReads
<1>3. Flat(Out(mode), a \o b \o c) = Flat(Out(mode), a) \o Flat(Out(mode), b) \o Flat(Out(mode), c)
  <2>1. PICK d \in Seq(Atoms) : d = a \o b
    BY ConcatProperties
  <2>2. Flat(Out(mode), d \o c) = Flat(Out(mode), d) \o Flat(Out(mode), c)
    BY OutJoins
  <2>3. Flat(Out(mode), a \o b) = Flat(Out(mode), a) \o Flat(Out(mode), b)
    BY OutJoins
  <2> QED
    BY <2>1, <2>2, <2>3
<1>4. Flat(Out(mode), a) = IF mode = "messages" THEN <<>> ELSE a
  BY <1>1, <1>2, OutSame
<1>5. Flat(Out(mode), b) = b
  BY <1>1, <1>2, OutContent
<1>6. Flat(Out(mode), c) = c
  BY <1>1, <1>2, OutSame
<1> QED
  BY <1>2, <1>3, <1>4, <1>5, <1>6

(* and of a tool's.                                                                   *)
LEMMA OutTool ==
  ASSUME NEW mode, NEW m \in IRMessages, m.role = "tool"
  PROVE  Flat(Out(mode), ReadChat[m]) =
            <<Atom("tool", "result", m.tool_call_id)>> \o Flat(Out(mode), ChatAtoms("tool", m.content))
<1>1. PICK x \in Atoms, c \in Seq(Atoms) :
         x = Atom("tool", "result", m.tool_call_id) /\ c = ChatAtoms("tool", m.content)
         /\ ReadChat[m] = <<x>> \o c
  BY ToolReads
<1>2. x.kind = "result"
  BY <1>1 DEF Atom
<1>3. Flat(Out(mode), <<x>>) = <<x>>
  <2>1. Flat(Out(mode), <<x>>) = Out(mode)[x]
    BY OutMakes, FlatOne
  <2> QED
    BY <1>2, <2>1 DEF Out
<1>4. Flat(Out(mode), <<x>> \o c) = Flat(Out(mode), <<x>>) \o Flat(Out(mode), c)
  <2>1. <<x>> \in Seq(Atoms)
    OBVIOUS
  <2> QED
    BY <2>1, OutJoins
<1> QED
  BY <1>1, <1>3, <1>4

(* A message before the turns says the same to every upstream.                        *)
LEMMA FrontReads ==
  ASSUME NEW mode, NEW m \in FrontMessages
  PROVE  ReadChat[m] = SystemAtoms(m.content) /\ Flat(Out(mode), ReadChat[m]) = ReadChat[m]
<1>1. m \in IRMessages /\ m.role = "system" /\ m.content \in Seq(FrontParts)
        /\ m.content \in Seq(IRParts)
      /\ m.tool_calls = <<>> /\ m.reasoning = <<>>
  BY DEF FrontMessages, IRMessages
<1>2. PICK b \in Seq(Atoms) : b = ChatAtoms("system", m.content)
  BY <1>1, OwnReads
<1>3. ReadChat[m] = <<>> \o b \o <<>>
  BY <1>1, <1>2, OwnReads, SameNone
<1>4. <<>> \o b \o <<>> = b
  BY ConcatEmptySeq
<1>5. b = SystemAtoms(m.content)
  <2>1. DOMAIN m.content = 1..Len(m.content) /\ \A i \in 1..Len(m.content) : m.content[i] \in FrontParts
    BY <1>1, ListIs
  <2>2. \A x \in FrontParts : Chat!Kinds[x.type] = "text"
    BY DEF FrontParts, PartsIn, Chat!Kinds
  <2> QED
    BY <1>2, <2>1, <2>2 DEF ChatAtoms, ContentAtoms, SystemAtoms
<1>6. Flat(Out(mode), b) = b
  BY <1>1, <1>2, OutContent DEF Roles
<1> QED
  BY <1>3, <1>4, <1>5, <1>6

----------------------------------------------------------------------------------
(* A Chat message made of an IR message says the same.                                *)
LEMMA ChatReadsAlike ==
  ASSUME NEW m \in IRMessages
  PROVE  Chat!MessageFromIR(m) \in ChatMessages /\ ReadChat[Chat!MessageFromIR(m)] = ReadChat[m]
<1>1. m \in ChatMessages
  BY IRIsChat
<1>2. PICK x : x = Chat!MessageFromIR(m)
  OBVIOUS
<1>3. /\ x.role = m.role /\ x.content = m.content /\ x.tool_calls = m.tool_calls
      /\ x.reasoning = m.reasoning /\ (m.role = "tool" => x.tool_call_id = m.tool_call_id)
      /\ x \in ChatMessages
  BY <1>1, <1>2
     DEF Chat!MessageFromIR, Chat!ToolMessage, Chat!Message, Chat!NoCall, ChatMessages, IRMessages
<1>4. Chat!ReadMessage(x) = Chat!ReadMessage(m)
  BY <1>1, <1>3, ChatReads DEF ResultOf
<1> QED
  BY <1>1, <1>2, <1>3, <1>4 DEF ReadChat

(* A Chat upstream is told all that is in the IR.                                     *)
LEMMA ChatRequest ==
  ASSUME NEW ms \in Seq(IRMessages)
  PROVE  Chat!Read(Chat!FromIR(ms)) = Flat(ReadChat, ms)
<1>1. PICK m \in [IRMessages -> ChatMessages] : m = [x \in IRMessages |-> Chat!MessageFromIR(x)]
  BY ChatReadsAlike
<1>2. DOMAIN ms = 1..Len(ms) /\ \A i \in 1..Len(ms) : ms[i] \in IRMessages
  BY ListIs
<1>3. PICK t \in Seq(ChatMessages) : t = Mapped(m, ms)
  BY MappedType
<1>4. Chat!FromIR(ms).messages = t
  BY <1>1, <1>2, <1>3 DEF Chat!FromIR, Chat!Each, Mapped
<1>5. Chat!Read(Chat!FromIR(ms)) = Flat(ReadChat, t)
  BY <1>4, ChatFlat
<1>6. PICK h : h = [x \in IRMessages |-> ReadChat[m[x]]]
  OBVIOUS
<1>7. Flat(ReadChat, t) = Flat(h, ms)
  BY <1>3, <1>6, FlatOfMapped
<1>8. Flat(h, ms) = Flat(ReadChat, ms)
  <2>1. \A i \in 1..Len(ms) : h[ms[i]] = ReadChat[ms[i]]
    BY <1>1, <1>2, <1>6, ChatReadsAlike
  <2> QED
    BY <2>1, FlatSame
<1> QED
  BY <1>5, <1>7, <1>8

(* The system's prompt of a request.                                                  *)
Fronts == [m \in IRMessages |-> IF m.role = "system" THEN Flat(TextPart, m.content) ELSE <<>>]

(* Texts, of every message.                                                           *)
LEMMA FrontsMakes == Makes(Fronts, IRMessages, FrontParts)
<1>1. \A m \in IRMessages : Flat(TextPart, m.content) \in Seq(FrontParts)
  BY TextPartMakes, FlatType DEF IRMessages
<1> QED
  BY <1>1 DEF Fronts, Makes

(* What a text of the system prompt says.                                             *)
ReadFront == [x \in FrontParts |-> <<Atom("system", "text", x.n)>>]

(* One atom, of every text.                                                           *)
LEMMA ReadFrontMakes == Makes(ReadFront, FrontParts, Atoms)
  BY DEF ReadFront, Makes, FrontParts, PartsIn, Atom, Atoms, Roles, AtomKinds

(* What a system prompt says, text by text.                                           *)
LEMMA SystemFlat ==
  ASSUME NEW c \in Seq(FrontParts)
  PROVE  SystemAtoms(c) = Flat(ReadFront, c)
<1>1. PICK m : m = [x \in FrontParts |-> Atom("system", "text", x.n)]
  OBVIOUS
<1>2. DOMAIN c = 1..Len(c) /\ \A i \in 1..Len(c) : c[i] \in FrontParts
  BY ListIs
<1>3. OneEach(ReadFront, m, c)
  BY <1>1, <1>2 DEF OneEach, ReadFront
<1>4. Flat(ReadFront, c) = Mapped(m, c)
  BY <1>3, FlatMaps
<1> QED
  BY <1>1, <1>2, <1>4 DEF Mapped, SystemAtoms

(* A request's messages: some that are the system's, then the turns'.                 *)
LEMMA InIR ==
  ASSUME NEW f \in Seq(FrontMessages), NEW r \in Seq(TurnMessages)
  PROVE  f \in Seq(IRMessages) /\ r \in Seq(IRMessages) /\ f \o r \in Seq(IRMessages)
<1>1. FrontMessages \subseteq IRMessages /\ TurnMessages \subseteq IRMessages
  BY DEF FrontMessages, TurnMessages
<1>2. f \in Seq(IRMessages) /\ r \in Seq(IRMessages)
  BY <1>1, SeqGrows
<1> QED
  BY <1>2, ConcatProperties

(* The texts of the system messages say what these messages say.                      *)
LEMMA FrontsSay ==
  ASSUME NEW f \in Seq(FrontMessages), NEW r \in Seq(TurnMessages)
  PROVE  /\ Flat(Fronts, f \o r) \in Seq(FrontParts)
         /\ SystemAtoms(Flat(Fronts, f \o r)) = Flat(ReadChat, f)
<1>1. PICK g : g = Fronts
  OBVIOUS
<1>2. Makes(g, IRMessages, FrontParts)
  BY <1>1, FrontsMakes
<1>3. Flat(g, f \o r) = Flat(g, f) \o Flat(g, r)
  BY <1>2, InIR, FlatJoins
<1>4. \A i \in 1..Len(r) : g[r[i]] = <<>>
  <2>1. \A i \in 1..Len(r) : r[i] \in TurnMessages
    BY ListIs
  <2> QED
    BY <1>1, <2>1 DEF Fronts, TurnMessages
<1>5. Flat(g, r) = <<>>
  BY <1>4, FlatNothing
<1>6. PICK c \in Seq(FrontParts) : c = Flat(g, f)
  BY <1>2, InIR, FlatType
<1>7. Flat(g, f \o r) = c
  BY <1>3, <1>5, <1>6, ConcatEmptySeq
<1>8. SystemAtoms(c) = Flat(ReadFront, c)
  BY SystemFlat
<1>9. PICK h : h = [m \in IRMessages |-> Flat(ReadFront, g[m])]
  OBVIOUS
<1>10. Flat(ReadFront, c) = Flat(h, f)
  BY <1>2, <1>6, <1>9, InIR, ReadFrontMakes, FlatFlat
<1>11. ASSUME NEW i \in 1..Len(f) PROVE h[f[i]] = ReadChat[f[i]]
  <2>1. PICK m \in FrontMessages : m = f[i]
    BY ListIs
  <2>2. m \in IRMessages /\ m.role = "system" /\ m.content \in Seq(FrontParts)
    BY DEF FrontMessages
  <2>3. g[m] = m.content
    BY <1>1, <2>2, FrontIsText DEF Fronts
  <2>4. Flat(ReadFront, m.content) = SystemAtoms(m.content)
    BY <2>2, SystemFlat
  <2>5. ReadChat[m] = SystemAtoms(m.content)
    BY FrontReads
  <2> QED
    BY <1>9, <2>1, <2>2, <2>3, <2>4, <2>5
<1>12. Flat(h, f) = Flat(ReadChat, f)
  BY <1>11, FlatSame
<1> QED
  BY <1>1, <1>7, <1>8, <1>10, <1>12

(* What reaches the upstream of the system's part, and of the turns, one by one.      *)
Sent(mode) == [m \in IRMessages |-> Flat(Out(mode), ReadChat[m])]

(* What reaches an upstream: the system messages, and of every other what of it does. *)
LEMMA OutOfRequest ==
  ASSUME NEW mode, NEW f \in Seq(FrontMessages), NEW r \in Seq(TurnMessages)
  PROVE  Flat(Out(mode), Flat(ReadChat, f \o r)) = Flat(ReadChat, f) \o Flat(Sent(mode), r)
<1>1. PICK g, o : g = ReadChat /\ o = Out(mode)
  OBVIOUS
<1>2. IRMessages \subseteq ChatMessages
  BY IRIsChat
<1>3. f \in Seq(ChatMessages) /\ r \in Seq(ChatMessages)
  BY <1>2, InIR, SeqGrows
<1>4. Makes(g, ChatMessages, Atoms) /\ Makes(o, Atoms, Atoms)
  BY <1>1, ReadChatMakes, OutMakes
<1>5. Flat(g, f \o r) = Flat(g, f) \o Flat(g, r)
  BY <1>3, <1>4, FlatJoins
<1>6. PICK a \in Seq(Atoms), b \in Seq(Atoms) : a = Flat(g, f) /\ b = Flat(g, r)
  BY <1>3, <1>4, FlatType
<1>7. Flat(o, a \o b) = Flat(o, a) \o Flat(o, b)
  BY <1>4, FlatJoins
<1>8. PICK h : h = [m \in ChatMessages |-> Flat(o, g[m])]
  OBVIOUS
<1>9. Flat(o, a) = Flat(h, f) /\ Flat(o, b) = Flat(h, r)
  BY <1>3, <1>4, <1>6, <1>8, FlatFlat
<1>10. Flat(h, f) = Flat(g, f)
  <2>1. \A i \in 1..Len(f) : f[i] \in FrontMessages /\ f[i] \in ChatMessages
    BY <1>3, ListIs
  <2>2. \A i \in 1..Len(f) : h[f[i]] = g[f[i]]
    BY <1>1, <1>8, <2>1, FrontReads
  <2> QED
    BY <2>2, FlatSame
<1>11. Flat(h, r) = Flat(Sent(mode), r)
  <2>1. \A i \in 1..Len(r) : r[i] \in IRMessages /\ r[i] \in ChatMessages
    BY <1>3, InIR, ListIs
  <2>2. \A i \in 1..Len(r) : h[r[i]] = Sent(mode)[r[i]]
    BY <1>1, <1>8, <2>1 DEF Sent
  <2> QED
    BY <2>2, FlatSame
<1> QED
  BY <1>1, <1>5, <1>6, <1>7, <1>9, <1>10, <1>11
----------------------------------------------------------------------------------
(* A Responses request.                                                               *)

(* The items as MessagesToItems makes them, before they are written (InputOf), with   *)
(* the content of the IR.                                                             *)
ItemTypes == {"message", "reasoning", "function_call", "function_call_output"}

(* The items that messages of the IR are turned into, before they are written.        *)
RawItems == {it \in [type : ItemTypes, role : Roles, content : Seq(IRParts), call_id : Nat] :
                it.type = "function_call_output" => it.content \in Seq(FrontParts)}

(* The content of an item says what the IR's does.                                    *)
LEMMA ItemContentReads ==
  ASSUME NEW by \in Roles, NEW content \in Seq(IRParts), NEW out \in BOOLEAN
  PROVE  /\ Responses!ItemContent(content, out) \in Seq(ResParts)
         /\ ResAtoms(by, Responses!ItemContent(content, out)) = ChatAtoms(by, content)
<1>1. Len(content) \in Nat /\ DOMAIN content = 1..Len(content)
        /\ \A i \in 1..Len(content) : content[i] \in IRParts
  BY ListIs
<1>2. PICK c : c = Responses!ItemContent(content, out)
  OBVIOUS
<1>3. c = [i \in 1..Len(content) |-> c[i]]
      /\ \A i \in 1..Len(content) :
            c[i] = IF content[i].type = "text"
                   THEN [type |-> IF out THEN "output_text" ELSE "input_text", n |-> content[i].n]
                   ELSE [type |-> "input_image", n |-> content[i].n]
  BY <1>1, <1>2 DEF Responses!ItemContent, Responses!Each, Responses!Part
<1>4. \A i \in 1..Len(content) : content[i].type \in {"text", "image_url"} /\ content[i].n \in Nat
  <2>1. \A x \in IRParts : x.type \in {"text", "image_url"} /\ x.n \in Nat
    BY DEF IRParts, PartsIn, IRTypes
  <2> QED
    BY <1>1, <2>1
<1>5. \A i \in 1..Len(content) : c[i] \in ResParts /\ c[i].n = content[i].n
                                 /\ Responses!Kinds[c[i].type] = Chat!Kinds[content[i].type]
  BY <1>3, <1>4 DEF ResParts, PartsIn, ResTypes, Responses!Kinds, Chat!Kinds
<1>6. c \in Seq(ResParts) /\ Len(c) = Len(content)
  BY <1>1, <1>3, <1>5, TypedList
<1> QED
  BY <1>2, <1>5, <1>6 DEF ResAtoms, ChatAtoms, ContentAtoms

(* The numbers of some content.                                                       *)
LEMMA NumbersType ==
  ASSUME NEW content \in Seq(IRParts)
  PROVE  Responses!Numbers(content) \in Seq(Nat)
<1>1. Len(content) \in Nat /\ DOMAIN content = 1..Len(content)
        /\ \A i \in 1..Len(content) : content[i].n \in Nat
  <2>1. \A x \in IRParts : x.n \in Nat
    BY DEF IRParts, PartsIn
  <2> QED
    BY <2>1, ListIs
<1>2. PICK c : c = Responses!Numbers(content)
  OBVIOUS
<1>3. c = [i \in 1..Len(content) |-> c[i]] /\ \A i \in 1..Len(content) : c[i] = content[i].n
  BY <1>1, <1>2 DEF Responses!Numbers, Responses!Each
<1> QED
  BY <1>1, <1>2, <1>3, TypedList

(* A call says the call,                                                              *)
LEMMA CallReads ==
  ASSUME NEW n \in Nat
  PROVE  /\ Responses!Call(n) \in Items
         /\ ReadRes[Responses!Call(n)] = <<Atom("assistant", "call", n)>>
<1>1. PICK it : it = Responses!Call(n)
  OBVIOUS
<1>2. it = [type |-> "function_call", role |-> "assistant", content |-> <<>>, call_id |-> n]
  BY <1>1 DEF Responses!Call, Responses!Item
<1>3. it \in Items
  BY <1>2 DEF Items, Roles
<1>4. ItemAtoms(it) = <<Atom("assistant", "call", n)>> /\ ResAtoms(it.role, it.content) = <<>>
  BY <1>2 DEF ItemAtoms, ResAtoms, ContentAtoms
<1>5. Atom("assistant", "call", n) \in Atoms
  BY DEF Atom, Atoms, Roles, AtomKinds
<1>6. <<Atom("assistant", "call", n)>> \o <<>> = <<Atom("assistant", "call", n)>>
  BY <1>5, ConcatEmptySeq
<1> QED
  BY <1>1, <1>3, <1>4, <1>6, ResReads DEF ReadRes

(* a reasoning item its thinking,                                                     *)
LEMMA ThoughtReads ==
  ASSUME NEW ns \in Seq(Nat)
  PROVE  /\ Responses!Reasoning(ns) \in Items
         /\ ReadRes[Responses!Reasoning(ns)] = Same("assistant", "think", ns)
<1>1. PICK c \in Seq(ResParts) : c = Responses!Parts("summary_text", ns)
  BY ResPartsRead DEF ResTypes, Roles
<1>2. PICK it : it = Responses!Item("reasoning", "assistant", c, Responses!NoCall)
  OBVIOUS
<1>3. it \in Items /\ Flat(ReadRes, <<it>>) = ResAtoms("assistant", c)
  BY <1>2, ResItemReads DEF Roles
<1>4. Flat(ReadRes, <<it>>) = ReadRes[it]
  BY <1>3, ReadResMakes, FlatOne
<1>5. ResAtoms("assistant", c) = Same("assistant", "think", ns)
  BY <1>1, ResPartsRead DEF ResTypes, Roles, Responses!Kinds
<1> QED
  BY <1>1, <1>2, <1>3, <1>4, <1>5 DEF Responses!Reasoning

(* a message its content,                                                             *)
LEMMA WordsRead ==
  ASSUME NEW by \in Roles, NEW content \in Seq(IRParts), NEW it, it.type = "message", it.role = by,
         it.content = content
  PROVE  Responses!InputOf(it) \in Items /\ ReadRes[Responses!InputOf(it)] = ChatAtoms(by, content)
<1>1. PICK c \in Seq(ResParts) : c = Responses!ItemContent(content, by = "assistant")
                                 /\ ResAtoms(by, c) = ChatAtoms(by, content)
  BY ItemContentReads
<1>2. PICK x : x = Responses!Item("message", by, c, Responses!NoCall)
  OBVIOUS
<1>3. Responses!InputOf(it) = x
  BY <1>1, <1>2 DEF Responses!InputOf
<1>4. x \in Items /\ Flat(ReadRes, <<x>>) = ResAtoms(by, c)
  BY <1>2, ResItemReads
<1>5. Flat(ReadRes, <<x>>) = ReadRes[x]
  BY <1>4, ReadResMakes, FlatOne
<1> QED
  BY <1>1, <1>3, <1>4, <1>5

(* and the output of a call its call and content.                                     *)
LEMMA OutputReads ==
  ASSUME NEW content \in Seq(FrontParts), NEW n \in Nat, NEW it,
         it = [type |-> "function_call_output", role |-> "tool", content |-> content, call_id |-> n]
  PROVE  /\ it \in Items
         /\ ReadRes[it] = <<Atom("tool", "result", n)>> \o ResAtoms("tool", content)
<1>1. FrontParts \subseteq ResParts
  BY DEF FrontParts, ResParts, ResTypes, PartsIn
<1>2. content \in Seq(ResParts)
  BY <1>1, SeqGrows
<1>3. it \in Items
  BY <1>2 DEF Items, Roles
<1>4. ItemAtoms(it) = <<Atom("tool", "result", n)>>
  BY DEF ItemAtoms
<1> QED
  BY <1>3, <1>4, ResReads DEF ReadRes

(* Every item written is an item.                                                     *)
LEMMA InputType ==
  ASSUME NEW it \in RawItems
  PROVE  Responses!InputOf(it) \in Items
<1>1. it.type \in ItemTypes /\ it.role \in Roles /\ it.content \in Seq(IRParts) /\ it.call_id \in Nat
      /\ (it.type = "function_call_output" => it.content \in Seq(FrontParts))
  BY DEF RawItems
<1>2. CASE it.type = "function_call"
  BY <1>1, <1>2, CallReads DEF Responses!InputOf
<1>3. CASE it.type = "function_call_output"
  <2>1. it.content \in Seq(ResParts)
    <3>1. FrontParts \subseteq ResParts
      BY DEF FrontParts, ResParts, ResTypes, PartsIn
    <3> QED
      BY <1>1, <1>3, <3>1, SeqGrows
  <2>2. it \in Items
    BY <2>1 DEF RawItems, Items, ItemTypes
  <2> QED
    BY <1>3, <2>2 DEF Responses!InputOf
<1>4. CASE it.type = "reasoning"
  BY <1>1, <1>4, NumbersType, ThoughtReads DEF Responses!InputOf
<1>5. CASE it.type = "message"
  BY <1>1, <1>5, WordsRead
<1> QED
  BY <1>1, <1>2, <1>3, <1>4, <1>5 DEF ItemTypes

(* A raw item, read as it will be written.                                            *)
Written == [it \in RawItems |-> Responses!InputOf(it)]
ReadRaw == [it \in RawItems |-> ReadRes[Written[it]]]

(* An item, and atoms, of every raw item.                                             *)
LEMMA ReadRawMakes == Written \in [RawItems -> Items] /\ Makes(ReadRaw, RawItems, Atoms)
<1>1. Written \in [RawItems -> Items]
  BY InputType DEF Written
<1>2. \A it \in RawItems : ReadRes[Written[it]] \in Seq(Atoms)
  BY <1>1, ReadResMakes DEF Makes
<1> QED
  BY <1>1, <1>2 DEF ReadRaw, Makes

(* Thinking, as a raw item.                                                           *)
LEMMA RawThought ==
  ASSUME NEW ns \in Seq(Nat), NEW it,
         it = Responses!Item("reasoning", "assistant", Responses!Parts("text", ns), Responses!NoCall)
  PROVE  it \in RawItems /\ ReadRaw[it] = Same("assistant", "think", ns)
<1>1. PICK c \in Seq(FrontParts) : c = Responses!Parts("text", ns)
  <2>1. PICK x : x = Responses!Parts("text", ns)
    OBVIOUS
  <2>2. x = [i \in DOMAIN ns |-> [type |-> "text", n |-> ns[i]]]
    BY <2>1 DEF Responses!Parts, Responses!Each, Responses!Part
  <2>3. x \in Seq(FrontParts)
    BY <2>2, FrontOf
  <2> QED
    BY <2>1, <2>3
<1>2. c \in Seq(IRParts)
  BY FrontIsText
<1>3. it = [type |-> "reasoning", role |-> "assistant", content |-> c, call_id |-> 0]
  BY <1>1 DEF Responses!Item, Responses!NoCall
<1>4. it \in RawItems
  BY <1>2, <1>3 DEF RawItems, ItemTypes, Roles
<1>5. Responses!Numbers(c) = ns
  <2>1. Len(ns) \in Nat /\ DOMAIN ns = 1..Len(ns) /\ ns = [i \in 1..Len(ns) |-> ns[i]]
    BY ListIs
  <2>2. c = [i \in 1..Len(ns) |-> [type |-> "text", n |-> ns[i]]]
    BY <1>1, <2>1 DEF Responses!Parts, Responses!Each, Responses!Part
  <2>3. Responses!Numbers(c) = [i \in 1..Len(ns) |-> ns[i]]
    BY <2>2 DEF Responses!Numbers, Responses!Each
  <2> QED
    BY <2>1, <2>3
<1>6. Responses!InputOf(it) = Responses!Reasoning(ns)
  BY <1>3, <1>5 DEF Responses!InputOf
<1> QED
  BY <1>4, <1>6, ThoughtReads DEF ReadRaw, Written

(* Content, as a raw item.                                                            *)
LEMMA RawWords ==
  ASSUME NEW by \in Roles, NEW content \in Seq(IRParts), NEW it,
         it = Responses!Item("message", by, content, Responses!NoCall)
  PROVE  it \in RawItems /\ ReadRaw[it] = ChatAtoms(by, content)
<1>1. it = [type |-> "message", role |-> by, content |-> content, call_id |-> 0]
  BY DEF Responses!Item, Responses!NoCall
<1>2. it \in RawItems
  BY <1>1 DEF RawItems, ItemTypes
<1> QED
  BY <1>1, <1>2, WordsRead DEF ReadRaw, Written

(* Calls, as raw items.                                                               *)
LEMMA RawCalls ==
  ASSUME NEW calls \in Seq(Nat), NEW a,
         a = Responses!Each(LAMBDA c : Responses!Item("function_call", "assistant", <<>>, c), calls)
  PROVE  a \in Seq(RawItems) /\ Flat(ReadRaw, a) = Same("assistant", "call", calls)
<1>1. Len(calls) \in Nat /\ DOMAIN calls = 1..Len(calls) /\ \A i \in 1..Len(calls) : calls[i] \in Nat
  BY ListIs
<1>2. PICK R \in [Nat -> RawItems] :
         R = [n \in Nat |-> [type |-> "function_call", role |-> "assistant", content |-> <<>>, call_id |-> n]]
  <2>1. ASSUME NEW n \in Nat
        PROVE  [type |-> "function_call", role |-> "assistant", content |-> <<>>, call_id |-> n] \in RawItems
    <3>1. PICK it : it = [type |-> "function_call", role |-> "assistant", content |-> <<>>, call_id |-> n]
      OBVIOUS
    <3>2. it.type = "function_call"
            /\ it \in [type : ItemTypes, role : Roles, content : Seq(IRParts), call_id : Nat]
      BY <3>1 DEF ItemTypes, Roles
    <3> QED
      BY <3>1, <3>2 DEF RawItems
  <2> QED
    BY <2>1
<1>3. a = Mapped(R, calls)
  <2>1. \A i \in 1..Len(calls) : R[calls[i]]
          = Responses!Item("function_call", "assistant", <<>>, calls[i])
    BY <1>1, <1>2 DEF Responses!Item
  <2>2. a = [i \in 1..Len(calls) |-> Responses!Item("function_call", "assistant", <<>>, calls[i])]
    BY <1>1 DEF Responses!Each
  <2> QED
    BY <2>1, <2>2 DEF Mapped
<1>4. a \in Seq(RawItems)
  BY <1>3, MappedType
<1>5. ASSUME NEW n \in Nat PROVE ReadRaw[R[n]] = <<Atom("assistant", "call", n)>>
  <2>1. PICK it \in RawItems : it = R[n]
    OBVIOUS
  <2>2. it.type = "function_call" /\ it.call_id = n
    BY <1>2, <2>1
  <2>3. Written[it] = Responses!Call(n)
    BY <2>2 DEF Written, Responses!InputOf
  <2> QED
    BY <2>1, <2>3, CallReads DEF ReadRaw
<1>6. PICK h : h = [n \in Nat |-> ReadRaw[R[n]]]
  OBVIOUS
<1>7. Flat(ReadRaw, a) = Flat(h, calls)
  BY <1>3, <1>6, FlatOfMapped, SMTT(40)
<1>8. PICK m : m = [n \in Nat |-> Atom("assistant", "call", n)]
  OBVIOUS
<1>9. OneEach(h, m, calls)
  BY <1>1, <1>5, <1>6, <1>8 DEF OneEach
<1>10. Flat(h, calls) = Mapped(m, calls)
  BY <1>9, FlatMaps
<1>11. Mapped(m, calls) = Same("assistant", "call", calls)
  BY <1>1, <1>8 DEF Mapped, Same
<1> QED
  BY <1>4, <1>7, <1>10, <1>11

(* Raw items after raw items.                                                         *)
LEMMA RawJoins ==
  ASSUME NEW s \in Seq(RawItems), NEW t \in Seq(RawItems)
  PROVE  Flat(ReadRaw, s \o t) = Flat(ReadRaw, s) \o Flat(ReadRaw, t)
<1>1. PICK o : o = ReadRaw
  OBVIOUS
<1>2. Makes(o, RawItems, Atoms)
  BY <1>1, ReadRawMakes
<1>3. Flat(o, s \o t) = Flat(o, s) \o Flat(o, t)
  BY <1>2, FlatJoins
<1> QED
  BY <1>1, <1>3

(* The items of a tool message say what of it reaches the upstream.                   *)
LEMMA ToolItems ==
  ASSUME NEW m \in TurnMessages, m.role = "tool"
  PROVE  /\ Responses!ItemsOf(m) \in Seq(RawItems)
         /\ Flat(ReadRaw, Responses!ItemsOf(m)) = Flat(Out("responses"), ReadChat[m])
<1>1. m \in IRMessages /\ m.content \in Seq(IRParts) /\ m.tool_call_id \in Nat
  BY DEF TurnMessages, IRMessages
<1>2. PICK c \in Seq(FrontParts) : c = Flat(TextPart, m.content)
  BY <1>1, TextPartMakes, FlatType
<1>3. PICK it : it = [type |-> "function_call_output", role |-> "tool", content |-> c, call_id |-> m.tool_call_id]
  OBVIOUS
<1>4. Responses!ItemsOf(m) = <<it>>
  BY <1>1, <1>2, <1>3, TextOfIs DEF Responses!ItemsOf, Responses!Item
<1>5. it \in RawItems
  BY <1>1, <1>3, FrontIsText DEF RawItems, ItemTypes, Roles
<1>6. ReadRaw[it] = <<Atom("tool", "result", m.tool_call_id)>> \o ResAtoms("tool", c)
  BY <1>1, <1>3, <1>5, OutputReads DEF ReadRaw, Written, Responses!InputOf
<1>7. Flat(ReadRaw, <<it>>) = ReadRaw[it]
  BY <1>5, ReadRawMakes, FlatOne
<1>8. ResAtoms("tool", c) = Flat(Out("responses"), ChatAtoms("tool", m.content))
  BY <1>1, <1>2, OutToolContent DEF ResAtoms, Responses!Kinds
<1>9. Flat(Out("responses"), ReadChat[m])
        = <<Atom("tool", "result", m.tool_call_id)>>
                \o Flat(Out("responses"), ChatAtoms("tool", m.content))
  BY <1>1, OutTool
<1> QED
  BY <1>4, <1>5, <1>6, <1>7, <1>8, <1>9

(* The items of every other message do, too.                                          *)
LEMMA OwnItems ==
  ASSUME NEW m \in TurnMessages, m.role # "tool"
  PROVE  /\ Responses!ItemsOf(m) \in Seq(RawItems)
         /\ Flat(ReadRaw, Responses!ItemsOf(m)) = Flat(Out("responses"), ReadChat[m])
<1>1. m \in IRMessages /\ m.role # "system" /\ m.role \in Roles /\ m.content \in Seq(IRParts)
      /\ m.reasoning \in Seq(Nat) /\ m.tool_calls \in Seq(Nat)
      /\ (m.role # "assistant" => m.tool_calls = <<>> /\ m.reasoning = <<>>)
  BY DEF TurnMessages, IRMessages
<1>2. PICK a : a = IF m.reasoning # <<>>
                   THEN <<Responses!Item("reasoning", m.role, Responses!Parts("text", m.reasoning), Responses!NoCall)>>
                   ELSE <<>>
  OBVIOUS
<1>3. PICK b : b = IF m.tool_calls = <<>> \/ m.content # <<>>
                   THEN <<Responses!Item("message", m.role, m.content, Responses!NoCall)>> ELSE <<>>
  OBVIOUS
<1>4. PICK c : c = Responses!Each(LAMBDA n : Responses!Item("function_call", "assistant", <<>>, n), m.tool_calls)
  OBVIOUS
<1>5. Responses!ItemsOf(m) = a \o b \o c
  BY <1>1, <1>2, <1>3, <1>4 DEF Responses!ItemsOf
<1>6. a \in Seq(RawItems) /\ Flat(ReadRaw, a) = Same(m.role, "think", m.reasoning)
  <2>1. CASE m.reasoning = <<>>
    BY <1>2, <2>1, FlatEmpty, SameNone
  <2>2. CASE m.reasoning # <<>>
    <3>1. m.role = "assistant"
      BY <1>1, <2>2
    <3>2. PICK it : it = Responses!Item("reasoning", "assistant", Responses!Parts("text", m.reasoning), Responses!NoCall)
      OBVIOUS
    <3>3. it \in RawItems /\ ReadRaw[it] = Same("assistant", "think", m.reasoning)
      BY <1>1, <3>2, RawThought
    <3>4. a = <<it>> /\ Flat(ReadRaw, <<it>>) = ReadRaw[it]
      BY <1>2, <2>2, <3>1, <3>2, <3>3, ReadRawMakes, FlatOne
    <3> QED
      BY <3>1, <3>3, <3>4
  <2> QED
    BY <2>1, <2>2
<1>7. b \in Seq(RawItems) /\ Flat(ReadRaw, b) = ChatAtoms(m.role, m.content)
  <2>1. CASE m.tool_calls = <<>> \/ m.content # <<>>
    <3>1. PICK it : it = Responses!Item("message", m.role, m.content, Responses!NoCall)
      OBVIOUS
    <3>2. it \in RawItems /\ ReadRaw[it] = ChatAtoms(m.role, m.content)
      BY <1>1, <3>1, RawWords
    <3>3. b = <<it>> /\ Flat(ReadRaw, <<it>>) = ReadRaw[it]
      BY <1>3, <2>1, <3>1, <3>2, ReadRawMakes, FlatOne
    <3> QED
      BY <3>2, <3>3
  <2>2. CASE ~(m.tool_calls = <<>> \/ m.content # <<>>)
    <3>1. b = <<>> /\ ChatAtoms(m.role, m.content) = <<>>
      BY <1>3, <2>2 DEF ChatAtoms, ContentAtoms
    <3> QED
      BY <3>1, FlatEmpty
  <2> QED
    BY <2>1, <2>2
<1>8. c \in Seq(RawItems) /\ Flat(ReadRaw, c) = Same(m.role, "call", m.tool_calls)
  <2>1. c \in Seq(RawItems) /\ Flat(ReadRaw, c) = Same("assistant", "call", m.tool_calls)
    BY <1>1, <1>4, RawCalls
  <2>2. CASE m.role = "assistant"
    BY <2>1, <2>2
  <2>3. CASE m.role # "assistant"
    BY <1>1, <2>1, <2>3, SameNone
  <2> QED
    BY <2>2, <2>3
<1>9. a \o b \o c \in Seq(RawItems)
        /\ Flat(ReadRaw, a \o b \o c) = Flat(ReadRaw, a) \o Flat(ReadRaw, b) \o Flat(ReadRaw, c)
  <2>1. PICK d \in Seq(RawItems) : d = a \o b
    BY <1>6, <1>7, ConcatProperties
  <2>2. Flat(ReadRaw, d \o c) = Flat(ReadRaw, d) \o Flat(ReadRaw, c)
    BY <1>8, RawJoins
  <2>3. Flat(ReadRaw, a \o b) = Flat(ReadRaw, a) \o Flat(ReadRaw, b)
    BY <1>6, <1>7, RawJoins
  <2>4. d \o c \in Seq(RawItems)
    BY <1>8, ConcatProperties
  <2> QED
    BY <2>1, <2>2, <2>3, <2>4
<1>10. Flat(Out("responses"), ReadChat[m]) = Same(m.role, "think", m.reasoning)
        \o ChatAtoms(m.role, m.content)
           \o Same(m.role, "call", m.tool_calls)
  BY <1>1, OutOwn
<1> QED
  BY <1>5, <1>6, <1>7, <1>8, <1>9, <1>10

(* The raw items of a message.                                                        *)
ItemsFrom == [m \in IRMessages |-> Responses!ItemsOf(m)]

(* None of the system messages, which go into the instructions.                       *)
LEMMA ItemsFromMakes ==
  /\ Makes(ItemsFrom, IRMessages, RawItems)
  /\ \A m \in FrontMessages : ItemsFrom[m] = <<>>
  /\ \A m \in TurnMessages : Flat(ReadRaw, ItemsFrom[m]) = Sent("responses")[m]
<1>1. ASSUME NEW m \in IRMessages, m.role = "system" PROVE Responses!ItemsOf(m) = <<>>
  BY <1>1 DEF Responses!ItemsOf
<1>2. ASSUME NEW m \in TurnMessages
      PROVE  /\ Responses!ItemsOf(m) \in Seq(RawItems)
             /\ Flat(ReadRaw, Responses!ItemsOf(m)) = Flat(Out("responses"), ReadChat[m])
  <2>1. CASE m.role = "tool"
    BY <2>1, ToolItems
  <2>2. CASE m.role # "tool"
    BY <2>2, OwnItems
  <2> QED
    BY <2>1, <2>2
<1>3. ASSUME NEW m \in IRMessages PROVE Responses!ItemsOf(m) \in Seq(RawItems)
  <2>1. m.role = "system" \/ m \in TurnMessages
    BY DEF TurnMessages
  <2>2. CASE m.role = "system"
    <3>1. Responses!ItemsOf(m) = <<>>
      BY <1>1, <2>2
    <3> QED
      BY <3>1
  <2> QED
    BY <1>2, <2>1, <2>2
<1>4. Makes(ItemsFrom, IRMessages, RawItems)
  BY <1>3 DEF Makes, ItemsFrom
<1>5. \A m \in FrontMessages : ItemsFrom[m] = <<>>
  <2>1. \A m \in FrontMessages : m \in IRMessages /\ m.role = "system"
    BY DEF FrontMessages
  <2> QED
    BY <1>1, <2>1 DEF ItemsFrom
<1>6. \A m \in TurnMessages : Flat(ReadRaw, ItemsFrom[m]) = Sent("responses")[m]
  <2>1. \A m \in TurnMessages : m \in IRMessages
    BY DEF TurnMessages
  <2> QED
    BY <1>2, <2>1 DEF ItemsFrom, Sent
<1> QED
  BY <1>4, <1>5, <1>6

(* A request's items are those of its messages, one after the other.                  *)
LEMMA ItemsAre ==
  ASSUME NEW ms \in Seq(IRMessages)
  PROVE  Responses!MessagesToItems(ms) = Flat(ItemsFrom, ms)
<1>1. DOMAIN ms = 1..Len(ms) /\ \A i \in 1..Len(ms) : Responses!ItemsOf(ms[i]) = ItemsFrom[ms[i]]
  BY ListIs DEF ItemsFrom
<1>2. [i \in DOMAIN ms |-> Responses!ItemsOf(ms[i])] = [i \in 1..Len(ms) |-> ItemsFrom[ms[i]]]
  BY <1>1
<1>3. Responses!MessagesToItems(ms) = FlattenSeq([i \in DOMAIN ms |-> Responses!ItemsOf(ms[i])])
  BY DEF Responses!MessagesToItems, Responses!Each, Responses!FlattenSeq, FlattenSeq
<1> QED
  BY <1>2, <1>3 DEF Flat

(* Its instructions are the texts of the system messages.                             *)
LEMMA ResInstructions ==
  ASSUME NEW ms \in Seq(IRMessages)
  PROVE  Responses!Instructions(ms) = Flat(Fronts, ms)
<1>1. DOMAIN ms = 1..Len(ms) /\ \A i \in 1..Len(ms) : ms[i] \in IRMessages
  BY ListIs
<1>2. \A m \in IRMessages : Fronts[m] = IF m.role = "system" THEN Responses!TextOf(m.content) ELSE <<>>
  BY TextOfIs DEF Fronts, IRMessages
<1>3. [i \in DOMAIN ms |-> IF ms[i].role = "system" THEN Responses!TextOf(ms[i].content) ELSE <<>>]
        = [i \in 1..Len(ms) |-> Fronts[ms[i]]]
  BY <1>1, <1>2
<1>4. Responses!Instructions(ms)
        = FlattenSeq([i \in DOMAIN ms |-> IF ms[i].role
                = "system" THEN Responses!TextOf(ms[i].content) ELSE <<>>])
  BY DEF Responses!Instructions, Responses!Each, Responses!FlattenSeq, FlattenSeq
<1> QED
  BY <1>3, <1>4 DEF Flat

(* A Responses upstream is told all that reaches it.                                  *)
LEMMA ResRequest ==
  ASSUME NEW f \in Seq(FrontMessages), NEW r \in Seq(TurnMessages)
  PROVE  Responses!Read(Responses!FromIR(f \o r)) = Flat(ReadChat, f) \o Flat(Sent("responses"), r)
<1>1. PICK ms \in Seq(IRMessages) : ms = f \o r
  BY InIR
<1>2. PICK g : g = ItemsFrom
  OBVIOUS
<1>3. Makes(g, IRMessages, RawItems)
  BY <1>2, ItemsFromMakes
<1>4. PICK raw \in Seq(RawItems) : raw = Flat(g, ms)
  BY <1>3, FlatType
<1>5. PICK is \in Seq(Items) : is = Mapped(Written, raw)
  BY ReadRawMakes, MappedType
<1>6. Responses!FromIR(ms).input = is
  <2>1. Responses!MessagesToItems(ms) = raw
    BY <1>2, <1>4, ItemsAre
  <2>2. DOMAIN raw = 1..Len(raw) /\ \A i \in 1..Len(raw) : Written[raw[i]] = Responses!InputOf(raw[i])
    BY ListIs DEF Written
  <2>3. [i \in DOMAIN raw |-> Responses!InputOf(raw[i])] = is
    BY <1>5, <2>2 DEF Mapped
  <2> QED
    BY <2>1, <2>3 DEF Responses!FromIR, Responses!Each
<1>7. Responses!FromIR(ms).instructions = Flat(Fronts, ms)
  BY ResInstructions DEF Responses!FromIR
<1>8. Responses!Read(Responses!FromIR(ms)) = SystemAtoms(Flat(Fronts, ms)) \o Flat(ReadRes, is)
  BY <1>6, <1>7, ResFlat
<1>9. Flat(ReadRes, is) = Flat(ReadRaw, raw)
  <2>1. Flat(ReadRes, is) = Flat([x \in RawItems |-> ReadRes[Written[x]]], raw)
    BY <1>5, FlatOfMapped
  <2> QED
    BY <2>1 DEF ReadRaw
<1>10. PICK h : h = [m \in IRMessages |-> Flat(ReadRaw, g[m])]
  OBVIOUS
<1>11. Flat(ReadRaw, raw) = Flat(h, ms)
  BY <1>3, <1>4, <1>10, ReadRawMakes, FlatFlat
<1>12. Makes(h, IRMessages, Atoms)
  <2>1. ASSUME NEW m \in IRMessages PROVE Flat(ReadRaw, g[m]) \in Seq(Atoms)
    <3>1. g[m] \in Seq(RawItems)
      BY <1>3 DEF Makes
    <3> QED
      BY <3>1, ReadRawMakes, FlatType
  <2> QED
    BY <1>10, <2>1 DEF Makes
<1>13. Flat(h, ms) = Flat(h, f) \o Flat(h, r)
  BY <1>1, <1>12, InIR, FlatJoins
<1>14. Flat(h, f) = <<>>
  <2>1. \A i \in 1..Len(f) : f[i] \in FrontMessages /\ f[i] \in IRMessages
    BY InIR, ListIs
  <2>2. \A i \in 1..Len(f) : h[f[i]] = <<>>
    BY <1>2, <1>10, <2>1, ItemsFromMakes, FlatEmpty
  <2> QED
    BY <2>2, FlatNothing
<1>15. Flat(h, r) = Flat(Sent("responses"), r)
  <2>1. \A i \in 1..Len(r) : r[i] \in TurnMessages /\ r[i] \in IRMessages
    BY InIR, ListIs
  <2>2. \A i \in 1..Len(r) : h[r[i]] = Sent("responses")[r[i]]
    BY <1>2, <1>10, <2>1, ItemsFromMakes
  <2> QED
    BY <2>2, FlatSame
<1>16. PICK t \in Seq(Atoms) : t = Flat(h, r)
  BY <1>12, InIR, FlatType
<1>17. Flat(h, ms) = t
  BY <1>13, <1>14, <1>16, ConcatEmptySeq
<1>18. SystemAtoms(Flat(Fronts, ms)) = Flat(ReadChat, f)
  BY <1>1, FrontsSay
<1> QED
  BY <1>1, <1>8, <1>9, <1>11, <1>15, <1>16, <1>17, <1>18
----------------------------------------------------------------------------------
(* A Messages request.                                                                *)

(* A Messages message says its blocks.                                                *)
LEMMA EntryIs ==
  ASSUME NEW role \in Roles, NEW bs \in Seq(MesBlocks)
  PROVE  /\ Messages!Entry(role, bs) \in Entries
         /\ ReadMes[Messages!Entry(role, bs)] = Flat(ReadBlocks(role), bs)
<1>1. PICK e : e = Messages!Entry(role, bs)
  OBVIOUS
<1>2. e = [role |-> role, content |-> bs]
  BY <1>1 DEF Messages!Entry
<1>3. e \in Entries /\ e.role = role /\ e.content = bs
  BY <1>2 DEF Entries
<1>4. ReadMes[e] = Flat(ReadBlocks(role), bs)
  BY <1>3 DEF ReadMes
<1> QED
  BY <1>1, <1>3, <1>4

(* The message made of a tool's says what of it reaches the upstream.                 *)
LEMMA ToolEntry ==
  ASSUME NEW m \in TurnMessages, m.role = "tool"
  PROVE  /\ Messages!MessageFromIR(m) \in Entries
         /\ ReadMes[Messages!MessageFromIR(m)] = Flat(Out("messages"), ReadChat[m])
<1>1. m \in IRMessages /\ m.content \in Seq(IRParts) /\ m.tool_call_id \in Nat
  BY DEF TurnMessages, IRMessages
<1>2. PICK c \in Seq(FrontParts) : c = Flat(TextPart, m.content)
  BY <1>1, TextPartMakes, FlatType
<1>3. PICK b : b = [type |-> "tool_result", n |-> m.tool_call_id, content |-> c]
  OBVIOUS
<1>4. Messages!MessageFromIR(m) = Messages!Entry("user", <<b>>)
  <2>1. Messages!Result(m.tool_call_id, c) = b
    BY <1>3 DEF Messages!Result, Messages!Block
  <2> QED
    BY <1>1, <1>2, <2>1, TextOfIs DEF Messages!MessageFromIR
<1>5. b \in MesBlocks
  <2>1. FrontParts \subseteq MesParts
    BY DEF FrontParts, MesParts, PartsIn, MesPartTypes
  <2>2. c \in Seq(MesParts)
    BY <2>1, SeqGrows
  <2> QED
    BY <1>1, <1>3, <2>2 DEF MesBlocks, MesTypes
<1>6. <<b>> \in Seq(MesBlocks) /\ "user" \in Roles
  BY <1>5 DEF Roles
<1>7. PICK e \in Entries : e = Messages!Entry("user", <<b>>)
  BY <1>6, EntryIs
<1>8. ReadMes[e] = Flat(ReadBlocks("user"), <<b>>)
  BY <1>6, <1>7, EntryIs
<1>9. Flat(ReadBlocks("user"), <<b>>) = ReadBlocks("user")[b]
  <2>1. Makes(ReadBlocks("user"), MesBlocks, Atoms)
    BY <1>6, ReadBlocksMakes
  <2> QED
    BY <1>5, <2>1, FlatOne
<1>10. ReadBlocks("user")[b] = <<Atom("tool", "result", m.tool_call_id)>>
        \o ContentAtoms(Messages!Kinds, "tool", c)
  BY <1>3, <1>5 DEF ReadBlocks, BlockAtoms, Teller, Messages!Kinds
<1>11. ContentAtoms(Messages!Kinds, "tool", c) = Flat(Out("messages"), ChatAtoms("tool", m.content))
  BY <1>1, <1>2, OutToolContent DEF Messages!Kinds
<1>12. Flat(Out("messages"), ReadChat[m])
        = <<Atom("tool", "result", m.tool_call_id)>>
                \o Flat(Out("messages"), ChatAtoms("tool", m.content))
  BY <1>1, OutTool
<1> QED
  BY <1>4, <1>7, <1>8, <1>9, <1>10, <1>11, <1>12

(* The blocks made of content say the content.                                        *)
LEMMA WordBlocks ==
  ASSUME NEW by \in Roles, NEW content \in Seq(IRParts), NEW bs,
         bs = Messages!Each(Messages!PartFromIR, content)
  PROVE  bs \in Seq(MesBlocks) /\ Flat(ReadBlocks(by), bs) = ChatAtoms(by, content)
<1>1. Len(content) \in Nat /\ DOMAIN content = 1..Len(content)
        /\ \A i \in 1..Len(content) : content[i] \in IRParts
  BY ListIs
<1>2. \A x \in IRParts : x.type \in {"text", "image_url"} /\ x.n \in Nat
  BY DEF IRParts, PartsIn, IRTypes
<1>3. bs = [i \in 1..Len(content) |-> bs[i]]
      /\ \A i \in 1..Len(content) :
            bs[i] = Messages!Block(IF content[i].type = "text" THEN "text" ELSE "image", content[i].n)
  BY <1>1 DEF Messages!Each, Messages!PartFromIR
<1>4. \A i \in 1..Len(content) : \E t \in MesTypes \ {"tool_result"}, n \in Nat : bs[i]
        = Messages!Block(t, n)
  BY <1>1, <1>2, <1>3 DEF MesTypes
<1>5. \A i \in 1..Len(content) : bs[i] \in MesBlocks
  BY <1>4, PlainBlockReads DEF Roles
<1>6. bs \in Seq(MesBlocks) /\ Len(bs) = Len(content)
  BY <1>1, <1>3, <1>5, TypedList
<1>7. Flat(ReadBlocks(by), bs) = [i \in 1..Len(bs) |-> Atom(by, Messages!Kinds[bs[i].type], bs[i].n)]
  BY <1>4, <1>6, PlainBlocksRead DEF Plain
<1>8. ASSUME NEW i \in 1..Len(content)
      PROVE  Messages!Kinds[bs[i].type] = Chat!Kinds[content[i].type] /\ bs[i].n = content[i].n
  <2>1. content[i].type \in {"text", "image_url"}
    BY <1>1, <1>2
  <2>2. bs[i] = [type |-> IF content[i].type = "text" THEN "text" ELSE "image", n |-> content[i].n, content |-> <<>>]
    BY <1>3 DEF Messages!Block
  <2>3. bs[i].n = content[i].n /\ bs[i].type = IF content[i].type = "text" THEN "text" ELSE "image"
    BY <2>2
  <2> QED
    BY <2>1, <2>3 DEF Messages!Kinds, Chat!Kinds
<1> QED
  BY <1>6, <1>7, <1>8 DEF ChatAtoms, ContentAtoms

(* The message made of another says what of it reaches the upstream.                  *)
LEMMA OwnEntry ==
  ASSUME NEW m \in TurnMessages, m.role # "tool"
  PROVE  /\ Messages!MessageFromIR(m) \in Entries
         /\ ReadMes[Messages!MessageFromIR(m)] = Flat(Out("messages"), ReadChat[m])
<1>1. m \in IRMessages /\ m.role \in Roles /\ m.content \in Seq(IRParts) /\ m.tool_calls \in Seq(Nat)
  BY DEF TurnMessages, IRMessages
<1>2. PICK bs \in Seq(MesBlocks) : bs = Messages!Each(Messages!PartFromIR, m.content)
                                   /\ Flat(ReadBlocks(m.role), bs) = ChatAtoms(m.role, m.content)
  BY <1>1, WordBlocks
<1>3. PICK cs \in Seq(MesBlocks) : cs = Messages!Blocks("tool_use", m.tool_calls)
                                   /\ Flat(ReadBlocks(m.role), cs) = Same(m.role, "call", m.tool_calls)
  BY <1>1, BlocksRead DEF MesTypes, Messages!Kinds
<1>4. PICK all \in Seq(MesBlocks) : all = bs \o cs
  BY ConcatProperties
<1>5. PICK e \in Entries : e = Messages!Entry(m.role, all)
  BY <1>1, EntryIs
<1>6. Messages!MessageFromIR(m) = e
  BY <1>2, <1>3, <1>4, <1>5 DEF Messages!MessageFromIR
<1>7. ReadMes[e] = Flat(ReadBlocks(m.role), all)
  BY <1>1, <1>5, EntryIs
<1>8. Flat(ReadBlocks(m.role), all) = ChatAtoms(m.role, m.content) \o Same(m.role, "call", m.tool_calls)
  <2>1. Flat(ReadBlocks(m.role), bs \o cs) = Flat(ReadBlocks(m.role), bs)
          \o Flat(ReadBlocks(m.role), cs)
    BY <1>1, BlocksJoin
  <2> QED
    BY <1>2, <1>3, <1>4, <2>1
<1>9. Flat(Out("messages"), ReadChat[m]) = <<>> \o ChatAtoms(m.role, m.content)
        \o Same(m.role, "call", m.tool_calls)
  BY <1>1, OutOwn
<1>10. <<>> \o ChatAtoms(m.role, m.content) = ChatAtoms(m.role, m.content)
  BY <1>1, OwnReads, ConcatEmptySeq
<1> QED
  BY <1>6, <1>7, <1>8, <1>9, <1>10

----------------------------------------------------------------------------------
(* A list that is not empty has a last element.                                       *)
LEMMA ListEnds ==
  ASSUME NEW S, NEW s \in Seq(S), s # <<>>
  PROVE  \E p \in Seq(S), x \in S : s = Append(p, x) /\ x = s[Len(s)] /\ Len(s) = Len(p) + 1
<1>1. Len(s) \in Nat /\ Len(s) # 0 /\ s = [i \in 1..Len(s) |-> s[i]] /\ \A i \in 1..Len(s) : s[i] \in S
  BY ListIs
<1>2. PICK p : p = [i \in 1..(Len(s) - 1) |-> s[i]]
  OBVIOUS
<1>3. p \in Seq(S) /\ Len(p) = Len(s) - 1
  <2>1. p = [i \in 1..(Len(s) - 1) |-> p[i]] /\ \A i \in 1..(Len(s) - 1) : p[i] \in S
    BY <1>1, <1>2
  <2> QED
    BY <1>1, <2>1, TypedList
<1>4. PICK x \in S : x = s[Len(s)]
  BY <1>1
<1>5. s = Append(p, x)
  BY <1>1, <1>2, <1>3, <1>4
<1>6. Len(s) = Len(p) + 1
  BY <1>1, <1>3
<1> QED
  BY <1>3, <1>4, <1>5, <1>6

(* A list with one element more.                                                      *)
LEMMA AppendIs ==
  ASSUME NEW S, NEW p \in Seq(S), NEW x \in S
  PROVE  Append(p, x) = [i \in 1..(Len(p) + 1) |-> IF i = Len(p) + 1 THEN x ELSE p[i]]
<1>1. PICK f : f = [i \in 1..(Len(p) + 1) |-> IF i = Len(p) + 1 THEN x ELSE p[i]]
  OBVIOUS
<1>2. Len(p) \in Nat /\ \A i \in 1..Len(p) : p[i] \in S
  BY ListIs
<1>3. \A i \in 1..(Len(p) + 1) : f[i] \in S
  BY <1>1, <1>2
<1>4. f = [i \in 1..(Len(p) + 1) |-> f[i]]
  BY <1>1
<1>5. f \in Seq(S) /\ Len(f) = Len(p) + 1
  BY <1>2, <1>3, <1>4, TypedList
<1>6. PICK g \in Seq(S) : g = Append(p, x)
  <2>1. Append(p, x) \in Seq(S)
    OBVIOUS
  <2> QED
    BY <2>1
<1>7. Len(g) = Len(p) + 1 /\ \A i \in 1..(Len(p) + 1) : g[i] = f[i]
  BY <1>1, <1>2, <1>6
<1>8. f = g
  BY <1>5, <1>7, SeqEqual
<1> QED
  BY <1>1, <1>6, <1>8

(* _merge_consecutive_roles: the next message is joined to the last one, if it has    *)
(* the same role.                                                                     *)
MergeStep(out, m) ==
    IF out # <<>> /\ Messages!Last(out).role = m.role
    THEN [out EXCEPT ![Len(out)].content = @ \o m.content]
    ELSE Append(out, m)

(* Merging two messages of one role merges what they say.                             *)
LEMMA MergeStepReads ==
  ASSUME NEW out \in Seq(Entries), NEW m \in Entries
  PROVE  /\ MergeStep(out, m) \in Seq(Entries)
         /\ Flat(ReadMes, MergeStep(out, m)) = Flat(ReadMes, out) \o ReadMes[m]
<1>1. CASE out # <<>> /\ Messages!Last(out).role = m.role
  <2>1. PICK p \in Seq(Entries), x \in Entries : out = Append(p, x) /\ x = out[Len(out)]
          /\ Len(out) = Len(p) + 1
    BY <1>1, ListEnds
  <2>2. x.role = m.role /\ m.role \in Roles /\ x.content \in Seq(MesBlocks)
          /\ m.content \in Seq(MesBlocks)
    BY <1>1, <2>1 DEF Messages!Last, Entries
  <2>3. PICK both \in Seq(MesBlocks) : both = x.content \o m.content
    BY <2>2, ConcatProperties
  <2>4. PICK y : y = [role |-> m.role, content |-> both]
    OBVIOUS
  <2>5. y \in Entries
    BY <2>2, <2>4 DEF Entries
  <2>6. y = [x EXCEPT !.content = @ \o m.content]
    <3>1. x = [role |-> x.role, content |-> x.content]
      BY <2>1 DEF Entries
    <3>2. [x EXCEPT !.content = both] = [role |-> x.role, content |-> both]
      BY <3>1
    <3> QED
      BY <2>2, <2>3, <2>4, <3>2
  <2>7. MergeStep(out, m) = Append(p, y)
    <3>1. MergeStep(out, m) = [out EXCEPT ![Len(out)] = y]
      BY <1>1, <2>1, <2>6 DEF MergeStep
    <3>2. PICK k \in Nat : k = Len(p) + 1 /\ k = Len(out)
      BY <2>1
    <3>3. [Append(p, x) EXCEPT ![k] = y] = Append(p, y)
      <4>1. PICK q : q = [Append(p, x) EXCEPT ![k] = y]
        OBVIOUS
      <4>2. Append(p, x) = [i \in 1..k |-> IF i = k THEN x ELSE p[i]]
        BY <3>2, AppendIs
      <4>3. Append(p, y) = [i \in 1..k |-> IF i = k THEN y ELSE p[i]]
        BY <2>5, <3>2, AppendIs
      <4>4. q = [i \in 1..k |-> IF i = k THEN y ELSE p[i]]
        BY <4>1, <4>2
      <4> QED
        BY <4>1, <4>3, <4>4
    <3> QED
      BY <2>1, <3>1, <3>2, <3>3
  <2>8. Append(p, y) \in Seq(Entries)
    BY <2>5
  <2>9. Flat(ReadMes, Append(p, y)) = Flat(ReadMes, p) \o ReadMes[y]
          /\ Flat(ReadMes, out) = Flat(ReadMes, p) \o ReadMes[x]
    <3>1. Flat(ReadMes, Append(p, y)) = Flat(ReadMes, p) \o ReadMes[y]
      BY <2>5, ReadMesMakes, FlatAppend
    <3>2. Flat(ReadMes, Append(p, x)) = Flat(ReadMes, p) \o ReadMes[x]
      BY ReadMesMakes, FlatAppend
    <3> QED
      BY <2>1, <3>1, <3>2
  <2>10. ReadMes[y] = ReadMes[x] \o ReadMes[m]
    BY <2>2, <2>3, <2>4, <2>5, BlocksJoin DEF ReadMes
  <2>11. PICK a \in Seq(Atoms), b \in Seq(Atoms), c \in Seq(Atoms) :
            a = Flat(ReadMes, p) /\ b = ReadMes[x] /\ c = ReadMes[m]
    BY ReadMesMakes, FlatType DEF Makes
  <2>12. a \o (b \o c) = (a \o b) \o c
    BY AtomsAssociative
  <2>13. Flat(ReadMes, MergeStep(out, m)) = a \o (b \o c)
    BY <2>7, <2>9, <2>10, <2>11
  <2>14. Flat(ReadMes, out) \o ReadMes[m] = (a \o b) \o c
    BY <2>9, <2>11
  <2>15. MergeStep(out, m) \in Seq(Entries)
    BY <2>7, <2>8
  <2> QED
    BY <2>12, <2>13, <2>14, <2>15
<1>2. CASE ~(out # <<>> /\ Messages!Last(out).role = m.role)
  <2>1. MergeStep(out, m) = Append(out, m)
    BY <1>2 DEF MergeStep
  <2>2. Append(out, m) \in Seq(Entries)
    OBVIOUS
  <2> QED
    BY <2>1, <2>2, ReadMesMakes, FlatAppend
<1> QED
  BY <1>1, <1>2

(* Messages are merged one by one.                                                    *)
LEMMA MergeSteps ==
  ASSUME NEW es \in Seq(Entries)
  PROVE  \E c \in [0..Len(es) -> Seq(Entries)] :
            /\ c[0] = <<>>
            /\ \A m \in 1..Len(es) : c[m] = MergeStep(c[m - 1], es[m])
            /\ Messages!MergeConsecutiveRoles(es) = c[Len(es)]
<1>0. PICK n \in Nat : n = Len(es) /\ DOMAIN es = 1..n
  OBVIOUS
<1> DEFINE X == Seq(Entries)
           base == <<>>
           Rule(g) == g = [s \in SUBSET (1..n) |->
                             IF s = {} THEN base ELSE MergeStep(g[Below(s)], es[Max(s)])]
           F == [i \in 1..n |-> [x \in X |-> MergeStep(x, es[i])]]
           table == CHOOSE g : Rule(g)
<1>1. Messages!MergeConsecutiveRoles(es) = table[1..n]
  BY <1>0 DEF Messages!MergeConsecutiveRoles, Messages!FoldLeft, Messages!MapThenFoldSet, Below, MergeStep, Max, Messages!Max
<1>2. base \in X
  OBVIOUS
<1>3. ASSUME NEW i \in 1..n, NEW x \in X PROVE MergeStep(x, es[i]) \in X
  <2>1. es[i] \in Entries
    BY <1>0, ListIs
  <2> QED
    BY <2>1, MergeStepReads
<1>4. F \in [1..n -> [X -> X]]
  BY <1>3
<1> HIDE DEF X, base
<1>5. PICK g : Table(g, X, base, F, n)
  <2> HIDE DEF F
  <2> QED
    BY <1>2, <1>4, FoldExists
<1>6. ASSUME NEW s \in SUBSET (1..n), s # {}, NEW x \in X
      PROVE  F[Max(s)][x] = MergeStep(x, es[Max(s)])
  BY <1>6, BelowIn
<1> HIDE DEF F
<1>7. Rule(g)
  <2>1. \A s \in SUBSET (1..n) : s # {} => Below(s) \in SUBSET (1..n)
    BY BelowIn
  <2>2. ASSUME NEW s \in SUBSET (1..n), s # {}
        PROVE  F[Max(s)][g[Below(s)]] = MergeStep(g[Below(s)], es[Max(s)])
    BY <1>5, <1>6, <2>1, <2>2 DEF Table
  <2> QED
    BY <1>5, <2>2 DEF Table
<1>8. Rule(table)
  BY <1>7
<1> HIDE DEF table
<1>9. Follows(table, X, base, F, n)
  BY <1>6, <1>8 DEF Follows
<1>10. PICK c : Steps(c, X, base, F, n) /\ table[1..n] = c[n]
  <2> HIDE DEF Rule
  <2> QED
    BY <1>2, <1>4, <1>9, TableSteps, SMTT(40)
<1>11. ASSUME NEW m \in 1..n PROVE c[m] = MergeStep(c[m - 1], es[m])
  <2>1. c[m] = F[m][c[m - 1]] /\ c[m - 1] \in X
    BY <1>10 DEF Steps
  <2> QED
    BY <2>1 DEF F
<1> QED
  BY <1>0, <1>1, <1>10, <1>11 DEF Steps, X, base

(* Merged messages say what they said.                                                *)
LEMMA MergeReads ==
  ASSUME NEW es \in Seq(Entries)
  PROVE  /\ Messages!MergeConsecutiveRoles(es) \in Seq(Entries)
         /\ Flat(ReadMes, Messages!MergeConsecutiveRoles(es)) = Flat(ReadMes, es)
<1>1. PICK n \in Nat : n = Len(es) /\ \A i \in 1..n : es[i] \in Entries
  BY ListIs
<1>2. PICK c \in [0..n -> Seq(Entries)] :
            /\ c[0] = <<>>
            /\ \A m \in 1..n : c[m] = MergeStep(c[m - 1], es[m])
            /\ Messages!MergeConsecutiveRoles(es) = c[n]
  BY <1>1, MergeSteps
<1>3. \A k \in 0..n : SubSeq(es, 1, k) \in Seq(Entries)
  BY <1>1
<1>4. \A m \in 1..n : SubSeq(es, 1, m) = Append(SubSeq(es, 1, m - 1), es[m])
  BY <1>1
<1> DEFINE G == {k \in 0..n : Flat(ReadMes, c[k]) = Flat(ReadMes, SubSeq(es, 1, k))}
<1>5. 0 \in G
  <2>1. SubSeq(es, 1, 0) = <<>>
    BY <1>1
  <2>2. c[0] = SubSeq(es, 1, 0)
    BY <1>2, <2>1
  <2>3. Flat(ReadMes, c[0]) = Flat(ReadMes, SubSeq(es, 1, 0))
    BY <2>2
  <2> QED
    BY <2>3
<1>6. ASSUME NEW m \in 1..n, m - 1 \in G PROVE m \in G
  <2>1. PICK out \in Seq(Entries), s \in Seq(Entries), e \in Entries :
           out = c[m - 1] /\ s = SubSeq(es, 1, m - 1) /\ e = es[m]
    <3>1. PICK k \in 0..n : k = m - 1
      OBVIOUS
    <3>2. c[k] \in Seq(Entries) /\ SubSeq(es, 1, k) \in Seq(Entries) /\ es[m] \in Entries
      BY <1>1, <1>3
    <3> QED
      BY <3>1, <3>2
  <2>2. Flat(ReadMes, c[m]) = Flat(ReadMes, out) \o ReadMes[e]
    BY <1>2, <2>1, MergeStepReads
  <2>3. Flat(ReadMes, Append(s, e)) = Flat(ReadMes, s) \o ReadMes[e]
    BY ReadMesMakes, FlatAppend
  <2>4. Flat(ReadMes, out) = Flat(ReadMes, s)
    BY <1>6, <2>1
  <2>5. Flat(ReadMes, c[m]) = Flat(ReadMes, SubSeq(es, 1, m))
    BY <1>4, <2>1, <2>2, <2>3, <2>4
  <2> QED
    BY <2>5
<1>7. n \in G
  <2> HIDE DEF G
  <2>1. \A k \in 0..n : k \in G
    BY <1>5, <1>6, CountingUp
  <2> QED
    BY <2>1
<1>8. SubSeq(es, 1, n) = es
  BY <1>1
<1> QED
  BY <1>2, <1>7, <1>8

(* The Messages message made of a message.                                            *)
EntryFrom == [m \in TurnMessages |-> Messages!MessageFromIR(m)]

(* A Messages message, of every message that is not the system's.                     *)
LEMMA EntryFromReads ==
  /\ EntryFrom \in [TurnMessages -> Entries]
  /\ \A m \in TurnMessages : ReadMes[EntryFrom[m]] = Sent("messages")[m]
<1>1. ASSUME NEW m \in TurnMessages
      PROVE  /\ Messages!MessageFromIR(m) \in Entries
             /\ ReadMes[Messages!MessageFromIR(m)] = Flat(Out("messages"), ReadChat[m])
  <2>1. CASE m.role = "tool"
    BY <2>1, ToolEntry
  <2>2. CASE m.role # "tool"
    BY <2>2, OwnEntry
  <2> QED
    BY <2>1, <2>2
<1>2. \A m \in TurnMessages : m \in IRMessages
  BY DEF TurnMessages
<1> QED
  BY <1>1, <1>2 DEF EntryFrom, Sent

(* The messages that are not the system's.                                            *)
Others == [m \in IRMessages |-> IF m.role # "system" THEN <<m>> ELSE <<>>]

(* The others are those that are not the system's.                                    *)
LEMMA OthersAre ==
  ASSUME NEW f \in Seq(FrontMessages), NEW r \in Seq(TurnMessages)
  PROVE  Messages!Chosen(LAMBDA m : m.role # "system", f \o r) = r
<1>1. PICK ms \in Seq(IRMessages) : ms = f \o r
  BY InIR
<1>2. DOMAIN ms = 1..Len(ms) /\ \A i \in 1..Len(ms) : ms[i] \in IRMessages
  BY ListIs
<1>3. [i \in DOMAIN ms |-> IF ms[i].role # "system" THEN <<ms[i]>> ELSE <<>>]
        = [i \in 1..Len(ms) |-> Others[ms[i]]]
  BY <1>2 DEF Others
<1>4. Messages!Chosen(LAMBDA m : m.role # "system", ms)
        = FlattenSeq([i \in DOMAIN ms |-> IF ms[i].role # "system" THEN <<ms[i]>> ELSE <<>>])
  BY DEF Messages!Chosen, Messages!Each, Messages!FlattenSeq, FlattenSeq
<1>5. Messages!Chosen(LAMBDA m : m.role # "system", ms) = Flat(Others, ms)
  BY <1>3, <1>4 DEF Flat
<1>6. PICK g : g = Others
  OBVIOUS
<1>7. Makes(g, IRMessages, IRMessages)
  BY <1>6 DEF Others, Makes
<1>8. Flat(g, f \o r) = Flat(g, f) \o Flat(g, r)
  BY <1>7, InIR, FlatJoins
<1>9. \A i \in 1..Len(f) : g[f[i]] = <<>>
  <2>1. \A i \in 1..Len(f) : f[i] \in FrontMessages
    BY ListIs
  <2> QED
    BY <1>6, <2>1 DEF Others, FrontMessages
<1>10. Flat(g, f) = <<>>
  BY <1>9, FlatNothing
<1>11. Keeps(g, r)
  <2>1. \A i \in 1..Len(r) : r[i] \in TurnMessages
    BY ListIs
  <2> QED
    BY <1>6, <2>1 DEF Others, TurnMessages, Keeps
<1>12. Flat(g, r) = r
  BY <1>11, FlatKeeps
<1> QED
  BY <1>1, <1>5, <1>6, <1>8, <1>10, <1>12, ConcatEmptySeq

(* The system prompt of a Messages request is the texts of the system messages.       *)
LEMMA MesInstructions ==
  ASSUME NEW ms \in Seq(IRMessages)
  PROVE  Messages!FromIR(ms).system = Flat(Fronts, ms)
<1>1. DOMAIN ms = 1..Len(ms) /\ \A i \in 1..Len(ms) : ms[i] \in IRMessages
  BY ListIs
<1>2. \A m \in IRMessages : Fronts[m] = IF m.role = "system" THEN Messages!TextOf(m.content) ELSE <<>>
  BY TextOfIs DEF Fronts, IRMessages
<1>3. [i \in DOMAIN ms |-> IF ms[i].role = "system" THEN Messages!TextOf(ms[i].content) ELSE <<>>]
        = [i \in 1..Len(ms) |-> Fronts[ms[i]]]
  BY <1>1, <1>2
<1>4. Messages!FromIR(ms).system
        = FlattenSeq([i \in DOMAIN ms |-> IF ms[i].role
                = "system" THEN Messages!TextOf(ms[i].content) ELSE <<>>])
  BY DEF Messages!FromIR, Messages!Each, Messages!FlattenSeq, FlattenSeq
<1> QED
  BY <1>3, <1>4 DEF Flat

(* A Messages upstream is told all that reaches it.                                   *)
LEMMA MesRequest ==
  ASSUME NEW f \in Seq(FrontMessages), NEW r \in Seq(TurnMessages)
  PROVE  Messages!Read(Messages!FromIR(f \o r)) = Flat(ReadChat, f) \o Flat(Sent("messages"), r)
<1>1. PICK ms \in Seq(IRMessages) : ms = f \o r
  BY InIR
<1>2. PICK es \in Seq(Entries) : es = Mapped(EntryFrom, r)
  BY EntryFromReads, MappedType
<1>3. PICK me \in Seq(Entries) : me = Messages!MergeConsecutiveRoles(es)
        /\ Flat(ReadMes, me) = Flat(ReadMes, es)
  BY MergeReads
<1>4. Messages!FromIR(ms).messages = me
  <2>1. DOMAIN r = 1..Len(r) /\ \A i \in 1..Len(r) : EntryFrom[r[i]] = Messages!MessageFromIR(r[i])
    BY ListIs DEF EntryFrom
  <2>2. [i \in DOMAIN r |-> Messages!MessageFromIR(r[i])] = es
    BY <1>2, <2>1 DEF Mapped
  <2>3. Messages!Chosen(LAMBDA m : m.role # "system", ms) = r
    BY <1>1, OthersAre
  <2>4. Messages!Each(Messages!MessageFromIR, r) = es
    BY <2>2 DEF Messages!Each
  <2> QED
    BY <1>3, <2>3, <2>4 DEF Messages!FromIR
<1>5. Messages!Read(Messages!FromIR(ms)) = SystemAtoms(Messages!FromIR(ms).system) \o Flat(ReadMes, me)
  BY <1>4, MesFlat
<1>6. SystemAtoms(Messages!FromIR(ms).system) = Flat(ReadChat, f)
  BY <1>1, MesInstructions, FrontsSay
<1>7. PICK h : h = [x \in TurnMessages |-> ReadMes[EntryFrom[x]]]
  OBVIOUS
<1>8. Flat(ReadMes, es) = Flat(h, r)
  BY <1>2, <1>7, FlatOfMapped
<1>9. Flat(h, r) = Flat(Sent("messages"), r)
  <2>1. \A i \in 1..Len(r) : h[r[i]] = Sent("messages")[r[i]]
    BY <1>7, ListIs, EntryFromReads
  <2> QED
    BY <2>1, FlatSame
<1> QED
  BY <1>1, <1>3, <1>5, <1>6, <1>8, <1>9

(* Whatever protocol the upstream speaks, its request says what reaches it of what is *)
(* in the IR.                                                                         *)
LEMMA RequestReads ==
  ASSUME NEW mode \in Protocols, NEW f \in Seq(FrontMessages), NEW r \in Seq(TurnMessages)
  PROVE  Read(mode, FromIR(f \o r, mode)) = Flat(Out(mode), Flat(ReadChat, f \o r))
<1>1. PICK ms \in Seq(IRMessages) : ms = f \o r
  BY InIR
<1>2. Flat(Out(mode), Flat(ReadChat, ms)) = Flat(ReadChat, f) \o Flat(Sent(mode), r)
  BY <1>1, OutOfRequest
<1>3. CASE mode = "chat"
  <2>1. PICK s : s = Flat(ReadChat, ms)
    OBVIOUS
  <2>2. s \in Seq(Atoms)
    <3>1. ms \in Seq(ChatMessages)
      BY IRIsChat, SeqGrows
    <3> QED
      BY <2>1, <3>1, ReadChatMakes, FlatType
  <2>3. Flat(Out("chat"), s) = s
    BY <2>2, OutAll
  <2>4. Chat!Read(Chat!FromIR(ms)) = s
    BY <2>1, ChatRequest
  <2> QED
    BY <1>1, <1>3, <2>1, <2>3, <2>4 DEF Read, FromIR
<1>4. CASE mode = "responses"
  <2>1. Responses!Read(Responses!FromIR(ms)) = Flat(ReadChat, f) \o Flat(Sent("responses"), r)
    BY <1>1, ResRequest
  <2> QED
    BY <1>1, <1>2, <1>4, <2>1 DEF Read, FromIR
<1>5. CASE mode = "messages"
  <2>1. Messages!Read(Messages!FromIR(ms)) = Flat(ReadChat, f) \o Flat(Sent("messages"), r)
    BY <1>1, MesRequest
  <2> QED
    BY <1>1, <1>2, <1>5, <2>1 DEF Read, FromIR
<1> QED
  BY <1>3, <1>4, <1>5 DEF Protocols
----------------------------------------------------------------------------------
(* From a client to the IR.  First, a Chat client's history.                          *)

(* What reaches the IR of what a client says.                                         *)
LEMMA InSame ==
  ASSUME NEW p, NEW by \in Roles, NEW kind \in {"text", "think", "call", "result"},
         NEW ns \in Seq(Nat)
  PROVE  Flat(In(p), Same(by, kind, ns)) = Same(by, kind, ns)
<1>1. PICK s \in Seq(Atoms) : s = Same(by, kind, ns)
  BY SameType DEF AtomKinds
<1>2. \A i \in 1..Len(s) : s[i] \in Atoms /\ s[i].kind = kind
  BY <1>1, ListIs, SameAre
<1>3. ASSUME NEW a \in Atoms, a.kind = kind PROVE In(p)[a] = <<a>>
  <2>1. [a EXCEPT !.kind = IF @ = "file" THEN "text" ELSE @] = a
    BY <1>3 DEF Atoms
  <2> QED
    BY <1>3, <2>1 DEF In
<1>4. Keeps(In(p), s)
  BY <1>2, <1>3 DEF Keeps
<1> QED
  BY <1>1, <1>4, FlatKeeps

(* A client's entries, turned into messages of the IR that say what reaches it.       *)
Agree(p, E, g, R) == \A e \in E : Flat(ReadChat, g[e]) = Flat(In(p), R[e])

(* They are messages of Chat and of the IR.                                           *)
LEMMA TurnsIsChat == TurnMessages \subseteq ChatMessages /\ TurnMessages \subseteq IRMessages
  BY IRIsChat DEF TurnMessages

(* A history converted element by element, behind its system prompt.                  *)
LEMMA ClientReads ==
  ASSUME NEW p, NEW E, NEW g, Makes(g, E, TurnMessages), NEW R, Makes(R, E, Atoms),
         Agree(p, E, g, R),
         NEW f \in Seq(FrontMessages), NEW sys \in Seq(Atoms), Flat(ReadChat, f) = sys,
         Flat(In(p), sys) = sys,
         NEW es \in Seq(E)
  PROVE  /\ Flat(g, es) \in Seq(TurnMessages)
         /\ Flat(ReadChat, f \o Flat(g, es)) = Flat(In(p), sys \o Flat(R, es))
<1>1. PICK r \in Seq(TurnMessages) : r = Flat(g, es)
  BY FlatType
<1>2. f \in Seq(ChatMessages) /\ r \in Seq(ChatMessages)
  BY InIR, IRIsChat, SeqGrows
<1>3. Flat(ReadChat, f \o r) = Flat(ReadChat, f) \o Flat(ReadChat, r)
  <2>1. PICK c : c = ReadChat
    OBVIOUS
  <2>2. Makes(c, ChatMessages, Atoms)
    BY <2>1, ReadChatMakes
  <2>3. Flat(c, f \o r) = Flat(c, f) \o Flat(c, r)
    BY <1>2, <2>2, FlatJoins
  <2> QED
    BY <2>1, <2>3
<1>4. PICK t \in Seq(Atoms) : t = Flat(R, es)
  BY FlatType
<1>5. Flat(In(p), sys \o t) = Flat(In(p), sys) \o Flat(In(p), t)
  BY InJoins
<1>6. PICK rc : rc = [m \in TurnMessages |-> ReadChat[m]]
  OBVIOUS
<1>7. Makes(rc, TurnMessages, Atoms)
  BY <1>6, TurnsIsChat, ReadChatMakes DEF Makes
<1>8. Flat(ReadChat, r) = Flat(rc, r)
  <2>1. \A i \in 1..Len(r) : ReadChat[r[i]] = rc[r[i]]
    BY <1>6, ListIs
  <2> QED
    BY <2>1, FlatSame
<1>9. PICK v, w : v = [e \in E |-> Flat(rc, g[e])] /\ w = [e \in E |-> Flat(In(p), R[e])]
  OBVIOUS
<1>10. Flat(rc, r) = Flat(v, es)
  BY <1>1, <1>7, <1>9, FlatFlat
<1>11. Flat(In(p), t) = Flat(w, es)
  BY <1>4, <1>9, InMakes, FlatFlat
<1>12. ASSUME NEW e \in E PROVE v[e] = w[e]
  <2>1. PICK s \in Seq(TurnMessages) : s = g[e]
    BY DEF Makes
  <2>2. \A i \in 1..Len(s) : ReadChat[s[i]] = rc[s[i]]
    BY <1>6, ListIs
  <2>3. Flat(ReadChat, s) = Flat(rc, s)
    BY <2>2, FlatSame
  <2>4. Flat(ReadChat, s) = Flat(In(p), R[e])
    BY <2>1 DEF Agree
  <2> QED
    BY <1>9, <2>1, <2>3, <2>4
<1>13. Flat(v, es) = Flat(w, es)
  <2>1. \A i \in 1..Len(es) : v[es[i]] = w[es[i]]
    BY <1>12, ListIs
  <2> QED
    BY <2>1, FlatSame
<1> QED
  BY <1>1, <1>3, <1>4, <1>5, <1>8, <1>10, <1>11, <1>13
----------------------------------------------------------------------------------
(* The messages of a Chat client after the system's.                                  *)
ChatTurns == {m \in ChatMessages :
                 /\ m.role # "system"
                 /\ m.role # "assistant" => m.tool_calls = <<>> /\ m.reasoning = <<>>}

(* What the IR has of a part.                                                         *)
PartIn == [x \in ChatParts |-> IF x.type \in {"text", "image_url"} THEN <<x>> ELSE <<>>]

(* One part or none, of every part.                                                   *)
LEMMA PartInMakes == Makes(PartIn, ChatParts, IRParts)
<1>1. \A x \in ChatParts : x.type \in {"text", "image_url"} => x \in IRParts
  BY DEF ChatParts, IRParts, IRTypes, PartsIn
<1> QED
  BY <1>1 DEF PartIn, Makes

(* Content is converted part by part (_content_to_ir).                                *)
LEMMA ContentIn ==
  ASSUME NEW c \in Seq(ChatParts)
  PROVE  Chat!ContentToIR(c) = Flat(PartIn, c)
<1>1. DOMAIN c = 1..Len(c) /\ \A i \in 1..Len(c) : c[i] \in ChatParts
  BY ListIs
<1>2. \A i \in 1..Len(c) : PartIn[c[i]] = IF c[i].type \in {"text", "image_url"} THEN <<c[i]>> ELSE <<>>
  BY <1>1 DEF PartIn
<1>3. PICK e : e = [i \in DOMAIN c |-> IF c[i].type \in {"text", "image_url"} THEN <<c[i]>> ELSE <<>>]
  OBVIOUS
<1>4. Chat!ContentToIR(c) = FlattenSeq(e)
  BY <1>3 DEF Chat!ContentToIR, Chat!Of, Chat!Chosen, Chat!Each, Chat!FlattenSeq, FlattenSeq
<1>5. e = [i \in 1..Len(c) |-> PartIn[c[i]]]
  BY <1>1, <1>2, <1>3
<1> QED
  BY <1>4, <1>5 DEF Flat

(* It says what of it reaches the IR.                                                 *)
LEMMA ContentInReads ==
  ASSUME NEW by \in Roles, NEW c \in Seq(ChatParts)
  PROVE  ChatAtoms(by, Flat(PartIn, c)) = Flat(In("chat"), ChatAtoms(by, c))
<1>1. Reads(Chat!Kinds, IRTypes) /\ Reads(Chat!Kinds, ChatTypes)
  BY DEF Reads, Chat!Kinds, IRTypes, ChatTypes, AtomKinds
<1>2. Turns(ChatTypes, Chat!Kinds, Chat!Kinds, by, PartIn, In("chat"))
  <2> SUFFICES ASSUME NEW x \in ChatParts
               PROVE  ContentAtoms(Chat!Kinds, by, PartIn[x])
                       = In("chat")[Atom(by, Chat!Kinds[x.type], x.n)]
    BY DEF Turns, ChatParts
  <2>1. x.type \in ChatTypes /\ x.n \in Nat
    BY DEF ChatParts, PartsIn
  <2>2. PICK a : a = Atom(by, Chat!Kinds[x.type], x.n)
    OBVIOUS
  <2>3. a \in Atoms /\ a.kind = Chat!Kinds[x.type] /\ a.by = by
    BY <1>1, <2>1, <2>2 DEF Atom, Atoms, Reads
  <2>4. CASE x.type \in {"text", "image_url"}
    <3>1. a.kind \in {"text", "image"}
      BY <2>3, <2>4 DEF Chat!Kinds
    <3>2. [a EXCEPT !.kind = IF @ = "file" THEN "text" ELSE @] = a
      BY <2>3, <3>1 DEF Atoms
    <3>3. In("chat")[a] = <<a>>
      BY <2>3, <3>1, <3>2 DEF In
    <3>4. ContentAtoms(Chat!Kinds, by, <<x>>) = <<a>>
      BY <2>2 DEF ContentAtoms
    <3> QED
      BY <2>2, <2>4, <3>3, <3>4 DEF PartIn
  <2>5. CASE x.type = "file"
    <3>1. a.kind = "file"
      BY <2>3, <2>5 DEF Chat!Kinds
    <3>2. In("chat")[a] = <<>>
      BY <2>3, <3>1 DEF In
    <3>3. ContentAtoms(Chat!Kinds, by, <<>>) = <<>>
      BY DEF ContentAtoms
    <3> QED
      BY <2>2, <2>5, <3>2, <3>3 DEF PartIn
  <2> QED
    BY <2>1, <2>4, <2>5 DEF ChatTypes
<1>3. Makes(PartIn, PartsIn(ChatTypes), PartsIn(IRTypes)) /\ c \in Seq(PartsIn(ChatTypes))
  BY PartInMakes DEF IRParts, ChatParts
<1> QED
  BY <1>1, <1>2, <1>3, InMakes, Converted DEF ChatAtoms

(* A Chat message becomes an IR message that says what of it reaches the IR.          *)
LEMMA ChatMessageIn ==
  ASSUME NEW m \in ChatMessages, m.role = "tool" => m.tool_calls = <<>> /\ m.reasoning = <<>>,
         NEW x,
         x = Chat!MessageToIR(m)
  PROVE  /\ x.role = m.role /\ x.content = Flat(PartIn, m.content) /\ x.tool_calls = m.tool_calls
         /\ x.reasoning = m.reasoning
         /\ x \in ChatMessages /\ x.content \in Seq(IRParts)
         /\ ReadChat[x] = Flat(In("chat"), ReadChat[m])
<1>1. /\ m.role \in Roles /\ m.content \in Seq(ChatParts) /\ m.tool_calls \in Seq(Nat)
      /\ m.reasoning \in Seq(Nat) /\ m.tool_call_id \in Nat
  BY DEF ChatMessages
<1>2. PICK c \in Seq(IRParts) : c = Flat(PartIn, m.content) /\ c = Chat!ContentToIR(m.content)
  BY <1>1, PartInMakes, FlatType, ContentIn
<1>3. c \in Seq(ChatParts)
  <2>1. IRParts \subseteq ChatParts
    BY DEF IRParts, ChatParts, PartsIn, IRTypes, ChatTypes
  <2> QED
    BY <2>1, SeqGrows
<1>4. PICK id \in Nat : id = IF m.role = "tool" THEN m.tool_call_id ELSE 0
  BY <1>1
<1>5. x = [role |-> m.role, content |-> c, tool_calls |-> m.tool_calls, tool_call_id |-> id,
           reasoning |-> m.reasoning]
  BY <1>2, <1>4 DEF Chat!MessageToIR, Chat!ToolMessage, Chat!Message, Chat!NoCall
<1>6. x \in ChatMessages
  BY <1>1, <1>3, <1>5 DEF ChatMessages
<1>7. x.role = m.role /\ x.content = c /\ x.tool_calls = m.tool_calls /\ x.reasoning = m.reasoning
      /\ ResultOf(x) = ResultOf(m)
  BY <1>4, <1>5 DEF ResultOf
<1>8. PICK a \in Seq(Atoms), b \in Seq(Atoms), d \in Seq(Atoms), e \in Seq(Atoms), k \in Seq(Atoms) :
         /\ a = Same(m.role, "result", ResultOf(m)) /\ b = Same(m.role, "think", m.reasoning)
         /\ d = ChatAtoms(m.role, m.content) /\ e = Same(m.role, "call", m.tool_calls)
         /\ k = ChatAtoms(m.role, c)
  <2>1. ResultOf(m) \in Seq(Nat)
    BY <1>1 DEF ResultOf
  <2> QED
    BY <1>1, <1>3, <2>1, SameType, ChatAtomsType DEF AtomKinds
<1>9. Chat!ReadMessage(m) = a \o b \o d \o e /\ Chat!ReadMessage(x) = a \o b \o k \o e
  BY <1>6, <1>7, <1>8, ChatReads
<1>10. k = Flat(In("chat"), d)
  BY <1>1, <1>2, <1>8, ContentInReads
<1>11. Flat(In("chat"), a) = a /\ Flat(In("chat"), b) = b /\ Flat(In("chat"), e) = e
  <2>1. ResultOf(m) \in Seq(Nat)
    BY <1>1 DEF ResultOf
  <2> QED
    BY <1>1, <1>8, <2>1, InSame
<1>12. Flat(In("chat"), a \o b \o d \o e) = a \o b \o k \o e
  <2>1. PICK ab \in Seq(Atoms) : ab = a \o b
    BY ConcatProperties
  <2>2. PICK abd \in Seq(Atoms) : abd = ab \o d
    BY ConcatProperties
  <2>3. Flat(In("chat"), abd \o e) = Flat(In("chat"), abd) \o Flat(In("chat"), e)
    BY InJoins
  <2>4. Flat(In("chat"), ab \o d) = Flat(In("chat"), ab) \o Flat(In("chat"), d)
    BY InJoins
  <2>5. Flat(In("chat"), a \o b) = Flat(In("chat"), a) \o Flat(In("chat"), b)
    BY InJoins
  <2> QED
    BY <1>10, <1>11, <2>1, <2>2, <2>3, <2>4, <2>5
<1> QED
  BY <1>2, <1>6, <1>7, <1>9, <1>12 DEF ReadChat

(* The IR message of a Chat message, and what the Chat message says.                  *)
TurnIn == [m \in ChatTurns |-> <<Chat!MessageToIR(m)>>]
ReadTurn == [m \in ChatTurns |-> ReadChat[m]]

(* All turns of a Chat client do.                                                     *)
LEMMA TurnInAgrees ==
  /\ Makes(TurnIn, ChatTurns, TurnMessages) /\ Makes(ReadTurn, ChatTurns, Atoms)
  /\ Agree("chat", ChatTurns, TurnIn, ReadTurn)
<1>1. ASSUME NEW m \in ChatTurns
      PROVE  /\ Chat!MessageToIR(m) \in TurnMessages
             /\ ReadChat[Chat!MessageToIR(m)] = Flat(In("chat"), ReadChat[m])
  <2>1. m \in ChatMessages /\ m.role # "system"
        /\ (m.role # "assistant" => m.tool_calls = <<>> /\ m.reasoning = <<>>)
    BY DEF ChatTurns
  <2>2. PICK x : x = Chat!MessageToIR(m)
    OBVIOUS
  <2>3. /\ x.role = m.role /\ x.tool_calls = m.tool_calls /\ x.reasoning = m.reasoning
        /\ x \in ChatMessages /\ x.content \in Seq(IRParts)
        /\ ReadChat[x] = Flat(In("chat"), ReadChat[m])
    BY <2>1, <2>2, ChatMessageIn
  <2>4. x \in IRMessages
    BY <2>1, <2>3 DEF IRMessages, ChatMessages
  <2> QED
    BY <2>1, <2>2, <2>3, <2>4 DEF TurnMessages
<1>2. Makes(TurnIn, ChatTurns, TurnMessages)
  BY <1>1 DEF TurnIn, Makes
<1>3. Makes(ReadTurn, ChatTurns, Atoms)
  BY ReadChatMakes DEF ReadTurn, Makes, ChatTurns
<1>4. ASSUME NEW m \in ChatTurns PROVE Flat(ReadChat, TurnIn[m]) = Flat(In("chat"), ReadTurn[m])
  <2>1. PICK x \in TurnMessages : x = Chat!MessageToIR(m)
    BY <1>1
  <2>2. Flat(ReadChat, <<x>>) = ReadChat[x]
    BY TurnsIsChat, ReadChatMakes, FlatOne
  <2> QED
    BY <1>1, <2>1, <2>2 DEF TurnIn, ReadTurn
<1> QED
  BY <1>2, <1>3, <1>4 DEF Agree

(* A system message stays what it is.                                                 *)
LEMMA FrontIn ==
  ASSUME NEW m \in FrontMessages
  PROVE  Chat!MessageToIR(m) \in FrontMessages /\ ReadChat[Chat!MessageToIR(m)] = ReadChat[m]
<1>1. m \in ChatMessages /\ m.role = "system" /\ m.tool_calls = <<>> /\ m.reasoning = <<>>
      /\ m.content \in Seq(FrontParts)
  BY IRIsChat DEF FrontMessages, IRMessages
<1>2. PICK x : x = Chat!MessageToIR(m)
  OBVIOUS
<1>3. /\ x.role = m.role /\ x.content = Flat(PartIn, m.content) /\ x.tool_calls = m.tool_calls
      /\ x.reasoning = m.reasoning
      /\ x \in ChatMessages /\ x.content \in Seq(IRParts)
  BY <1>1, <1>2, ChatMessageIn
<1>4. Flat(PartIn, m.content) = m.content
  <2>1. FrontParts \subseteq ChatParts /\ \A y \in FrontParts : y.type = "text"
    BY DEF FrontParts, ChatParts, PartsIn, ChatTypes
  <2>2. Keeps(PartIn, m.content)
    BY <1>1, <2>1, ListIs DEF Keeps, PartIn
  <2> QED
    BY <1>1, <2>2, FlatKeeps
<1>5. x \in FrontMessages
  <2>1. x \in IRMessages
    BY <1>1, <1>3 DEF IRMessages, ChatMessages
  <2> QED
    BY <1>1, <1>3, <1>4, <2>1 DEF FrontMessages
<1>6. ReadChat[x] = SystemAtoms(x.content) /\ ReadChat[m] = SystemAtoms(m.content)
  BY <1>5, FrontReads
<1> QED
  BY <1>2, <1>3, <1>4, <1>5, <1>6

(* All of a system prompt reaches the IR.                                             *)
LEMMA SystemIn ==
  ASSUME NEW p, NEW c \in Seq(FrontParts)
  PROVE  SystemAtoms(c) \in Seq(Atoms) /\ Flat(In(p), SystemAtoms(c)) = SystemAtoms(c)
<1>1. PICK s \in Seq(Atoms) : s = SystemAtoms(c)
  BY FrontType
<1>2. s = [i \in 1..Len(c) |-> Atom("system", "text", c[i].n)] /\ Len(c) \in Nat
  BY <1>1, ListIs DEF SystemAtoms
<1>3. \A i \in 1..Len(s) : s[i] \in Atoms /\ s[i].kind = "text"
  BY <1>1, <1>2, ListIs DEF Atom
<1>4. ASSUME NEW a \in Atoms, a.kind = "text" PROVE In(p)[a] = <<a>>
  <2>1. [a EXCEPT !.kind = IF @ = "file" THEN "text" ELSE @] = a
    BY <1>4 DEF Atoms
  <2> QED
    BY <1>4, <2>1 DEF In
<1>5. Keeps(In(p), s)
  BY <1>3, <1>4 DEF Keeps
<1> QED
  BY <1>1, <1>5, FlatKeeps

(* System messages are Chat messages.                                                 *)
LEMMA FrontIsChat == ASSUME NEW f \in Seq(FrontMessages) PROVE f \in Seq(ChatMessages)
<1>1. FrontMessages \subseteq ChatMessages
  BY IRIsChat DEF FrontMessages
<1> QED
  BY <1>1, SeqGrows

(* All of them reach the IR.                                                          *)
LEMMA FrontsIn ==
  ASSUME NEW p, NEW f \in Seq(FrontMessages)
  PROVE  Flat(ReadChat, f) \in Seq(Atoms) /\ Flat(In(p), Flat(ReadChat, f)) = Flat(ReadChat, f)
<1>1. f \in Seq(ChatMessages)
  BY FrontIsChat
<1>2. Flat(ReadChat, f) \in Seq(Atoms)
  BY <1>1, ReadChatMakes, FlatType
<1>3. PICK h : h = [m \in ChatMessages |-> Flat(In(p), ReadChat[m])]
  OBVIOUS
<1>4. Flat(In(p), Flat(ReadChat, f)) = Flat(h, f)
  BY <1>1, <1>3, ReadChatMakes, InMakes, FlatFlat
<1>5. \A i \in 1..Len(f) : h[f[i]] = ReadChat[f[i]]
  <2>1. ASSUME NEW m \in FrontMessages PROVE Flat(In(p), ReadChat[m]) = ReadChat[m]
    BY FrontReads, SystemIn DEF FrontMessages
  <2>2. \A i \in 1..Len(f) : f[i] \in FrontMessages /\ f[i] \in ChatMessages
    BY <1>1, ListIs
  <2> QED
    BY <1>3, <2>1, <2>2
<1>6. Flat(h, f) = Flat(ReadChat, f)
  BY <1>5, FlatSame
<1> QED
  BY <1>2, <1>4, <1>6

(* A request in the IR: the system's messages, then the turns'.                       *)
Splits(ms) == \E f \in Seq(FrontMessages), r \in Seq(TurnMessages) : ms = f \o r

(* The history of a Chat client.                                                      *)
GoodChat == {d \in ChatDocs : \E f \in Seq(FrontMessages), es \in Seq(ChatTurns) : d.messages = f \o es}

(* A Chat history in the IR says what of it reaches the IR.                           *)
LEMMA ChatIn ==
  ASSUME NEW d \in GoodChat
  PROVE  /\ Splits(Chat!ToIR(d))
         /\ Flat(ReadChat, Chat!ToIR(d)) = Flat(In("chat"), Chat!Read(d))
<1>1. PICK f \in Seq(FrontMessages), es \in Seq(ChatTurns) : d.messages = f \o es
  BY DEF GoodChat
<1>2. f \in Seq(ChatMessages) /\ es \in Seq(ChatMessages)
  <2>1. ChatTurns \subseteq ChatMessages
    BY DEF ChatTurns
  <2> QED
    BY <2>1, FrontIsChat, SeqGrows
<1>3. PICK ms \in Seq(ChatMessages) : ms = f \o es
  BY <1>2, ConcatProperties
<1>4. PICK C : C = [m \in ChatMessages |-> Chat!MessageToIR(m)]
  OBVIOUS
<1>5. PICK g : g = [m \in ChatMessages |-> <<C[m]>>]
  OBVIOUS
<1>6. Makes(g, ChatMessages, {C[m] : m \in ChatMessages})
  BY <1>5 DEF Makes
<1>7. Chat!ToIR(d) = Flat(g, ms)
  <2>1. DOMAIN ms = 1..Len(ms) /\ \A i \in 1..Len(ms) : ms[i] \in ChatMessages
    BY ListIs
  <2>2. OneEach(g, C, ms)
    BY <1>5, <2>1 DEF OneEach
  <2>3. Flat(g, ms) = Mapped(C, ms)
    BY <2>2, FlatMaps
  <2>4. Mapped(C, ms) = [i \in DOMAIN ms |-> Chat!MessageToIR(ms[i])]
    BY <1>4, <2>1 DEF Mapped
  <2> QED
    BY <1>1, <1>3, <2>3, <2>4 DEF Chat!ToIR, Chat!Each
<1>8. Flat(g, ms) = Flat(g, f) \o Flat(g, es)
  BY <1>2, <1>3, <1>6, FlatJoins
<1>9. PICK F : F = [m \in FrontMessages |-> Chat!MessageToIR(m)]
  OBVIOUS
<1>10. F \in [FrontMessages -> FrontMessages]
  BY <1>9, FrontIn
<1>11. PICK h \in Seq(FrontMessages) : h = Mapped(F, f)
  BY <1>10, MappedType
<1>12. Flat(g, f) = h
  <2>1. \A i \in 1..Len(f) : f[i] \in ChatMessages /\ f[i] \in FrontMessages
    BY <1>2, ListIs
  <2>2. OneEach(g, F, f)
    BY <1>4, <1>5, <1>9, <2>1 DEF OneEach
  <2> QED
    BY <1>11, <2>2, FlatMaps
<1>13. Flat(g, es) = Flat(TurnIn, es)
  <2>1. \A i \in 1..Len(es) : es[i] \in ChatMessages /\ es[i] \in ChatTurns
    BY <1>2, ListIs
  <2>2. \A i \in 1..Len(es) : g[es[i]] = TurnIn[es[i]]
    BY <1>4, <1>5, <2>1 DEF TurnIn
  <2> QED
    BY <2>2, FlatSame
<1>14. Flat(ReadChat, h) = Flat(ReadChat, f)
  <2>1. PICK k : k = [x \in FrontMessages |-> ReadChat[F[x]]]
    OBVIOUS
  <2>2. Flat(ReadChat, h) = Flat(k, f)
    BY <1>11, <2>1, FlatOfMapped
  <2>3. \A i \in 1..Len(f) : k[f[i]] = ReadChat[f[i]]
    BY <1>9, <2>1, ListIs, FrontIn
  <2> QED
    BY <2>2, <2>3, FlatSame
<1>15. PICK sys \in Seq(Atoms) : sys = Flat(ReadChat, f) /\ Flat(In("chat"), sys) = sys
  BY FrontsIn
<1>16. /\ Flat(TurnIn, es) \in Seq(TurnMessages)
       /\ Flat(ReadChat, h \o Flat(TurnIn, es)) = Flat(In("chat"), sys \o Flat(ReadTurn, es))
  BY <1>14, <1>15, TurnInAgrees, ClientReads
<1>17. Chat!ToIR(d) = h \o Flat(TurnIn, es)
  BY <1>7, <1>8, <1>12, <1>13
<1>18. Flat(ReadTurn, es) = Flat(ReadChat, es)
  <2>1. \A i \in 1..Len(es) : ReadTurn[es[i]] = ReadChat[es[i]]
    BY ListIs DEF ReadTurn
  <2> QED
    BY <2>1, FlatSame
<1>19. Chat!Read(d) = sys \o Flat(ReadChat, es)
  <2>1. Chat!Read(d) = Flat(ReadChat, ms)
    BY <1>1, <1>3, ChatFlat
  <2>2. PICK c : c = ReadChat
    OBVIOUS
  <2>3. Makes(c, ChatMessages, Atoms)
    BY <2>2, ReadChatMakes
  <2>4. Flat(c, f \o es) = Flat(c, f) \o Flat(c, es)
    BY <1>2, <2>3, FlatJoins
  <2> QED
    BY <1>3, <1>15, <2>1, <2>2, <2>4
<1> QED
  BY <1>16, <1>17, <1>18, <1>19 DEF Splits
----------------------------------------------------------------------------------
(* A Responses client's history.                                                      *)

(* The items of a Responses client's history: messages of words, pictures and files,  *)
(* reasoning, calls and their outputs.                                                *)
WordTypes == {"text", "input_text", "output_text", "input_image", "input_file"}
WordParts == PartsIn(WordTypes)
ThoughtParts == PartsIn({"summary_text"})

(* The items a Responses client keeps.                                                *)
WordItems == {it \in Items : it.type = "message" /\ it.role \in {"user", "assistant"}
        /\ it.content \in Seq(WordParts)}
ThoughtItems == {it \in Items : it.type = "reasoning" /\ it.role = "assistant"
        /\ it.content \in Seq(ThoughtParts)}
CallItems == {it \in Items : it.type = "function_call" /\ it.role = "assistant" /\ it.content = <<>>}
OutputItems == {it \in Items : it.type = "function_call_output" /\ it.role = "tool"
        /\ it.content \in Seq(FrontParts)}
GoodItems == WordItems \cup ThoughtItems \cup CallItems \cup OutputItems

(* What the IR has of a part (_parse_content).                                        *)
PartParsed == [x \in WordParts |-> <<[type |-> IF x.type = "input_image" THEN "image_url" ELSE "text", n |-> x.n]>>]

(* One part, of every part.                                                           *)
LEMMA ParsedMakes == Makes(PartParsed, WordParts, IRParts)
  BY DEF Makes, PartParsed, WordParts, IRParts, IRTypes, PartsIn

(* Parsed content says what of it reaches the IR.                                     *)
LEMMA ParsedReads ==
  ASSUME NEW by \in Roles, by # "tool", NEW c \in Seq(WordParts)
  PROVE  /\ Responses!ParseContent(c) \in Seq(IRParts)
         /\ ChatAtoms(by, Responses!ParseContent(c)) = Flat(In("responses"), ResAtoms(by, c))
<1>1. Reads(Chat!Kinds, IRTypes) /\ Reads(Responses!Kinds, WordTypes)
  BY DEF Reads, Chat!Kinds, Responses!Kinds, IRTypes, WordTypes, AtomKinds
<1>2. Turns(WordTypes, Responses!Kinds, Chat!Kinds, by, PartParsed, In("responses"))
  <2> SUFFICES ASSUME NEW x \in WordParts
               PROVE  ContentAtoms(Chat!Kinds, by, PartParsed[x])
                       = In("responses")[Atom(by, Responses!Kinds[x.type], x.n)]
    BY DEF Turns, WordParts
  <2>1. x.type \in WordTypes /\ x.n \in Nat
    BY DEF WordParts, PartsIn
  <2>2. PICK a : a = Atom(by, Responses!Kinds[x.type], x.n)
    OBVIOUS
  <2>3. a \in Atoms /\ a.kind = Responses!Kinds[x.type] /\ a.by = by /\ a.n = x.n
    BY <1>1, <2>1, <2>2 DEF Atom, Atoms, Reads
  <2>4. PICK y : y = [type |-> IF x.type = "input_image" THEN "image_url" ELSE "text", n |-> x.n]
    OBVIOUS
  <2>5. ContentAtoms(Chat!Kinds, by, <<y>>) = <<Atom(by, Chat!Kinds[y.type], y.n)>>
    BY DEF ContentAtoms
  <2>6. In("responses")[a] = <<[a EXCEPT !.kind = IF @ = "file" THEN "text" ELSE @]>>
    BY <2>3 DEF In
  <2>7. Chat!Kinds[y.type] = IF a.kind = "file" THEN "text" ELSE a.kind
    BY <2>1, <2>3, <2>4 DEF Chat!Kinds, Responses!Kinds, WordTypes
  <2>8. [a EXCEPT !.kind = IF @ = "file" THEN "text" ELSE @]
          = [by |-> by, kind |-> IF a.kind = "file" THEN "text" ELSE a.kind, n |-> x.n]
    BY <2>3 DEF Atoms
  <2>9. Atom(by, Chat!Kinds[y.type], y.n) = [a EXCEPT !.kind = IF @ = "file" THEN "text" ELSE @]
    BY <2>4, <2>7, <2>8 DEF Atom
  <2>10. PartParsed[x] = <<y>>
    BY <2>4 DEF PartParsed
  <2> QED
    BY <2>2, <2>5, <2>6, <2>9, <2>10
<1>3. Makes(PartParsed, PartsIn(WordTypes), PartsIn(IRTypes)) /\ c \in Seq(PartsIn(WordTypes))
  BY ParsedMakes DEF IRParts, WordParts
<1>4. ContentAtoms(Chat!Kinds, by, Flat(PartParsed, c))
        = Flat(In("responses"), ContentAtoms(Responses!Kinds, by, c))
  BY <1>1, <1>2, <1>3, InMakes, Converted
<1>5. Responses!ParseContent(c) = Flat(PartParsed, c)
  <2>1. PICK m : m = [x \in WordParts |-> [type |-> IF x.type = "input_image" THEN "image_url" ELSE "text", n |-> x.n]]
    OBVIOUS
  <2>2. DOMAIN c = 1..Len(c) /\ \A i \in 1..Len(c) : c[i] \in WordParts
    BY ListIs
  <2>3. OneEach(PartParsed, m, c)
    BY <2>1, <2>2 DEF OneEach, PartParsed
  <2>4. Flat(PartParsed, c) = Mapped(m, c)
    BY <2>3, FlatMaps
  <2>5. \A i \in 1..Len(c) : m[c[i]] = IF c[i].type
          = "input_image" THEN Responses!Part("image_url", c[i].n)
                                       ELSE Responses!Part("text", c[i].n)
    BY <2>1, <2>2 DEF Responses!Part
  <2>6. Mapped(m, c) = [i \in DOMAIN c |-> IF c[i].type
          = "input_image" THEN Responses!Part("image_url", c[i].n)
                                       ELSE Responses!Part("text", c[i].n)]
    BY <2>2, <2>5 DEF Mapped
  <2> QED
    BY <2>4, <2>6 DEF Responses!ParseContent, Responses!Each
<1>6. Flat(PartParsed, c) \in Seq(IRParts)
  BY ParsedMakes, FlatType
<1> QED
  BY <1>4, <1>5, <1>6 DEF ChatAtoms, ResAtoms

(* A message of the IR that only says something, thinks something or calls one tool.  *)
LEMMA IRSays ==
  ASSUME NEW by \in {"user", "assistant"}, NEW content \in Seq(IRParts), NEW calls \in Seq(Nat),
         NEW think \in Seq(Nat),
         by = "user" => calls = <<>> /\ think = <<>>,
         NEW x, x = [role |-> by, content |-> content, tool_calls |-> calls, tool_call_id |-> 0, reasoning |-> think]
  PROVE  /\ x \in TurnMessages
         /\ ReadChat[x] = Same(by, "think", think) \o ChatAtoms(by, content) \o Same(by, "call", calls)
<1>1. x \in IRMessages /\ x.role = by /\ x.content = content /\ x.tool_calls = calls
        /\ x.reasoning = think
  BY DEF IRMessages, Roles
<1>2. x \in TurnMessages
  BY <1>1 DEF TurnMessages
<1> QED
  BY <1>1, <1>2, OwnReads

(* An IR message of a tool says its result.                                           *)
LEMMA IRReturns ==
  ASSUME NEW content \in Seq(IRParts), NEW id \in Nat, NEW x,
         x = [role |-> "tool", content |-> content, tool_calls |-> <<>>, tool_call_id |-> id, reasoning |-> <<>>]
  PROVE  /\ x \in TurnMessages
         /\ ReadChat[x] = <<Atom("tool", "result", id)>> \o ChatAtoms("tool", content)
<1>1. x \in IRMessages /\ x.role = "tool" /\ x.content = content /\ x.tool_call_id = id
  BY DEF IRMessages, Roles
<1>2. x \in TurnMessages
  BY <1>1 DEF TurnMessages
<1> QED
  BY <1>1, <1>2, ToolReads

(* Nothing added before, after or around a list.                                      *)
LEMMA ConcatNothing ==
  ASSUME NEW s \in Seq(Atoms)
  PROVE  <<>> \o s = s /\ s \o <<>> = s /\ <<>> \o s \o <<>> = s /\ <<>> \o <<>> \o s = s
          /\ s \o <<>> \o <<>> = s
  BY ConcatEmptySeq

(* A message item becomes an IR message that says what of it reaches the IR;          *)
LEMMA WordsIn ==
  ASSUME NEW it \in WordItems
  PROVE  /\ Responses!ItemToIR(it) \in TurnMessages
         /\ ReadChat[Responses!ItemToIR(it)] = Flat(In("responses"), ReadRes[it])
<1>1. /\ it \in Items /\ it.type = "message" /\ it.role \in {"user", "assistant"}
          /\ it.content \in Seq(WordParts)
      /\ it.content \in Seq(ResParts)
  BY DEF WordItems, Items
<1>2. it.role \in Roles /\ it.role # "tool"
  BY <1>1 DEF Roles
<1>3. PICK c \in Seq(IRParts) : c = Responses!ParseContent(it.content)
                                /\ ChatAtoms(it.role, c) = Flat(In("responses"), ResAtoms(it.role, it.content))
  BY <1>1, <1>2, ParsedReads
<1>4. PICK x : x = [role |-> it.role, content |-> c, tool_calls |-> <<>>, tool_call_id |-> 0, reasoning |-> <<>>]
  OBVIOUS
<1>5. Responses!ItemToIR(it) = x
  BY <1>1, <1>3, <1>4 DEF Responses!ItemToIR, Responses!Message, Responses!NoCall
<1>6. x \in TurnMessages
      /\ ReadChat[x] = Same(it.role, "think", <<>>) \o ChatAtoms(it.role, c)
              \o Same(it.role, "call", <<>>)
  <2>1. <<>> \in Seq(Nat)
    OBVIOUS
  <2> QED
    BY <1>1, <1>4, <2>1, IRSays, ZenonT(40)
<1>7. PICK s \in Seq(Atoms) : s = ChatAtoms(it.role, c)
  <2>1. c \in Seq(ChatParts)
    <3>1. IRParts \subseteq ChatParts
      BY DEF IRParts, ChatParts, PartsIn, IRTypes, ChatTypes
    <3> QED
      BY <3>1, SeqGrows
  <2> QED
    BY <1>2, <2>1, ChatAtomsType
<1>8. ReadChat[x] = s
  BY <1>6, <1>7, SameNone, ConcatNothing
<1>9. ReadRes[it] = ResAtoms(it.role, it.content)
  <2>1. ReadRes[it] = ItemAtoms(it) \o ResAtoms(it.role, it.content)
    BY <1>1, ResReads DEF ReadRes
  <2>2. ItemAtoms(it) = <<>>
    BY <1>1 DEF ItemAtoms
  <2>3. ResAtoms(it.role, it.content) \in Seq(Atoms)
    BY <1>1, <1>2, ResAtomsType
  <2> QED
    BY <2>1, <2>2, <2>3, ConcatNothing
<1> QED
  BY <1>3, <1>5, <1>6, <1>7, <1>8, <1>9

(* so does a reasoning item,                                                          *)
LEMMA ThoughtIn ==
  ASSUME NEW it \in ThoughtItems
  PROVE  /\ Responses!ItemToIR(it) \in TurnMessages
         /\ ReadChat[Responses!ItemToIR(it)] = Flat(In("responses"), ReadRes[it])
<1>1. /\ it \in Items /\ it.type = "reasoning" /\ it.role = "assistant"
          /\ it.content \in Seq(ThoughtParts)
  BY DEF ThoughtItems
<1>2. Len(it.content) \in Nat /\ DOMAIN it.content = 1..Len(it.content)
      /\ \A i \in 1..Len(it.content) : it.content[i] \in ThoughtParts
  BY <1>1, ListIs
<1>3. PICK ns : ns = Responses!Numbers(it.content)
  OBVIOUS
<1>4. ns = [i \in 1..Len(it.content) |-> ns[i]] /\ \A i \in 1..Len(it.content) : ns[i] = it.content[i].n
  BY <1>2, <1>3 DEF Responses!Numbers, Responses!Each
<1>5. \A y \in ThoughtParts : y.type = "summary_text" /\ y.n \in Nat
  BY DEF ThoughtParts, PartsIn
<1>6. ns \in Seq(Nat) /\ Len(ns) = Len(it.content)
  <2>1. \A i \in 1..Len(it.content) : ns[i] \in Nat
    BY <1>2, <1>4, <1>5
  <2> QED
    BY <1>2, <1>4, <2>1, TypedList
<1>7. ResAtoms("assistant", it.content) = Same("assistant", "think", ns)
  <2>1. \A i \in 1..Len(it.content) : Responses!Kinds[it.content[i].type] = "think"
    BY <1>2, <1>5 DEF Responses!Kinds
  <2> QED
    BY <1>4, <1>6, <2>1 DEF ResAtoms, ContentAtoms, Same
<1>8. PICK s \in Seq(Atoms) : s = Same("assistant", "think", ns) /\ Flat(In("responses"), s) = s
  BY <1>6, SameType, InSame DEF Roles, AtomKinds
<1>9. ReadRes[it] = s
  <2>1. ReadRes[it] = ItemAtoms(it) \o ResAtoms("assistant", it.content)
    BY <1>1, ResReads DEF ReadRes
  <2>2. ItemAtoms(it) = <<>>
    BY <1>1 DEF ItemAtoms
  <2> QED
    BY <1>7, <1>8, <2>1, <2>2, ConcatNothing
<1>10. PICK x : x = [role |-> "assistant", content |-> <<>>, tool_calls |-> <<>>, tool_call_id |-> 0, reasoning |-> ns]
  OBVIOUS
<1>11. Responses!ItemToIR(it) = x
  BY <1>1, <1>3, <1>10 DEF Responses!ItemToIR, Responses!Message, Responses!NoCall
<1>12. x \in TurnMessages
      /\ ReadChat[x] = Same("assistant", "think", ns) \o ChatAtoms("assistant", <<>>)
              \o Same("assistant", "call", <<>>)
  <2>1. PICK none \in Seq(Nat), nothing \in Seq(IRParts) : none = <<>> /\ nothing = <<>>
    BY EmptySeq
  <2>2. x = [role |-> "assistant", content |-> nothing, tool_calls |-> none, tool_call_id |-> 0, reasoning |-> ns]
    BY <1>10, <2>1
  <2>3. PICK think \in Seq(Nat) : think = ns
    BY <1>6
  <2>4. x = [role |-> "assistant", content |-> nothing, tool_calls |-> none, tool_call_id |-> 0, reasoning |-> think]
    BY <2>2, <2>3
  <2>5. x \in TurnMessages
        /\ ReadChat[x] = Same("assistant", "think", think) \o ChatAtoms("assistant", nothing)
                \o Same("assistant", "call", none)
    BY <2>4, IRSays, SMTT(40)
  <2> QED
    BY <2>1, <2>3, <2>5
<1>13. ChatAtoms("assistant", <<>>) = <<>>
  BY DEF ChatAtoms, ContentAtoms
<1>14. ReadChat[x] = s
  BY <1>8, <1>12, <1>13, SameNone, ConcatNothing
<1> QED
  BY <1>8, <1>9, <1>11, <1>12, <1>14

(* a call,                                                                            *)
LEMMA CallIn ==
  ASSUME NEW it \in CallItems
  PROVE  /\ Responses!ItemToIR(it) \in TurnMessages
         /\ ReadChat[Responses!ItemToIR(it)] = Flat(In("responses"), ReadRes[it])
<1>1. it \in Items /\ it.type = "function_call" /\ it.role = "assistant" /\ it.content = <<>>
        /\ it.call_id \in Nat
  BY DEF CallItems, Items
<1>2. PICK ns \in Seq(Nat) : ns = <<it.call_id>>
  <2>1. \A n \in Nat : <<n>> \in Seq(Nat)
    OBVIOUS
  <2> QED
    BY <1>1, <2>1
<1>3. PICK s \in Seq(Atoms) : s = Same("assistant", "call", ns) /\ Flat(In("responses"), s) = s
  BY SameType, InSame DEF Roles, AtomKinds
<1>4. ReadRes[it] = s
  <2>1. ReadRes[it] = ItemAtoms(it) \o ResAtoms("assistant", <<>>)
    BY <1>1, ResReads DEF ReadRes
  <2>2. ItemAtoms(it) = s
    BY <1>1, <1>2, <1>3, SameOne DEF ItemAtoms
  <2>3. ResAtoms("assistant", <<>>) = <<>>
    BY DEF ResAtoms, ContentAtoms
  <2> QED
    BY <2>1, <2>2, <2>3, ConcatNothing
<1>5. PICK x : x = [role |-> "assistant", content |-> <<>>, tool_calls |-> ns, tool_call_id |-> 0, reasoning |-> <<>>]
  OBVIOUS
<1>6. Responses!ItemToIR(it) = x
  BY <1>1, <1>2, <1>5 DEF Responses!ItemToIR, Responses!Message, Responses!NoCall
<1>7. x \in TurnMessages
      /\ ReadChat[x] = Same("assistant", "think", <<>>) \o ChatAtoms("assistant", <<>>)
              \o Same("assistant", "call", ns)
  <2>1. PICK none \in Seq(Nat), nothing \in Seq(IRParts) : none = <<>> /\ nothing = <<>>
    BY EmptySeq
  <2>2. x = [role |-> "assistant", content |-> nothing, tool_calls |-> ns, tool_call_id |-> 0, reasoning |-> none]
    BY <1>5, <2>1
  <2>3. x \in TurnMessages
        /\ ReadChat[x] = Same("assistant", "think", none) \o ChatAtoms("assistant", nothing)
                \o Same("assistant", "call", ns)
    BY <2>2, IRSays, SMTT(40)
  <2> QED
    BY <2>1, <2>3
<1>8. ChatAtoms("assistant", <<>>) = <<>>
  BY DEF ChatAtoms, ContentAtoms
<1>9. ReadChat[x] = s
  BY <1>3, <1>7, <1>8, SameNone, ConcatNothing
<1> QED
  BY <1>3, <1>4, <1>6, <1>7, <1>9

(* and the output of a call.                                                          *)
LEMMA OutputIn ==
  ASSUME NEW it \in OutputItems
  PROVE  /\ Responses!ItemToIR(it) \in TurnMessages
         /\ ReadChat[Responses!ItemToIR(it)] = Flat(In("responses"), ReadRes[it])
<1>1. it \in Items /\ it.type = "function_call_output" /\ it.role = "tool"
        /\ it.content \in Seq(FrontParts)
      /\ it.call_id \in Nat
  BY DEF OutputItems, Items
<1>2. it.content \in Seq(IRParts)
  BY <1>1, FrontIsText
<1>3. PICK x : x = [role |-> "tool", content |-> it.content, tool_calls |-> <<>>, tool_call_id |-> it.call_id,
                    reasoning |-> <<>>]
  OBVIOUS
<1>4. Responses!ItemToIR(it) = x
  BY <1>1, <1>3 DEF Responses!ItemToIR, Responses!ToolMessage, Responses!Message, Responses!NoCall
<1>5. PICK a \in Atoms : a = Atom("tool", "result", it.call_id)
  BY <1>1 DEF Atom, Atoms, Roles, AtomKinds
<1>6. x \in TurnMessages /\ ReadChat[x] = <<a>> \o ChatAtoms("tool", it.content)
  BY <1>1, <1>2, <1>3, <1>5, IRReturns
<1>7. ReadRes[it] = <<a>> \o ResAtoms("tool", it.content)
  <2>1. ReadRes[it] = ItemAtoms(it) \o ResAtoms("tool", it.content)
    BY <1>1, ResReads DEF ReadRes
  <2>2. ItemAtoms(it) = <<a>>
    BY <1>1, <1>5 DEF ItemAtoms
  <2> QED
    BY <2>1, <2>2
<1>8. Len(it.content) \in Nat /\ \A i \in 1..Len(it.content) : it.content[i].type = "text"
        /\ it.content[i].n \in Nat
  <2>1. \A y \in FrontParts : y.type = "text" /\ y.n \in Nat
    BY DEF FrontParts, PartsIn
  <2> QED
    BY <1>1, <2>1, ListIs
<1>9. ResAtoms("tool", it.content) = ChatAtoms("tool", it.content)
  BY <1>8 DEF ResAtoms, ChatAtoms, ContentAtoms, Responses!Kinds, Chat!Kinds
<1>10. PICK ns : ns = [i \in 1..Len(it.content) |-> it.content[i].n]
  OBVIOUS
<1>11. ns \in Seq(Nat) /\ Len(ns) = Len(it.content)
  <2>1. ns = [i \in 1..Len(it.content) |-> ns[i]] /\ \A i \in 1..Len(it.content) : ns[i] \in Nat
    BY <1>8, <1>10
  <2> QED
    BY <1>8, <2>1, TypedList
<1>12. ChatAtoms("tool", it.content) = Same("tool", "text", ns)
  BY <1>8, <1>10, <1>11 DEF ChatAtoms, ContentAtoms, Same, Chat!Kinds
<1>13. PICK s \in Seq(Atoms) : s = ChatAtoms("tool", it.content) /\ Flat(In("responses"), s) = s
  BY <1>11, <1>12, SameType, InSame DEF Roles, AtomKinds
<1>14. Flat(In("responses"), <<a>>) = <<a>>
  <2>0. \A n \in Nat : <<n>> \in Seq(Nat)
    OBVIOUS
  <2>1. PICK id \in Seq(Nat) : id = <<it.call_id>>
    BY <1>1, <2>0
  <2>2. Same("tool", "result", id) = <<a>>
    BY <1>5, <2>1, SameOne
  <2>3. Flat(In("responses"), Same("tool", "result", id)) = Same("tool", "result", id)
    BY InSame DEF Roles
  <2> QED
    BY <2>2, <2>3
<1>15. Flat(In("responses"), <<a>> \o s) = Flat(In("responses"), <<a>>) \o Flat(In("responses"), s)
  <2>1. <<a>> \in Seq(Atoms)
    OBVIOUS
  <2> QED
    BY <2>1, InJoins
<1> QED
  BY <1>4, <1>6, <1>7, <1>9, <1>13, <1>14, <1>15

(* What a document with these instructions begins with in the IR.                     *)
Opening(c) ==
    IF c = <<>> THEN <<>>
    ELSE <<[role |-> "system", content |-> c, tool_calls |-> <<>>, tool_call_id |-> 0, reasoning |-> <<>>]>>

(* It is a system message, and says the prompt.                                       *)
LEMMA OpeningReads ==
  ASSUME NEW c \in Seq(FrontParts)
  PROVE  Opening(c) \in Seq(FrontMessages) /\ Flat(ReadChat, Opening(c)) = SystemAtoms(c)
<1>1. CASE c = <<>>
  <2>1. PICK f \in Seq(FrontMessages) : f = <<>>
    BY EmptySeq
  <2>2. Opening(c) = f
    BY <1>1, <2>1 DEF Opening
  <2>3. Flat(ReadChat, f) = <<>>
    BY <2>1, FlatEmpty
  <2>4. SystemAtoms(c) = <<>>
    BY <1>1 DEF SystemAtoms
  <2> QED
    BY <2>2, <2>3, <2>4
<1>2. CASE c # <<>>
  <2>1. PICK none \in Seq(Nat) : none = <<>>
    BY EmptySeq
  <2>2. PICK x : x = [role |-> "system", content |-> c, tool_calls |-> none, tool_call_id |-> 0, reasoning |-> none]
    OBVIOUS
  <2>3. c \in Seq(IRParts)
    BY FrontIsText
  <2>4. x \in [role : Roles, content : Seq(IRParts), tool_calls : Seq(Nat), tool_call_id : Nat, reasoning : Seq(Nat)]
    BY <2>2, <2>3 DEF Roles
  <2>5. x \in FrontMessages
    BY <2>1, <2>2, <2>4 DEF FrontMessages, IRMessages
  <2>6. Opening(c) = <<x>>
    BY <1>2, <2>1, <2>2 DEF Opening
  <2>7. x \in ChatMessages
    BY <2>5, IRIsChat DEF FrontMessages
  <2>8. Flat(ReadChat, <<x>>) = ReadChat[x]
    BY <2>7, ReadChatMakes, FlatOne
  <2>9. ReadChat[x] = SystemAtoms(c)
    BY <2>2, <2>5, FrontReads
  <2>10. <<x>> \in Seq(FrontMessages)
    BY <2>5
  <2> QED
    BY <2>6, <2>8, <2>9, <2>10
<1> QED
  BY <1>1, <1>2

(* The history of a Responses client.                                                 *)
GoodRes == {d \in ResDocs : d.input \in Seq(GoodItems)}
(* The IR message of an item, and what the item says.                                 *)
ItemIn == [it \in GoodItems |-> <<Responses!ItemToIR(it)>>]
ReadGood == [it \in GoodItems |-> ReadRes[it]]

(* They are items.                                                                    *)
LEMMA GoodAreItems == GoodItems \subseteq Items
  BY DEF GoodItems, WordItems, ThoughtItems, CallItems, OutputItems

(* All of them become messages that say what of them reaches the IR.                  *)
LEMMA ItemInAgrees ==
  /\ Makes(ItemIn, GoodItems, TurnMessages) /\ Makes(ReadGood, GoodItems, Atoms)
  /\ Agree("responses", GoodItems, ItemIn, ReadGood)
<1>1. ASSUME NEW it \in GoodItems
      PROVE  /\ Responses!ItemToIR(it) \in TurnMessages
             /\ ReadChat[Responses!ItemToIR(it)] = Flat(In("responses"), ReadRes[it])
  BY WordsIn, ThoughtIn, CallIn, OutputIn DEF GoodItems
<1>2. Makes(ItemIn, GoodItems, TurnMessages)
  BY <1>1 DEF ItemIn, Makes
<1>3. Makes(ReadGood, GoodItems, Atoms)
  BY ReadResMakes, GoodAreItems DEF ReadGood, Makes
<1>4. ASSUME NEW it \in GoodItems
      PROVE Flat(ReadChat, ItemIn[it]) = Flat(In("responses"), ReadGood[it])
  <2>1. PICK x \in TurnMessages : x = Responses!ItemToIR(it)
    BY <1>1
  <2>2. Flat(ReadChat, <<x>>) = ReadChat[x]
    BY TurnsIsChat, ReadChatMakes, FlatOne
  <2> QED
    BY <1>1, <2>1, <2>2 DEF ItemIn, ReadGood
<1> QED
  BY <1>2, <1>3, <1>4 DEF Agree

(* A Responses history in the IR says what of it reaches the IR.                      *)
LEMMA ResIn ==
  ASSUME NEW d \in GoodRes
  PROVE  /\ Splits(Responses!ToIR(d))
         /\ Flat(ReadChat, Responses!ToIR(d)) = Flat(In("responses"), Responses!Read(d))
<1>1. d.instructions \in Seq(FrontParts) /\ d.input \in Seq(GoodItems)
  BY DEF GoodRes, ResDocs
<1>2. PICK c \in Seq(FrontParts), es \in Seq(GoodItems) : c = d.instructions /\ es = d.input
  BY <1>1
<1>3. PICK f \in Seq(FrontMessages) : f = Opening(c) /\ Flat(ReadChat, f) = SystemAtoms(c)
  BY OpeningReads
<1>4. PICK sys \in Seq(Atoms) : sys = SystemAtoms(c) /\ Flat(In("responses"), sys) = sys
  BY SystemIn
<1>5. /\ Flat(ItemIn, es) \in Seq(TurnMessages)
      /\ Flat(ReadChat, f \o Flat(ItemIn, es)) = Flat(In("responses"), sys \o Flat(ReadGood, es))
  BY <1>3, <1>4, ItemInAgrees, ClientReads
<1>6. Responses!ToIR(d) = f \o Flat(ItemIn, es)
  <2>1. PICK C : C = [it \in GoodItems |-> Responses!ItemToIR(it)]
    OBVIOUS
  <2>2. DOMAIN es = 1..Len(es) /\ \A i \in 1..Len(es) : es[i] \in GoodItems
    BY ListIs
  <2>3. OneEach(ItemIn, C, es)
    BY <2>1, <2>2 DEF OneEach, ItemIn
  <2>4. Flat(ItemIn, es) = Mapped(C, es)
    BY <2>3, FlatMaps
  <2>5. Mapped(C, es) = [i \in DOMAIN es |-> Responses!ItemToIR(es[i])]
    BY <2>1, <2>2 DEF Mapped
  <2>6. f = IF d.instructions = <<>> THEN <<>>
          ELSE <<Responses!Message("system", d.instructions, <<>>, <<>>)>>
    BY <1>2, <1>3 DEF Opening, Responses!Message, Responses!NoCall
  <2> QED
    BY <1>2, <2>4, <2>5, <2>6 DEF Responses!ToIR, Responses!Each
<1>7. Flat(ReadGood, es) = Flat(ReadRes, es)
  <2>1. \A i \in 1..Len(es) : ReadGood[es[i]] = ReadRes[es[i]]
    BY ListIs DEF ReadGood
  <2> QED
    BY <2>1, FlatSame
<1>8. Responses!Read(d) = sys \o Flat(ReadRes, es)
  <2>1. es \in Seq(Items)
    BY GoodAreItems, SeqGrows
  <2> QED
    BY <1>2, <1>4, <2>1, ResFlat
<1> QED
  BY <1>3, <1>5, <1>6, <1>7, <1>8 DEF Splits
----------------------------------------------------------------------------------
(* A Messages client's history.                                                       *)

(* The atoms not by a tool, and those by one; what a Messages client's turn says, in  *)
(* the order in which the gateway reads it.                                           *)
ByOthers == [a \in Atoms |-> IF a.by # "tool" THEN <<a>> ELSE <<>>]
ByTools == [a \in Atoms |-> IF a.by = "tool" THEN <<a>> ELSE <<>>]
Settled(p, s) == IF p # "messages" THEN s ELSE Flat(ByOthers, s) \o Flat(ByTools, s)

(* One atom or none, of every atom.                                                   *)
LEMMA SettledMakes == Makes(ByOthers, Atoms, Atoms) /\ Makes(ByTools, Atoms, Atoms)
<1>1. \A a \in Atoms : <<a>> \in Seq(Atoms)
  OBVIOUS
<1>2. <<>> \in Seq(Atoms)
  BY EmptySeq
<1> QED
  BY <1>1, <1>2 DEF Makes, ByOthers, ByTools

(* It says atoms.                                                                     *)
LEMMA SettledType ==
  ASSUME NEW p, NEW s \in Seq(Atoms)
  PROVE  Settled(p, s) \in Seq(Atoms)
<1>1. Flat(ByOthers, s) \in Seq(Atoms) /\ Flat(ByTools, s) \in Seq(Atoms)
  BY SettledMakes, FlatType
<1> QED
  BY <1>1, ConcatProperties DEF Settled

(* This is the order Faithful states.                                                 *)
LEMMA ReorderedIs ==
  ASSUME NEW s \in Seq(Atoms)
  PROVE  Reordered(s) = Settled(client, s)
<1>1. DOMAIN s = 1..Len(s) /\ \A i \in 1..Len(s) : s[i] \in Atoms
  BY ListIs
<1>2. Chosen(LAMBDA a : a.by # "tool", s) = Flat(ByOthers, s)
  <2>1. [i \in DOMAIN s |-> IF s[i].by # "tool" THEN <<s[i]>> ELSE <<>>]
          = [i \in 1..Len(s) |-> ByOthers[s[i]]]
    BY <1>1 DEF ByOthers
  <2> QED
    BY <2>1 DEF Chosen, Each, Flat
<1>3. Chosen(LAMBDA a : a.by = "tool", s) = Flat(ByTools, s)
  <2>1. [i \in DOMAIN s |-> IF s[i].by = "tool" THEN <<s[i]>> ELSE <<>>]
          = [i \in 1..Len(s) |-> ByTools[s[i]]]
    BY <1>1 DEF ByTools
  <2> QED
    BY <2>1 DEF Chosen, Each, Flat
<1> QED
  BY <1>2, <1>3 DEF Reordered, Settled

(* What no tool says stays as it is; what tools say goes behind it.                   *)
LEMMA SettledOwn ==
  ASSUME NEW p, NEW s \in Seq(Atoms), \A i \in 1..Len(s) : s[i].by # "tool"
  PROVE  Settled(p, s) = s
<1>1. \A i \in 1..Len(s) : s[i] \in Atoms
  BY ListIs
<1>2. Flat(ByOthers, s) = s
  <2>1. Keeps(ByOthers, s)
    BY <1>1 DEF Keeps, ByOthers
  <2> QED
    BY <2>1, FlatKeeps
<1>3. Flat(ByTools, s) = <<>>
  <2>1. \A i \in 1..Len(s) : ByTools[s[i]] = <<>>
    BY <1>1 DEF ByTools
  <2> QED
    BY <2>1, FlatNothing
<1> QED
  BY <1>2, <1>3, ConcatNothing DEF Settled

(* Results and words change places.                                                   *)
LEMMA SettledTurn ==
  ASSUME NEW r \in Seq(Atoms), \A i \in 1..Len(r) : r[i].by = "tool",
         NEW s \in Seq(Atoms), \A i \in 1..Len(s) : s[i].by # "tool"
  PROVE  Settled("messages", r \o s) = s \o r
<1>1. \A i \in 1..Len(s) : s[i] \in Atoms
  BY ListIs
<1>2. \A i \in 1..Len(r) : r[i] \in Atoms
  BY ListIs
<1>3. Flat(ByOthers, s) = s
  <2>1. Keeps(ByOthers, s)
    BY <1>1 DEF Keeps, ByOthers
  <2> QED
    BY <2>1, FlatKeeps
<1>4. Flat(ByTools, s) = <<>>
  <2>1. \A i \in 1..Len(s) : ByTools[s[i]] = <<>>
    BY <1>1 DEF ByTools
  <2> QED
    BY <2>1, FlatNothing
<1>5. Flat(ByTools, r) = r
  <2>1. Keeps(ByTools, r)
    BY <1>2 DEF Keeps, ByTools
  <2> QED
    BY <2>1, FlatKeeps
<1>6. Flat(ByOthers, r) = <<>>
  <2>1. \A i \in 1..Len(r) : ByOthers[r[i]] = <<>>
    BY <1>2 DEF ByOthers
  <2> QED
    BY <2>1, FlatNothing
<1>7. /\ Flat(ByOthers, r \o s) = Flat(ByOthers, r) \o Flat(ByOthers, s)
      /\ Flat(ByTools, r \o s) = Flat(ByTools, r) \o Flat(ByTools, s)
  BY SettledMakes, FlatJoins
<1> QED
  BY <1>3, <1>4, <1>5, <1>6, <1>7, ConcatNothing DEF Settled

----------------------------------------------------------------------------------
(* What pieces become, piece by piece.                                                *)
ReadPiece(by) == [x \in OnePiece |-> <<Atom(by, x.kind, x.n)>>]

(* What pieces say, piece by piece.                                                   *)
LEMMA PiecesFlat ==
  ASSUME NEW by \in Roles, NEW pieces \in PieceList
  PROVE  Makes(ReadPiece(by), OnePiece, Atoms) /\ AtomsOf(by, pieces) = Flat(ReadPiece(by), pieces)
<1>1. pieces \in Seq(OnePiece) /\ \A i \in 1..Len(pieces) : pieces[i] \in OnePiece
  BY ListIs DEF PieceList
<1>2. PICK m : m = [x \in OnePiece |-> Atom(by, x.kind, x.n)]
  OBVIOUS
<1>3. \A x \in OnePiece : Atom(by, x.kind, x.n) \in Atoms
  BY DEF OnePiece, Atom, Atoms, AtomKinds, PieceKinds
<1>4. OneEach(ReadPiece(by), m, pieces)
  BY <1>1, <1>2 DEF OneEach, ReadPiece
<1>5. Flat(ReadPiece(by), pieces) = Mapped(m, pieces)
  BY <1>1, <1>4, FlatMaps
<1>6. AtomsOf(by, pieces) = [i \in 1..Len(pieces) |-> Atom(by, pieces[i].kind, pieces[i].n)]
  BY AtomsOfType
<1>7. Mapped(m, pieces) = [i \in 1..Len(pieces) |-> Atom(by, pieces[i].kind, pieces[i].n)]
  BY <1>1, <1>2 DEF Mapped
<1>8. Makes(ReadPiece(by), OnePiece, Atoms)
  BY <1>3 DEF Makes, ReadPiece
<1> QED
  BY <1>5, <1>6, <1>7, <1>8

(* What g makes of a piece says what of the piece reaches the IR.                     *)
Becomes(p, by, g) == \A x \in OnePiece : ChatAtoms(by, g[x]) = In(p)[Atom(by, x.kind, x.n)]

(* So pieces become parts that say what of the pieces reaches the IR.                 *)
LEMMA PiecesIn ==
  ASSUME NEW p, NEW by \in Roles, NEW g, Makes(g, OnePiece, IRParts), Becomes(p, by, g),
         NEW pieces \in PieceList
  PROVE  Flat(g, pieces) \in Seq(IRParts)
          /\ ChatAtoms(by, Flat(g, pieces)) = Flat(In(p), AtomsOf(by, pieces))
<1>1. pieces \in Seq(OnePiece)
  BY DEF PieceList
<1>2. PICK c \in Seq(IRParts) : c = Flat(g, pieces)
  BY <1>1, FlatType
<1>3. Reads(Chat!Kinds, IRTypes)
  BY DEF Reads, IRTypes, Chat!Kinds, AtomKinds
<1>4. PICK rp : rp = ReadPart(Chat!Kinds, by, IRTypes)
  OBVIOUS
<1>5. Makes(rp, IRParts, Atoms)
  BY <1>3, <1>4, ReadPartMakes DEF IRParts
<1>6. \A d \in Seq(IRParts) : ChatAtoms(by, d) = Flat(rp, d)
  BY <1>4, ContentFlat DEF IRParts, ChatAtoms
<1>7. PICK v : v = [x \in OnePiece |-> Flat(rp, g[x])]
  OBVIOUS
<1>8. Flat(rp, c) = Flat(v, pieces)
  BY <1>1, <1>2, <1>5, <1>7, FlatFlat
<1>9. PICK rd : rd = ReadPiece(by)
  OBVIOUS
<1>10. Makes(rd, OnePiece, Atoms) /\ AtomsOf(by, pieces) = Flat(rd, pieces)
  BY <1>9, PiecesFlat
<1>11. PICK w : w = [x \in OnePiece |-> Flat(In(p), rd[x])]
  OBVIOUS
<1>12. Flat(In(p), Flat(rd, pieces)) = Flat(w, pieces)
  BY <1>1, <1>10, <1>11, InMakes, FlatFlat
<1>13. ASSUME NEW x \in OnePiece PROVE v[x] = w[x]
  <2>1. PICK a \in Atoms : a = Atom(by, x.kind, x.n)
    BY DEF OnePiece, Atom, Atoms, AtomKinds, PieceKinds
  <2>2. rd[x] = <<a>>
    BY <1>9, <2>1 DEF ReadPiece
  <2>3. Flat(In(p), <<a>>) = In(p)[a]
    BY InMakes, FlatOne
  <2>4. g[x] \in Seq(IRParts)
    BY DEF Makes
  <2>5. v[x] = ChatAtoms(by, g[x])
    BY <1>6, <1>7, <2>4
  <2> QED
    BY <1>11, <2>1, <2>2, <2>3, <2>5 DEF Becomes
<1>14. Flat(v, pieces) = Flat(w, pieces)
  <2>1. \A i \in 1..Len(pieces) : v[pieces[i]] = w[pieces[i]]
    BY <1>1, <1>13, ListIs
  <2> QED
    BY <2>1, FlatSame
<1> QED
  BY <1>2, <1>6, <1>8, <1>10, <1>12, <1>14

(* What the gateway makes of a piece of a Messages client's user, and of one in a     *)
(* tool's result.                                                                     *)
PieceIn ==
    [x \in OnePiece |-> IF x.kind = "file" THEN <<>>
                        ELSE <<[type |-> IF x.kind = "image" THEN "image_url" ELSE "text", n |-> x.n]>>]

(* and of a tool's.                                                                   *)
TextPiece == [x \in OnePiece |-> IF x.kind = "text" THEN <<[type |-> "text", n |-> x.n]>> ELSE <<>>]

(* What one part says.                                                                *)
LEMMA OnePart ==
  ASSUME NEW by \in Roles, NEW t \in IRTypes, NEW n \in Nat
  PROVE  /\ [type |-> t, n |-> n] \in IRParts
         /\ ChatAtoms(by, <<[type |-> t, n |-> n]>>) = <<Atom(by, Chat!Kinds[t], n)>>
         /\ ChatAtoms(by, <<>>) = <<>>
<1>1. PICK x : x = [type |-> t, n |-> n]
  OBVIOUS
<1>2. PICK c : c = <<x>>
  OBVIOUS
<1>3. Len(c) = 1 /\ c[1] = x
  BY <1>2
<1>4. ChatAtoms(by, c) = [i \in 1..1 |-> Atom(by, Chat!Kinds[t], n)]
  BY <1>1, <1>3 DEF ChatAtoms, ContentAtoms
<1>5. [i \in 1..1 |-> Atom(by, Chat!Kinds[t], n)] = <<Atom(by, Chat!Kinds[t], n)>>
  OBVIOUS
<1>6. ChatAtoms(by, <<>>) = <<>>
  BY DEF ChatAtoms, ContentAtoms
<1> QED
  BY <1>1, <1>2, <1>4, <1>5, <1>6 DEF IRParts, PartsIn

(* Of a user's pieces, words and pictures reach the IR.                               *)
LEMMA PieceInBecomes == Makes(PieceIn, OnePiece, IRParts) /\ Becomes("messages", "user", PieceIn)
<1>1. ASSUME NEW x \in OnePiece
      PROVE  /\ PieceIn[x] \in Seq(IRParts)
             /\ ChatAtoms("user", PieceIn[x]) = In("messages")[Atom("user", x.kind, x.n)]
  <2>1. x.kind \in PieceKinds /\ x.n \in Nat
    BY DEF OnePiece
  <2>2. PICK a \in Atoms : a = Atom("user", x.kind, x.n)
    BY <2>1 DEF Atom, Atoms, Roles, AtomKinds, PieceKinds
  <2>3. a.kind = x.kind /\ a.by = "user"
    BY <2>2 DEF Atom
  <2>4. CASE x.kind = "file"
    <3>1. PieceIn[x] = <<>>
      BY <2>4 DEF PieceIn
    <3>2. In("messages")[a] = <<>>
      BY <2>3, <2>4 DEF In
    <3>3. <<>> \in Seq(IRParts)
      BY EmptySeq
    <3> QED
      BY <2>2, <3>1, <3>2, <3>3, OnePart DEF Roles, IRTypes
  <2>5. CASE x.kind # "file"
    <3>1. PICK t \in IRTypes : t = IF x.kind = "image" THEN "image_url" ELSE "text"
      BY DEF IRTypes
    <3>2. PieceIn[x] = <<[type |-> t, n |-> x.n]>>
      BY <2>5, <3>1 DEF PieceIn
    <3>3. Chat!Kinds[t] = x.kind
      BY <2>1, <2>5, <3>1 DEF Chat!Kinds, PieceKinds
    <3>4. In("messages")[a] = <<[a EXCEPT !.kind = IF @ = "file" THEN "text" ELSE @]>>
      BY <2>3, <2>5 DEF In
    <3>5. [a EXCEPT !.kind = IF @ = "file" THEN "text" ELSE @] = a
      BY <2>3, <2>5 DEF Atoms
    <3>6. [type |-> t, n |-> x.n] \in IRParts
          /\ ChatAtoms("user", <<[type |-> t, n |-> x.n]>>) = <<Atom("user", Chat!Kinds[t], x.n)>>
      BY <2>1, OnePart DEF Roles
    <3>7. <<[type |-> t, n |-> x.n]>> \in Seq(IRParts)
      BY <3>6
    <3> QED
      BY <2>2, <3>2, <3>3, <3>4, <3>5, <3>6, <3>7
  <2> QED
    BY <2>4, <2>5
<1> QED
  BY <1>1 DEF Becomes, Makes, PieceIn

(* Of a tool's, words do.                                                             *)
LEMMA TextPieceBecomes == Makes(TextPiece, OnePiece, IRParts) /\ Becomes("messages", "tool", TextPiece)
<1>1. ASSUME NEW x \in OnePiece
      PROVE  /\ TextPiece[x] \in Seq(IRParts)
             /\ ChatAtoms("tool", TextPiece[x]) = In("messages")[Atom("tool", x.kind, x.n)]
  <2>1. x.kind \in PieceKinds /\ x.n \in Nat
    BY DEF OnePiece
  <2>2. PICK a \in Atoms : a = Atom("tool", x.kind, x.n)
    BY <2>1 DEF Atom, Atoms, Roles, AtomKinds, PieceKinds
  <2>3. a.kind = x.kind /\ a.by = "tool"
    BY <2>2 DEF Atom
  <2>4. CASE x.kind # "text"
    <3>1. TextPiece[x] = <<>>
      BY <2>4 DEF TextPiece
    <3>2. In("messages")[a] = <<>>
      BY <2>1, <2>3, <2>4 DEF In, PieceKinds
    <3>3. <<>> \in Seq(IRParts)
      BY EmptySeq
    <3> QED
      BY <2>2, <3>1, <3>2, <3>3, OnePart DEF Roles, IRTypes
  <2>5. CASE x.kind = "text"
    <3>1. PICK t \in IRTypes : t = "text"
      BY DEF IRTypes
    <3>2. TextPiece[x] = <<[type |-> t, n |-> x.n]>>
      BY <2>5, <3>1 DEF TextPiece
    <3>3. Chat!Kinds[t] = x.kind
      BY <2>1, <2>5, <3>1 DEF Chat!Kinds
    <3>4. In("messages")[a] = <<[a EXCEPT !.kind = IF @ = "file" THEN "text" ELSE @]>>
      BY <2>3, <2>5 DEF In
    <3>5. [a EXCEPT !.kind = IF @ = "file" THEN "text" ELSE @] = a
      BY <2>3, <2>5 DEF Atoms
    <3>6. [type |-> t, n |-> x.n] \in IRParts
          /\ ChatAtoms("tool", <<[type |-> t, n |-> x.n]>>) = <<Atom("tool", Chat!Kinds[t], x.n)>>
      BY <2>1, OnePart DEF Roles
    <3>7. <<[type |-> t, n |-> x.n]>> \in Seq(IRParts)
      BY <3>6
    <3> QED
      BY <2>2, <3>2, <3>3, <3>4, <3>5, <3>6, <3>7
  <2> QED
    BY <2>4, <2>5
<1> QED
  BY <1>1 DEF Becomes, Makes, TextPiece

(* The text of a result is that of its pieces.                                        *)
LEMMA ResultTextIn ==
  ASSUME NEW parts \in PieceList
  PROVE  Messages!TextOf(MesContent(parts)) = Flat(TextPiece, parts)
<1>1. DOMAIN parts = 1..Len(parts) /\ \A i \in 1..Len(parts) : parts[i] \in OnePiece
  BY ListIs DEF PieceList
<1>2. PICK c : c = MesContent(parts)
  OBVIOUS
<1>3. DOMAIN c = 1..Len(parts)
      /\ \A i \in 1..Len(parts) : c[i] = [type |-> Messages!TypeOf[parts[i].kind], n |-> parts[i].n]
  BY <1>1, <1>2 DEF MesContent, Messages!Part
<1>4. \A i \in 1..Len(parts) :
         (IF c[i].type \in {"text"} THEN <<c[i]>> ELSE <<>>) = TextPiece[parts[i]]
  <2>1. ASSUME NEW i \in 1..Len(parts)
        PROVE  (IF c[i].type \in {"text"} THEN <<c[i]>> ELSE <<>>) = TextPiece[parts[i]]
    <3>1. parts[i] \in OnePiece /\ parts[i].kind \in PieceKinds
      BY <1>1 DEF OnePiece
    <3>2. (Messages!TypeOf[parts[i].kind] = "text") <=> (parts[i].kind = "text")
      BY <3>1 DEF PieceKinds, Messages!TypeOf
    <3>3. c[i].type = Messages!TypeOf[parts[i].kind]
            /\ (parts[i].kind = "text" => c[i] = [type |-> "text", n |-> parts[i].n])
      BY <1>3, <3>2
    <3> QED
      BY <3>1, <3>2, <3>3 DEF TextPiece
  <2> QED
    BY <2>1
<1>5. Messages!TextOf(c) = FlattenSeq([i \in DOMAIN c |-> IF c[i].type \in {"text"} THEN <<c[i]>>
        ELSE <<>>])
  BY DEF Messages!TextOf, Messages!Of, Messages!Chosen, Messages!Each, Messages!FlattenSeq, FlattenSeq
<1>6. [i \in DOMAIN c |-> IF c[i].type \in {"text"} THEN <<c[i]>> ELSE <<>>]
        = [i \in 1..Len(parts) |-> TextPiece[parts[i]]]
  BY <1>3, <1>4
<1> QED
  BY <1>2, <1>5, <1>6 DEF Flat

(* The user's own blocks become the parts of his pieces.                              *)
LEMMA OwnIn ==
  ASSUME NEW said \in PieceList
  PROVE  Messages!Each(Messages!PartToIR, Messages!Of({"text", "image"}, MesOwn(said)))
          = Flat(PieceIn, said)
<1>1. DOMAIN said = 1..Len(said) /\ said \in Seq(OnePiece)
        /\ \A i \in 1..Len(said) : said[i] \in OnePiece
  BY ListIs DEF PieceList
<1>2. PICK own : own = [x \in OnePiece |-> Messages!Block(Messages!TypeOf[x.kind], x.n)]
  OBVIOUS
<1>3. PICK k : k = Kept(BlockOf({"text", "image"}), MesBlocks)
  OBVIOUS
<1>4. Makes(k, MesBlocks, MesBlocks)
  BY <1>3, KeptMakes
<1>5. ASSUME NEW x \in OnePiece
      PROVE  /\ own[x] \in MesBlocks /\ own[x].type = Messages!TypeOf[x.kind] /\ own[x].n = x.n
             /\ own[x].type \in {"text", "image"} <=> x.kind # "file"
             /\ own[x].type = "image" <=> x.kind = "image"
  <2>1. x.kind \in PieceKinds /\ x.n \in Nat
    BY DEF OnePiece
  <2>2. Messages!TypeOf[x.kind] \in MesTypes \ {"tool_result"}
        /\ (Messages!TypeOf[x.kind] \in {"text", "image"} <=> x.kind # "file")
        /\ (Messages!TypeOf[x.kind] = "image" <=> x.kind = "image")
    BY <2>1 DEF PieceKinds, Messages!TypeOf, MesTypes
  <2>3. Messages!Block(Messages!TypeOf[x.kind], x.n) \in MesBlocks
    BY <2>1, <2>2, PlainBlockReads DEF Roles
  <2>4. own[x] = Messages!Block(Messages!TypeOf[x.kind], x.n)
    BY <1>2
  <2> QED
    BY <2>2, <2>3, <2>4 DEF Messages!Block
<1>6. MesOwn(said) = Mapped(own, said)
  BY <1>1, <1>2 DEF MesOwn, Mapped
<1>7. PICK bs \in Seq(MesBlocks) : bs = MesOwn(said)
  BY MesOwnReads DEF Roles
<1>8. PICK kept \in Seq(MesBlocks) : kept = Messages!Of({"text", "image"}, bs) /\ kept = Flat(k, bs)
  BY <1>3, <1>4, MesOf, FlatType
<1>9. PICK m : m = [b \in MesBlocks |-> Messages!PartToIR(b)]
  OBVIOUS
<1>10. PICK e : e = [b \in MesBlocks |-> <<m[b]>>]
  OBVIOUS
<1>11. Makes(e, MesBlocks, {m[b] : b \in MesBlocks})
  BY <1>10 DEF Makes
<1>12. Messages!Each(Messages!PartToIR, kept) = Flat(e, kept)
  <2>1. DOMAIN kept = 1..Len(kept) /\ \A i \in 1..Len(kept) : kept[i] \in MesBlocks
    BY ListIs
  <2>2. OneEach(e, m, kept)
    BY <1>10, <2>1 DEF OneEach
  <2>3. Flat(e, kept) = Mapped(m, kept)
    BY <2>2, FlatMaps
  <2>4. Mapped(m, kept) = [i \in DOMAIN kept |-> Messages!PartToIR(kept[i])]
    BY <1>9, <2>1 DEF Mapped
  <2> QED
    BY <2>3, <2>4 DEF Messages!Each
<1>13. PICK v : v = [b \in MesBlocks |-> Flat(e, k[b])]
  OBVIOUS
<1>14. Flat(e, Flat(k, bs)) = Flat(v, bs)
  BY <1>4, <1>11, <1>13, FlatFlat
<1>15. PICK w : w = [x \in OnePiece |-> v[own[x]]]
  OBVIOUS
<1>16. Flat(v, bs) = Flat(w, said)
  BY <1>1, <1>6, <1>7, <1>15, FlatOfMapped
<1>17. ASSUME NEW x \in OnePiece PROVE w[x] = PieceIn[x]
  <2>1. PICK b \in MesBlocks : b = own[x]
    BY <1>5
  <2>2. w[x] = Flat(e, k[b])
    BY <1>13, <1>15, <2>1
  <2>3. k[b] = IF x.kind # "file" THEN <<b>> ELSE <<>>
    BY <1>3, <1>5, <2>1 DEF Kept, BlockOf
  <2>4. Flat(e, <<b>>) = <<m[b]>>
    <3>1. Flat(e, <<b>>) = e[b]
      BY <1>11, FlatOne
    <3> QED
      BY <1>10, <3>1
  <2>5. m[b] = [type |-> IF x.kind = "image" THEN "image_url" ELSE "text", n |-> x.n]
    BY <1>5, <1>9, <2>1 DEF Messages!PartToIR, Messages!Part
  <2> QED
    BY <2>2, <2>3, <2>4, <2>5, FlatEmpty DEF PieceIn
<1>18. Flat(w, said) = Flat(PieceIn, said)
  <2>1. \A i \in 1..Len(said) : w[said[i]] = PieceIn[said[i]]
    BY <1>1, <1>17
  <2> QED
    BY <2>1, FlatSame
<1> QED
  BY <1>7, <1>8, <1>12, <1>14, <1>16, <1>18

(* What results say, and that it is the tools' who say it.                            *)
ToolAtoms(results) == FlattenSeq([i \in 1..Len(results) |-> ResultAtoms(results[i])])
FromTools == {a \in Atoms : a.by = "tool"}
(* What a result says.                                                                *)
ReadResult == [r \in OneResult |-> ResultAtoms(r)]

(* They are by the tools.                                                             *)
LEMMA ToolAtomsAre ==
  ASSUME NEW results \in ResultList
  PROVE  /\ Makes(ReadResult, OneResult, Atoms) /\ ToolAtoms(results) = Flat(ReadResult, results)
         /\ ToolAtoms(results) \in Seq(Atoms)
         /\ \A i \in 1..Len(ToolAtoms(results)) : ToolAtoms(results)[i].by = "tool"
<1>1. results \in Seq(OneResult) /\ \A i \in 1..Len(results) : results[i] \in OneResult
  BY ListIs DEF ResultList
<1>2. ASSUME NEW r \in OneResult PROVE ResultAtoms(r) \in Seq(FromTools)
  <2>1. r.id \in Nat /\ r.parts \in PieceList
    BY DEF OneResult
  <2>2. PICK a \in FromTools : a = Atom("tool", "result", r.id)
    BY <2>1 DEF FromTools, Atom, Atoms, Roles, AtomKinds
  <2>3. PICK s : s = AtomsOf("tool", r.parts)
    OBVIOUS
  <2>4. s = [i \in 1..Len(r.parts) |-> Atom("tool", r.parts[i].kind, r.parts[i].n)] /\ s \in Seq(Atoms)
    BY <2>1, <2>3, AtomsOfType DEF Roles
  <2>5. Len(s) \in Nat /\ DOMAIN s = 1..Len(s) /\ \A i \in 1..Len(s) : s[i] \in Atoms
    BY <2>4, ListIs
  <2>6. \A i \in 1..Len(s) : s[i] \in FromTools
    BY <2>4, <2>5 DEF FromTools, Atom
  <2>7. s \in Seq(FromTools)
    <3>1. s = [i \in 1..Len(s) |-> s[i]]
      BY <2>4, <2>5
    <3> QED
      BY <2>5, <2>6, <3>1, TypedList
  <2>8. <<a>> \in Seq(FromTools)
    OBVIOUS
  <2>9. <<a>> \o s \in Seq(FromTools)
    BY <2>7, <2>8, ConcatProperties
  <2> QED
    BY <2>2, <2>3, <2>9 DEF ResultAtoms
<1>3. Makes(ReadResult, OneResult, FromTools)
  BY <1>2 DEF Makes, ReadResult
<1>4. Makes(ReadResult, OneResult, Atoms)
  BY ResultAtomsType DEF Makes, ReadResult
<1>5. ToolAtoms(results) = Flat(ReadResult, results)
  <2>1. \A i \in 1..Len(results) : ReadResult[results[i]] = ResultAtoms(results[i])
    BY <1>1 DEF ReadResult
  <2> QED
    BY <2>1 DEF ToolAtoms, Flat
<1>6. PICK s \in Seq(FromTools) : s = ToolAtoms(results)
  BY <1>1, <1>3, <1>5, FlatType
<1>7. \A i \in 1..Len(s) : s[i] \in FromTools
  BY ListIs
<1>8. s \in Seq(Atoms)
  BY SeqGrows DEF FromTools
<1> QED
  BY <1>4, <1>5, <1>6, <1>7, <1>8 DEF FromTools

(* The tool message made of a result block.                                           *)
ResultIn(b) == Messages!ToolMessage(b.n, Messages!TextOf(b.content))

(* A result block becomes a tool message that says what of it reaches the IR.         *)
LEMMA OneResultIn ==
  ASSUME NEW r \in OneResult
  PROVE  /\ ResultIn(MesResult(r)) \in TurnMessages
         /\ ReadChat[ResultIn(MesResult(r))] = Flat(In("messages"), ResultAtoms(r))
<1>1. r.id \in Nat /\ r.parts \in PieceList
  BY DEF OneResult
<1>2. PICK c \in Seq(IRParts) : c = Flat(TextPiece, r.parts)
                                 /\ ChatAtoms("tool", c) = Flat(In("messages"), AtomsOf("tool", r.parts))
  BY <1>1, TextPieceBecomes, PiecesIn DEF Roles
<1>3. PICK x : x = [role |-> "tool", content |-> c, tool_calls |-> <<>>, tool_call_id |-> r.id, reasoning |-> <<>>]
  OBVIOUS
<1>4. ResultIn(MesResult(r)) = x
  <2>1. PICK b : b = MesResult(r)
    OBVIOUS
  <2>2. b = [type |-> "tool_result", n |-> r.id, content |-> MesContent(r.parts)]
    BY <2>1 DEF MesResult, Messages!Result, Messages!Block
  <2>3. Messages!TextOf(b.content) = c /\ b.n = r.id
    BY <1>1, <1>2, <2>2, ResultTextIn
  <2> QED
    BY <1>3, <2>1, <2>3 DEF ResultIn, Messages!ToolMessage, Messages!Message, Messages!NoCall
<1>5. x \in TurnMessages /\ ReadChat[x] = <<Atom("tool", "result", r.id)>> \o ChatAtoms("tool", c)
  BY <1>1, <1>3, IRReturns
<1>6. PICK a \in Atoms : a = Atom("tool", "result", r.id)
  BY <1>1 DEF Atom, Atoms, Roles, AtomKinds
<1>7. PICK s \in Seq(Atoms) : s = AtomsOf("tool", r.parts)
  BY <1>1, AtomsOfType DEF Roles
<1>8. Flat(In("messages"), <<a>>) = <<a>>
  <2>1. Flat(In("messages"), <<a>>) = In("messages")[a]
    BY InMakes, FlatOne
  <2>2. a.kind = "result"
    BY <1>6 DEF Atom
  <2>3. [a EXCEPT !.kind = IF @ = "file" THEN "text" ELSE @] = a
    BY <2>2 DEF Atoms
  <2> QED
    BY <2>1, <2>2, <2>3 DEF In
<1>9. Flat(In("messages"), <<a>> \o s) = Flat(In("messages"), <<a>>) \o Flat(In("messages"), s)
  <2>1. <<a>> \in Seq(Atoms)
    OBVIOUS
  <2> QED
    BY <2>1, InJoins
<1> QED
  BY <1>2, <1>4, <1>5, <1>6, <1>7, <1>8, <1>9 DEF ResultAtoms

(* So do all of them.                                                                 *)
LEMMA ResultsIn ==
  ASSUME NEW results \in ResultList
  PROVE  /\ Messages!Each(ResultIn, MesResults(results)) \in Seq(TurnMessages)
         /\ Flat(ReadChat, Messages!Each(ResultIn, MesResults(results)))
               = Flat(In("messages"), ToolAtoms(results))
<1>1. results \in Seq(OneResult) /\ DOMAIN results = 1..Len(results)
        /\ \A i \in 1..Len(results) : results[i] \in OneResult
  BY ListIs DEF ResultList
<1>2. PICK F : F = [r \in OneResult |-> ResultIn(MesResult(r))]
  OBVIOUS
<1>3. F \in [OneResult -> TurnMessages]
  BY <1>2, OneResultIn
<1>4. PICK rs \in Seq(TurnMessages) : rs = Mapped(F, results)
  BY <1>1, <1>3, MappedType
<1>5. Messages!Each(ResultIn, MesResults(results)) = rs
  <2>1. PICK bs : bs = MesResults(results)
    OBVIOUS
  <2>2. DOMAIN bs = 1..Len(results) /\ \A i \in 1..Len(results) : bs[i] = MesResult(results[i])
    BY <1>1, <2>1 DEF MesResults
  <2>3. Messages!Each(ResultIn, bs) = [i \in 1..Len(results) |-> ResultIn(bs[i])]
    BY <2>2 DEF Messages!Each
  <2>4. \A i \in 1..Len(results) : F[results[i]] = ResultIn(bs[i])
    BY <1>1, <1>2, <2>2
  <2> QED
    BY <1>4, <2>1, <2>3, <2>4 DEF Mapped
<1>6. PICK v : v = [r \in OneResult |-> ReadChat[F[r]]]
  OBVIOUS
<1>7. Flat(ReadChat, rs) = Flat(v, results)
  BY <1>1, <1>4, <1>6, FlatOfMapped
<1>8. PICK w : w = [r \in OneResult |-> Flat(In("messages"), ReadResult[r])]
  OBVIOUS
<1>9. Flat(In("messages"), Flat(ReadResult, results)) = Flat(w, results)
  BY <1>1, <1>8, ToolAtomsAre, InMakes, FlatFlat
<1>10. Flat(v, results) = Flat(w, results)
  <2>1. \A i \in 1..Len(results) : v[results[i]] = w[results[i]]
    BY <1>1, <1>2, <1>6, <1>8, OneResultIn DEF ReadResult
  <2> QED
    BY <2>1, FlatSame
<1> QED
  BY <1>4, <1>5, <1>7, <1>9, <1>10, ToolAtomsAre

(* The messages of a Messages client's history: a user's turn, and an answer.         *)
UserEntry(results, said) == Messages!Entry("user", MesResults(results) \o MesOwn(said))

AnswerEntry(think, text, calls) ==
    Messages!Entry("assistant", Messages!Blocks("thinking", think) \o Messages!Blocks("text", text)
                                \o Messages!Blocks("tool_use", calls))

(* It says the turn; settled, the user's words come first.                            *)
LEMMA UserEntryIs ==
  ASSUME NEW results \in ResultList, NEW said \in PieceList
  PROVE  /\ UserEntry(results, said) \in Entries
         /\ ReadMes[UserEntry(results, said)] = Heard(results, said)
         /\ Settled("messages", Heard(results, said)) = AtomsOf("user", said) \o ToolAtoms(results)
<1>1. PICK a \in Seq(MesBlocks) : /\ a = MesResults(results)
                                  /\ Flat(ReadBlocks("user"), a) = ToolAtoms(results)
  BY MesResultsRead DEF Roles, ToolAtoms
<1>2. PICK b \in Seq(MesBlocks) : b = MesOwn(said)
        /\ Flat(ReadBlocks("user"), b) = AtomsOf("user", said)
  BY MesOwnReads DEF Roles
<1>3. a \o b \in Seq(MesBlocks)
  BY ConcatProperties
<1>4. PICK m \in Entries : m = UserEntry(results, said) /\ ReadMes[m] = Flat(ReadBlocks("user"), a \o b)
  BY <1>1, <1>2, <1>3, EntryIs DEF UserEntry, Roles
<1>5. Flat(ReadBlocks("user"), a \o b) = Flat(ReadBlocks("user"), a) \o Flat(ReadBlocks("user"), b)
  BY BlocksJoin DEF Roles
<1>6. Heard(results, said) = ToolAtoms(results) \o AtomsOf("user", said)
  BY DEF Heard, ToolAtoms
<1>7. PICK s \in Seq(Atoms) : s = AtomsOf("user", said)
  BY AtomsOfType DEF Roles
<1>8. \A i \in 1..Len(s) : s[i].by # "tool"
  <2>1. s = [i \in 1..Len(said) |-> Atom("user", said[i].kind, said[i].n)]
    BY <1>7, AtomsOfType DEF Roles
  <2>2. \A i \in DOMAIN s : s[i].by = "user"
    BY <2>1 DEF Atom
  <2> QED
    BY <2>2, ListIs
<1>9. PICK r \in Seq(Atoms) : r = ToolAtoms(results) /\ \A i \in 1..Len(r) : r[i].by = "tool"
  BY ToolAtomsAre
<1>10. Settled("messages", r \o s) = s \o r
  BY <1>8, <1>9, SettledTurn
<1> QED
  BY <1>1, <1>2, <1>4, <1>5, <1>6, <1>7, <1>9, <1>10

(* The blocks of some types of one list after another.                                *)
LEMMA OfJoins ==
  ASSUME NEW types, NEW a \in Seq(MesBlocks), NEW b \in Seq(MesBlocks)
  PROVE  Messages!Of(types, a \o b) = Messages!Of(types, a) \o Messages!Of(types, b)
<1>1. a \o b \in Seq(MesBlocks)
  BY ConcatProperties
<1>2. PICK T : T = BlockOf(types)
  OBVIOUS
<1>3. Flat(Kept(T, MesBlocks), a \o b) = Flat(Kept(T, MesBlocks), a) \o Flat(Kept(T, MesBlocks), b)
  BY KeptJoins
<1> QED
  BY <1>1, <1>2, <1>3, MesOf

(* Of result blocks.                                                                  *)
LEMMA OfResults ==
  ASSUME NEW results \in ResultList, NEW types
  PROVE  Messages!Of(types, MesResults(results))
          = IF "tool_result" \in types THEN MesResults(results) ELSE <<>>
<1>1. PICK a \in Seq(MesBlocks) : a = MesResults(results)
  BY MesResultsRead DEF Roles
<1>2. DOMAIN a = 1..Len(a) /\ \A i \in 1..Len(a) : a[i] \in MesBlocks
  BY ListIs
<1>3. AllOf("tool_result", a)
  <2>1. \A i \in 1..Len(a) : a[i] = MesResult(results[i])
    BY <1>1, <1>2 DEF MesResults
  <2>2. \A r : MesResult(r).type = "tool_result"
    <3> TAKE r
    <3>1. PICK b : b = MesResult(r)
      OBVIOUS
    <3>2. b = [type |-> "tool_result", n |-> r.id, content |-> MesContent(r.parts)]
      BY <3>1 DEF MesResult, Messages!Result, Messages!Block
    <3> QED
      BY <3>1, <3>2
  <2> QED
    BY <1>2, <2>1, <2>2 DEF AllOf
<1>4. Flat(Kept(BlockOf(types), MesBlocks), a) = IF "tool_result" \in types THEN a ELSE <<>>
  BY <1>3, AllKept
<1> QED
  BY <1>1, <1>4, MesOf

(* Of a user's own blocks.                                                            *)
LEMMA OfOwn ==
  ASSUME NEW said \in PieceList, NEW types, types \cap MesPartTypes = {}
  PROVE  Messages!Of(types, MesOwn(said)) = <<>>
<1>1. PICK b \in Seq(MesBlocks) : b = MesOwn(said)
  BY MesOwnReads DEF Roles
<1>2. said \in Seq(OnePiece)
  BY DEF PieceList
<1>3. DOMAIN said = 1..Len(said) /\ \A i \in 1..Len(said) : said[i] \in OnePiece
  BY <1>2, ListIs
<1>4. DOMAIN b = 1..Len(b)
  BY ListIs
<1>5. \A i \in 1..Len(b) : b[i] \notin BlockOf(types)
  <2>1. ASSUME NEW i \in 1..Len(b) PROVE b[i].type \in MesPartTypes
    <3>1. i \in DOMAIN said /\ b[i] = Messages!Block(Messages!TypeOf[said[i].kind], said[i].n)
      BY <1>1, <1>4 DEF MesOwn
    <3>2. said[i].kind \in PieceKinds
      BY <1>3, <3>1 DEF OnePiece
    <3> QED
      BY <3>1, <3>2 DEF Messages!Block, Messages!TypeOf, PieceKinds, MesPartTypes
  <2> QED
    BY <2>1 DEF BlockOf
<1>6. Flat(Kept(BlockOf(types), MesBlocks), b) = <<>>
  BY <1>5, KeptNone
<1> QED
  BY <1>1, <1>6, MesOf

(* A user's message becomes IR messages that say the turn settled: what the user      *)
(* says, then the results (messages_request_to_ir).                                   *)
LEMMA UserEntryIn ==
  ASSUME NEW results \in ResultList, NEW said \in PieceList, NEW m, m = UserEntry(results, said)
  PROVE  /\ Messages!MessageToIR(m) \in Seq(TurnMessages)
         /\ Flat(ReadChat, Messages!MessageToIR(m))
                 = Flat(In("messages"), Settled("messages", ReadMes[m]))
<1>1. PICK a \in Seq(MesBlocks), b \in Seq(MesBlocks) : a = MesResults(results) /\ b = MesOwn(said)
  BY MesResultsRead, MesOwnReads DEF Roles
<1>2. m.role = "user" /\ m.content = a \o b
  BY <1>1 DEF UserEntry, Messages!Entry
<1>3. \A s \in Seq(MesBlocks) : <<>> \o s = s /\ s \o <<>> = s
  BY ConcatEmptySeq
<1>4. Messages!Of({"text", "image"}, m.content) = Messages!Of({"text", "image"}, b)
  <2>1. Messages!Of({"text", "image"}, a) = <<>>
    BY <1>1, OfResults
  <2>2. PICK k \in Seq(MesBlocks) : k = Messages!Of({"text", "image"}, b)
    BY MesOf, KeptMakes, FlatType
  <2>3. Messages!Of({"text", "image"}, a \o b) = <<>> \o k
    <3>1. PICK types : types = {"text", "image"}
      OBVIOUS
    <3>2. Messages!Of(types, a \o b) = Messages!Of(types, a) \o Messages!Of(types, b)
      BY OfJoins
    <3>3. Messages!Of(types, a) = <<>> /\ Messages!Of(types, b) = k
      BY <2>1, <2>2, <3>1
    <3> QED
      BY <3>1, <3>2, <3>3
  <2>4. <<>> \o k = k
    BY <1>3
  <2> QED
    BY <1>2, <2>2, <2>3, <2>4
<1>5. Messages!Of({"tool_result"}, m.content) = a
  <2>1. Messages!Of({"tool_result"}, a) = a
    BY <1>1, OfResults
  <2>2. Messages!Of({"tool_result"}, b) = <<>>
    BY <1>1, OfOwn DEF MesPartTypes
  <2>3. Messages!Of({"tool_result"}, a \o b) = a \o <<>>
    BY <2>1, <2>2, OfJoins
  <2>4. a \o <<>> = a
    BY <1>3
  <2> QED
    BY <1>2, <2>3, <2>4
<1>6. Messages!Of({"tool_use"}, m.content) = <<>> /\ Messages!Of({"thinking"}, m.content) = <<>>
  <2>1. Messages!Of({"tool_use"}, a) = <<>> /\ Messages!Of({"thinking"}, a) = <<>>
    BY <1>1, OfResults
  <2>2. Messages!Of({"tool_use"}, b) = <<>> /\ Messages!Of({"thinking"}, b) = <<>>
    BY <1>1, OfOwn DEF MesPartTypes
  <2>3. <<>> \o <<>> = <<>>
    OBVIOUS
  <2> QED
    BY <1>2, <2>1, <2>2, <2>3, OfJoins
<1>7. Messages!Numbers(<<>>) = <<>>
  BY DEF Messages!Numbers, Messages!Each
<1>8. PICK c \in Seq(IRParts) : c = Flat(PieceIn, said)
                                 /\ ChatAtoms("user", c) = Flat(In("messages"), AtomsOf("user", said))
  BY PieceInBecomes, PiecesIn DEF Roles
<1>9. Messages!Each(Messages!PartToIR, Messages!Of({"text", "image"}, m.content)) = c
  BY <1>1, <1>4, <1>8, OwnIn
<1>10. PICK rs \in Seq(TurnMessages) : rs = Messages!Each(ResultIn, a)
                                       /\ Flat(ReadChat, rs) = Flat(In("messages"), ToolAtoms(results))
  BY <1>1, ResultsIn
<1>11. PICK x : x = [role |-> "user", content |-> c, tool_calls |-> <<>>, tool_call_id |-> 0, reasoning |-> <<>>]
  OBVIOUS
<1>12. PICK main : main = IF a # <<>> /\ c = <<>> THEN <<>> ELSE <<x>>
  OBVIOUS
<1>13. Messages!MessageToIR(m) = main \o rs
  <2>1. Messages!Thinking(m.content) = <<>>
    BY <1>6, <1>7 DEF Messages!Thinking
  <2>2. Messages!Message(m.role, c, <<>>, <<>>) = x
    BY <1>2, <1>11 DEF Messages!Message, Messages!NoCall
  <2>3. rs = Messages!Each(LAMBDA r : Messages!ToolMessage(r.n, Messages!TextOf(r.content)), a)
    BY <1>10 DEF Messages!Each, ResultIn
  <2> QED
    BY <1>5, <1>6, <1>7, <1>9, <1>12, <2>1, <2>2, <2>3 DEF Messages!MessageToIR
<1>14. x \in TurnMessages /\ ReadChat[x] = ChatAtoms("user", c)
  <2>1. PICK none \in Seq(Nat) : none = <<>>
    BY EmptySeq
  <2>2. x = [role |-> "user", content |-> c, tool_calls |-> none, tool_call_id |-> 0, reasoning |-> none]
    BY <1>11, <2>1
  <2>3. x \in TurnMessages
        /\ ReadChat[x] = Same("user", "think", none) \o ChatAtoms("user", c)
                \o Same("user", "call", none)
    BY <2>1, <2>2, IRSays
  <2>4. PICK s \in Seq(Atoms) : s = ChatAtoms("user", c)
    <3>1. Reads(Chat!Kinds, IRTypes)
      BY DEF Reads, IRTypes, Chat!Kinds, AtomKinds
    <3> QED
      BY <3>1, ContentType DEF Reads, IRParts, ChatAtoms, Roles
  <2> QED
    BY <2>1, <2>3, <2>4, SameNone, ConcatNothing
<1>15. main \in Seq(TurnMessages) /\ Flat(ReadChat, main) = ChatAtoms("user", c)
  <2>1. CASE a # <<>> /\ c = <<>>
    <3>1. <<>> \in Seq(TurnMessages)
      BY EmptySeq
    <3>2. ChatAtoms("user", c) = <<>>
      BY <2>1 DEF ChatAtoms, ContentAtoms
    <3> QED
      BY <1>12, <2>1, <3>1, <3>2, FlatEmpty
  <2>2. CASE ~(a # <<>> /\ c = <<>>)
    <3>1. Flat(ReadChat, <<x>>) = ReadChat[x]
      BY <1>14, TurnsIsChat, ReadChatMakes, FlatOne
    <3>2. <<x>> \in Seq(TurnMessages)
      BY <1>14
    <3> QED
      BY <1>12, <1>14, <2>2, <3>1, <3>2
  <2> QED
    BY <2>1, <2>2
<1>16. main \o rs \in Seq(TurnMessages)
  BY <1>15, ConcatProperties
<1>17. Flat(ReadChat, main \o rs) = Flat(ReadChat, main) \o Flat(ReadChat, rs)
  <2>1. main \in Seq(ChatMessages) /\ rs \in Seq(ChatMessages)
    BY <1>15, TurnsIsChat, SeqGrows
  <2>2. PICK rc : rc = ReadChat
    OBVIOUS
  <2>3. Makes(rc, ChatMessages, Atoms)
    BY <2>2, ReadChatMakes
  <2>4. Flat(rc, main \o rs) = Flat(rc, main) \o Flat(rc, rs)
    BY <2>1, <2>3, FlatJoins
  <2> QED
    BY <2>2, <2>4
<1>18. PICK s \in Seq(Atoms), r \in Seq(Atoms) : s = AtomsOf("user", said) /\ r = ToolAtoms(results)
  BY AtomsOfType, ToolAtomsAre DEF Roles
<1>19. Flat(In("messages"), s \o r) = Flat(In("messages"), s) \o Flat(In("messages"), r)
  BY InJoins
<1>20. Settled("messages", ReadMes[m]) = s \o r
  BY <1>18, UserEntryIs
<1> QED
  BY <1>8, <1>10, <1>13, <1>15, <1>16, <1>17, <1>18, <1>19, <1>20

(* An answer has nothing to settle, and all of it reaches the IR.                     *)
LEMMA AnsweredReads ==
  ASSUME NEW p, NEW think \in Seq(Nat), NEW text \in Seq(Nat), NEW calls \in Seq(Nat)
  PROVE  /\ Answered(think, text, calls) \in Seq(Atoms)
         /\ Settled(p, Answered(think, text, calls)) = Answered(think, text, calls)
         /\ Flat(In(p), Answered(think, text, calls)) = Answered(think, text, calls)
<1>1. PICK a \in Seq(Atoms) : a = Same("assistant", "think", think)
  BY SameType DEF Roles, AtomKinds
<1>2. PICK b \in Seq(Atoms) : b = Same("assistant", "text", text)
  BY SameType DEF Roles, AtomKinds
<1>3. PICK c \in Seq(Atoms) : c = Same("assistant", "call", calls)
  BY SameType DEF Roles, AtomKinds
<1>4. PICK ab \in Seq(Atoms) : ab = a \o b
  BY ConcatProperties
<1>5. PICK s \in Seq(Atoms) : s = ab \o c
  BY ConcatProperties
<1>6. s = Answered(think, text, calls)
  BY <1>1, <1>2, <1>3, <1>4, <1>5 DEF Answered
<1>7. Flat(In(p), s) = s
  <2>1. Flat(In(p), s) = Flat(In(p), ab) \o Flat(In(p), c)
    BY <1>5, InJoins
  <2>2. Flat(In(p), ab) = Flat(In(p), a) \o Flat(In(p), b)
    BY <1>4, InJoins
  <2>3. Flat(In(p), a) = a /\ Flat(In(p), b) = b /\ Flat(In(p), c) = c
    BY <1>1, <1>2, <1>3, InSame, SMTT(40) DEF Roles
  <2> QED
    BY <1>4, <1>5, <2>1, <2>2, <2>3
<1>8. \A i \in 1..Len(s) : s[i].by # "tool"
  <2>1. /\ \A i \in 1..Len(a) : a[i].by = "assistant"
        /\ \A i \in 1..Len(b) : b[i].by = "assistant"
        /\ \A i \in 1..Len(c) : c[i].by = "assistant"
    BY <1>1, <1>2, <1>3, SameAre
  <2>2. \A i \in 1..Len(ab) : ab[i].by = "assistant"
    BY <1>4, <2>1, ConcatProperties
  <2>3. \A i \in 1..Len(s) : s[i].by = "assistant"
    BY <1>5, <2>1, <2>2, ConcatProperties
  <2> QED
    BY <2>3
<1>9. Settled(p, s) = s
  BY <1>8, SettledOwn
<1> QED
  BY <1>6, <1>7, <1>9

(* It says the answer.                                                                *)
LEMMA AnswerEntryIs ==
  ASSUME NEW think \in Seq(Nat), NEW text \in Seq(Nat), NEW calls \in Seq(Nat)
  PROVE  /\ AnswerEntry(think, text, calls) \in Entries
         /\ ReadMes[AnswerEntry(think, text, calls)] = Answered(think, text, calls)
<1>1. PICK e : e = Messages!EntriesOf(Messages!Answer(think, text, calls, FALSE))
  OBVIOUS
<1>2. e \in Seq(Entries) /\ Flat(ReadMes, e) = Answered(think, text, calls)
  BY <1>1, MesAnswered
<1>3. e = <<AnswerEntry(think, text, calls)>>
  BY <1>1 DEF Messages!EntriesOf, Messages!Answer, AnswerEntry
<1>4. AnswerEntry(think, text, calls) \in Entries
  <2>1. {"thinking", "text", "tool_use"} \subseteq MesTypes \ {"tool_result"}
    BY DEF MesTypes
  <2>2. PICK a \in Seq(MesBlocks), b \in Seq(MesBlocks), c \in Seq(MesBlocks) :
           /\ a = Messages!Blocks("thinking", think) /\ b = Messages!Blocks("text", text)
           /\ c = Messages!Blocks("tool_use", calls)
    BY <2>1, BlocksRead DEF Roles
  <2>3. PICK ab \in Seq(MesBlocks) : ab = a \o b
    BY ConcatProperties
  <2>4. PICK o \in Seq(MesBlocks) : o = ab \o c
    BY ConcatProperties
  <2>5. AnswerEntry(think, text, calls) = Messages!Entry("assistant", o)
    BY <2>2, <2>3, <2>4 DEF AnswerEntry
  <2> QED
    BY <2>5, EntryIs DEF Roles
<1>5. Flat(ReadMes, <<AnswerEntry(think, text, calls)>>) = ReadMes[AnswerEntry(think, text, calls)]
  BY <1>4, ReadMesMakes, FlatOne
<1> QED
  BY <1>2, <1>3, <1>4, <1>5

(* Its blocks of some types.                                                          *)
LEMMA AnswerOf ==
  ASSUME NEW think \in Seq(Nat), NEW text \in Seq(Nat), NEW calls \in Seq(Nat), NEW types
  PROVE  Messages!Of(types, AnswerEntry(think, text, calls).content) =
            (IF "thinking" \in types THEN Messages!Blocks("thinking", think) ELSE <<>>)
                                 \o (IF "text" \in types THEN Messages!Blocks("text", text) ELSE <<>>)
                                 \o (IF "tool_use" \in types THEN Messages!Blocks("tool_use", calls) ELSE <<>>)
<1>1. {"thinking", "text", "tool_use"} \subseteq MesTypes \ {"tool_result"}
  BY DEF MesTypes
<1>2. PICK a \in Seq(MesBlocks) : a = Messages!Blocks("thinking", think) /\ AllOf("thinking", a)
  BY <1>1, BlocksRead, BlocksAre DEF Roles
<1>3. PICK b \in Seq(MesBlocks) : b = Messages!Blocks("text", text) /\ AllOf("text", b)
  BY <1>1, BlocksRead, BlocksAre DEF Roles
<1>4. PICK c \in Seq(MesBlocks) : c = Messages!Blocks("tool_use", calls) /\ AllOf("tool_use", c)
  BY <1>1, BlocksRead, BlocksAre DEF Roles
<1>5. PICK o \in Seq(MesBlocks) : o = a \o b \o c /\ o = AnswerEntry(think, text, calls).content
  <2>1. a \o b \in Seq(MesBlocks)
    BY ConcatProperties
  <2>2. a \o b \o c \in Seq(MesBlocks)
    BY <2>1, ConcatProperties
  <2> QED
    BY <1>2, <1>3, <1>4, <2>2 DEF AnswerEntry, Messages!Entry
<1>6. Messages!Of(types, o) = Flat(Kept(BlockOf(types), MesBlocks), o)
  BY MesOf
<1>7. PICK T : T = BlockOf(types)
  OBVIOUS
<1>8. Flat(Kept(T, MesBlocks), a \o b \o c) = Flat(Kept(T, MesBlocks), a)
        \o Flat(Kept(T, MesBlocks), b) \o Flat(Kept(T, MesBlocks), c)
  BY KeptOfThree
<1>9. /\ Flat(Kept(T, MesBlocks), a) = IF "thinking" \in types THEN a ELSE <<>>
      /\ Flat(Kept(T, MesBlocks), b) = IF "text" \in types THEN b ELSE <<>>
      /\ Flat(Kept(T, MesBlocks), c) = IF "tool_use" \in types THEN c ELSE <<>>
  BY <1>2, <1>3, <1>4, <1>7, AllKept
<1> QED
  BY <1>2, <1>3, <1>4, <1>5, <1>6, <1>7, <1>8, <1>9

(* Its texts in the IR.                                                               *)
LEMMA TextsIn ==
  ASSUME NEW text \in Seq(Nat)
  PROVE  Messages!Each(Messages!PartToIR, Messages!Blocks("text", text)) = TextParts(text)
<1>1. PICK b : b = Messages!Blocks("text", text)
  OBVIOUS
<1>2. b = [i \in DOMAIN text |-> Messages!Block("text", text[i])]
  BY <1>1 DEF Messages!Blocks, Messages!Each
<1>3. \A n : Messages!PartToIR(Messages!Block("text", n)) = [type |-> "text", n |-> n]
  BY DEF Messages!PartToIR, Messages!Block, Messages!Part
<1>4. Messages!Each(Messages!PartToIR, b) = [i \in DOMAIN text |-> Messages!PartToIR(b[i])]
  BY <1>2 DEF Messages!Each
<1> QED
  BY <1>1, <1>2, <1>3, <1>4 DEF TextParts

(* They say what they said.                                                           *)
LEMMA TextPartsRead ==
  ASSUME NEW text \in Seq(Nat), NEW by
  PROVE  TextParts(text) \in Seq(IRParts) /\ ChatAtoms(by, TextParts(text)) = Same(by, "text", text)
<1>1. TextParts(text) = [i \in DOMAIN text |-> [type |-> "text", n |-> text[i]]]
  BY DEF TextParts
<1>2. TextParts(text) \in Seq(IRParts)
  BY <1>1, ContentOfNumbers DEF IRParts, IRTypes
<1>3. ContentAtoms(Chat!Kinds, by, TextParts(text)) = Same(by, Chat!Kinds["text"], text)
  BY <1>1, NumbersRead, ZenonT(40)
<1> QED
  BY <1>2, <1>3 DEF ChatAtoms, Chat!Kinds

(* An answer in the history becomes one IR message that says it.                      *)
LEMMA AnswerEntryIn ==
  ASSUME NEW think \in Seq(Nat), NEW text \in Seq(Nat), NEW calls \in Seq(Nat),
         NEW m, m = AnswerEntry(think, text, calls)
  PROVE  /\ Messages!MessageToIR(m) \in Seq(TurnMessages)
         /\ Flat(ReadChat, Messages!MessageToIR(m))
                 = Flat(In("messages"), Settled("messages", ReadMes[m]))
<1>1. {"thinking", "text", "tool_use"} \subseteq MesTypes \ {"tool_result"}
  BY DEF MesTypes
<1>2. PICK a \in Seq(MesBlocks) : a = Messages!Blocks("thinking", think) /\ Messages!Numbers(a) = think
  BY <1>1, BlocksRead, BlocksAre DEF Roles
<1>3. PICK b \in Seq(MesBlocks) : b = Messages!Blocks("text", text)
  BY <1>1, BlocksRead DEF Roles
<1>4. PICK c \in Seq(MesBlocks) : c = Messages!Blocks("tool_use", calls) /\ Messages!Numbers(c) = calls
  BY <1>1, BlocksRead, BlocksAre DEF Roles
<1>5. PICK o : o = a \o b \o c
  OBVIOUS
<1>6. m.role = "assistant" /\ m.content = o
  BY <1>2, <1>3, <1>4, <1>5 DEF AnswerEntry, Messages!Entry
<1>7. \A s \in Seq(MesBlocks) : s \o <<>> = s /\ <<>> \o s = s
  BY ConcatEmptySeq
<1>8. \A types : Messages!Of(types, o) = (IF "thinking" \in types THEN a ELSE <<>>)
                                         \o (IF "text" \in types THEN b ELSE <<>>)
                                         \o (IF "tool_use" \in types THEN c ELSE <<>>)
  <2> TAKE types
  <2>1. o = AnswerEntry(think, text, calls).content
    BY <1>6
  <2>2. Messages!Of(types, o)
          = (IF "thinking" \in types THEN Messages!Blocks("thinking", think) ELSE <<>>)
                                \o (IF "text" \in types THEN Messages!Blocks("text", text) ELSE <<>>)
                                \o (IF "tool_use" \in types THEN Messages!Blocks("tool_use", calls) ELSE <<>>)
    BY <2>1, AnswerOf
  <2> QED
    BY <1>2, <1>3, <1>4, <2>2
<1>9. /\ Messages!Of({"thinking"}, o) = a /\ Messages!Of({"text", "image"}, o) = b
      /\ Messages!Of({"tool_use"}, o) = c /\ Messages!Of({"tool_result"}, o) = <<>>
  <2>1. /\ Messages!Of({"thinking"}, o) = a \o <<>> \o <<>>
        /\ Messages!Of({"tool_use"}, o) = <<>> \o <<>> \o c
        /\ Messages!Of({"tool_result"}, o) = <<>> \o <<>> \o <<>>
    BY <1>8
  <2>2. Messages!Of({"text", "image"}, o) = <<>> \o b \o <<>>
    BY <1>8
  <2>3. <<>> \o <<>> = <<>>
    OBVIOUS
  <2> QED
    BY <1>7, <2>1, <2>2, <2>3
<1>10. PICK x : x = [role |-> "assistant", content |-> TextParts(text), tool_calls |-> calls,
                     tool_call_id |-> 0, reasoning |-> think]
  OBVIOUS
<1>11. x \in TurnMessages
       /\ ReadChat[x] = Same("assistant", "think", think) \o ChatAtoms("assistant", TextParts(text))
                        \o Same("assistant", "call", calls)
  <2>1. TextParts(text) \in Seq(IRParts)
    BY TextPartsRead
  <2>2. x.role = "assistant" /\ x.content = TextParts(text) /\ x.tool_calls = calls
          /\ x.reasoning = think
    BY <1>10
  <2>3. x \in IRMessages
    BY <1>10, <2>1 DEF IRMessages, Roles
  <2> QED
    BY <2>2, <2>3, OwnReads DEF TurnMessages
<1>12. Messages!MessageToIR(m) = <<x>>
  <2>1. Messages!Each(Messages!PartToIR, b) = TextParts(text)
    BY <1>3, TextsIn
  <2>2. Messages!Thinking(o) = think
    BY <1>2, <1>9 DEF Messages!Thinking
  <2>3. Messages!Message("assistant", TextParts(text), calls, think) = x
    BY <1>10 DEF Messages!Message, Messages!NoCall
  <2>4. Messages!Each(LAMBDA r : Messages!ToolMessage(r.n, Messages!TextOf(r.content)), <<>>) = <<>>
    BY DEF Messages!Each
  <2>5. <<x>> \o <<>> = <<x>>
    OBVIOUS
  <2> QED
    BY <1>4, <1>6, <1>9, <2>1, <2>2, <2>3, <2>4, <2>5 DEF Messages!MessageToIR
<1>13. Flat(ReadChat, <<x>>) = ReadChat[x]
  BY <1>11, TurnsIsChat, ReadChatMakes, FlatOne, SMTT(40)
<1>14. ReadChat[x] = Answered(think, text, calls)
  BY <1>11, TextPartsRead DEF Answered
<1>15. Flat(In("messages"), Settled("messages", ReadMes[m])) = Answered(think, text, calls)
  <2>1. PICK s \in Seq(Atoms) : s = Answered(think, text, calls)
    BY AnsweredReads
  <2>2. ReadMes[m] = s
    BY <2>1, AnswerEntryIs
  <2>3. Settled("messages", s) = s /\ Flat(In("messages"), s) = s
    BY <2>1, AnsweredReads
  <2> QED
    BY <2>1, <2>2, <2>3
<1>16. <<x>> \in Seq(TurnMessages)
  BY <1>11
<1> QED
  BY <1>12, <1>13, <1>14, <1>15, <1>16

(* The messages of such a history, what the IR has of them, and what they say         *)
(* settled.                                                                           *)
GoodEntries == {UserEntry(results, said) : results \in ResultList, said \in PieceList}
               \cup {AnswerEntry(think, text, calls) : think, text, calls \in Seq(Nat)}

EntryIn == [m \in GoodEntries |-> Messages!MessageToIR(m)]
ReadSettled == [m \in GoodEntries |-> Settled("messages", ReadMes[m])]

(* They are Messages messages.                                                        *)
LEMMA GoodAreEntries == GoodEntries \subseteq Entries
  BY UserEntryIs, AnswerEntryIs DEF GoodEntries

(* All of them become IR messages that say what of them, settled, reaches the IR.     *)
LEMMA EntryInAgrees ==
  /\ Makes(EntryIn, GoodEntries, TurnMessages) /\ Makes(ReadSettled, GoodEntries, Atoms)
  /\ Agree("messages", GoodEntries, EntryIn, ReadSettled)
<1>1. ASSUME NEW m \in GoodEntries
      PROVE  /\ Messages!MessageToIR(m) \in Seq(TurnMessages)
             /\ Flat(ReadChat, Messages!MessageToIR(m))
                     = Flat(In("messages"), Settled("messages", ReadMes[m]))
  BY UserEntryIn, AnswerEntryIn DEF GoodEntries
<1>2. Makes(EntryIn, GoodEntries, TurnMessages)
  BY <1>1 DEF EntryIn, Makes
<1>3. Makes(ReadSettled, GoodEntries, Atoms)
  <2>1. ASSUME NEW m \in GoodEntries PROVE Settled("messages", ReadMes[m]) \in Seq(Atoms)
    <3>1. ReadMes[m] \in Seq(Atoms)
      BY GoodAreEntries, ReadMesMakes DEF Makes
    <3> QED
      BY <3>1, SettledType
  <2> QED
    BY <2>1 DEF ReadSettled, Makes
<1>4. Agree("messages", GoodEntries, EntryIn, ReadSettled)
  BY <1>1 DEF Agree, EntryIn, ReadSettled
<1> QED
  BY <1>2, <1>3, <1>4

(* The history of a Messages client, and what it says settled.                        *)
GoodMes == {d \in MesDocs : d.messages \in Seq(GoodEntries)}
MesShown(d) == SystemAtoms(d.system) \o Flat(ReadSettled, d.messages)

(* A Messages history in the IR says what of it, settled, reaches the IR.             *)
LEMMA MesIn ==
  ASSUME NEW d \in GoodMes
  PROVE  /\ Splits(Messages!ToIR(d))
         /\ Flat(ReadChat, Messages!ToIR(d)) = Flat(In("messages"), MesShown(d))
<1>1. d.system \in Seq(FrontParts) /\ d.messages \in Seq(GoodEntries)
  BY DEF GoodMes, MesDocs
<1>2. PICK c \in Seq(FrontParts), es \in Seq(GoodEntries) : c = d.system /\ es = d.messages
  BY <1>1
<1>3. PICK f \in Seq(FrontMessages) : f = Opening(c) /\ Flat(ReadChat, f) = SystemAtoms(c)
  BY OpeningReads
<1>4. PICK sys \in Seq(Atoms) : sys = SystemAtoms(c) /\ Flat(In("messages"), sys) = sys
  BY SystemIn
<1>5. /\ Flat(EntryIn, es) \in Seq(TurnMessages)
      /\ Flat(ReadChat, f \o Flat(EntryIn, es)) = Flat(In("messages"), sys \o Flat(ReadSettled, es))
  BY <1>3, <1>4, EntryInAgrees, ClientReads
<1>6. Messages!ToIR(d) = f \o Flat(EntryIn, es)
  <2>1. DOMAIN es = 1..Len(es) /\ \A i \in 1..Len(es) : es[i] \in GoodEntries
    BY ListIs
  <2>2. Messages!Each(Messages!MessageToIR, es) = [i \in 1..Len(es) |-> EntryIn[es[i]]]
    BY <2>1 DEF Messages!Each, EntryIn
  <2>3. Messages!FlattenSeq(Messages!Each(Messages!MessageToIR, es)) = Flat(EntryIn, es)
    BY <2>2 DEF Flat, Messages!FlattenSeq, FlattenSeq
  <2>4. f = IF d.system = <<>> THEN <<>> ELSE <<Messages!Message("system", d.system, <<>>, <<>>)>>
    BY <1>2, <1>3 DEF Opening, Messages!Message, Messages!NoCall
  <2> QED
    BY <1>2, <2>3, <2>4 DEF Messages!ToIR
<1> QED
  BY <1>2, <1>3, <1>4, <1>5, <1>6 DEF Splits, MesShown
----------------------------------------------------------------------------------
(* What the clients write, and are given, keeps their histories what they are.        *)

(* What a Chat client writes of a user's turn are such messages.                      *)
LEMMA ChatSaidGood ==
  ASSUME NEW results \in ResultList, NEW said \in PieceList
  PROVE  Chat!Said(results, said) \in Seq(ChatTurns)
<1>1. results \in Seq(OneResult)
  BY DEF ResultList
<1>2. Len(results) \in Nat /\ DOMAIN results = 1..Len(results)
        /\ \A i \in 1..Len(results) : results[i] \in OneResult
  BY <1>1, ListIs
<1>3. PICK a : a = ChatResults(results)
  OBVIOUS
<1>4. a \in Seq(ChatTurns)
  <2>1. a = [i \in 1..Len(results) |-> a[i]]
        /\ \A i \in 1..Len(results) : a[i]
                = Chat!ToolMessage(results[i].id, ChatContent(results[i].parts))
    BY <1>2, <1>3 DEF ChatResults
  <2>2. \A i \in 1..Len(results) : a[i] \in ChatTurns
    <3>1. ASSUME NEW r \in OneResult
          PROVE Chat!ToolMessage(r.id, ChatContent(r.parts)) \in ChatTurns
      <4>1. PICK m : m = Chat!ToolMessage(r.id, ChatContent(r.parts))
        OBVIOUS
      <4>2. m \in ChatMessages
        BY <4>1, ChatResultReads
      <4>3. m.role = "tool" /\ m.tool_calls = <<>> /\ m.reasoning = <<>>
        BY <4>1 DEF Chat!ToolMessage, Chat!Message
      <4> QED
        BY <4>1, <4>2, <4>3 DEF ChatTurns
    <3> QED
      BY <1>2, <2>1, <3>1
  <2> QED
    BY <1>2, <2>1, <2>2, TypedList
<1>5. PICK own : own = IF said = <<>> THEN <<>>
        ELSE <<Chat!Message("user", ChatContent(said), <<>>, <<>>)>>
  OBVIOUS
<1>6. own \in Seq(ChatTurns)
  <2>1. PICK m : m = Chat!Message("user", ChatContent(said), <<>>, <<>>)
    OBVIOUS
  <2>2. m \in ChatMessages
    BY <2>1, ChatContentReads, ChatSaysOnly DEF Roles
  <2>3. m.role = "user" /\ m.tool_calls = <<>> /\ m.reasoning = <<>>
    BY <2>1 DEF Chat!Message
  <2>4. m \in ChatTurns
    BY <2>2, <2>3 DEF ChatTurns
  <2>5. <<m>> \in Seq(ChatTurns) /\ <<>> \in Seq(ChatTurns)
    BY <2>4
  <2> QED
    BY <1>5, <2>1, <2>5
<1>7. Chat!Said(results, said) = a \o own
  BY <1>3, <1>5, Zenon DEF Chat!Said, Chat!Each, ChatResults, ChatContent
<1> QED
  BY <1>4, <1>6, <1>7, ConcatProperties

(* A result of words, as an item.                                                     *)
LEMMA ResultGood ==
  ASSUME NEW r \in OneResult, OnlyText(r)
  PROVE  ResResult(r) \in GoodItems
<1>1. PICK it \in Items : it = ResResult(r)
  BY ResResultReads
<1>2. r.parts \in Seq(OnePiece)
  BY DEF OneResult, PieceList
<1>3. Len(r.parts) \in Nat /\ DOMAIN r.parts = 1..Len(r.parts)
        /\ \A i \in 1..Len(r.parts) : r.parts[i] \in OnePiece
  BY <1>2, ListIs
<1>4. PICK c : c = Responses!Parts("text", Responses!Numbers(r.parts))
  OBVIOUS
<1>5. it.type = "function_call_output" /\ it.role = "tool" /\ it.content = c
  BY <1>1, <1>4 DEF ResResult, Responses!Item
<1>6. c = [i \in 1..Len(r.parts) |-> c[i]] /\ \A i \in 1..Len(r.parts) : c[i] \in FrontParts
  <2>1. c = [i \in 1..Len(r.parts) |-> [type |-> "text", n |-> r.parts[i].n]]
    BY <1>3, <1>4 DEF Responses!Parts, Responses!Numbers, Responses!Each, Responses!Part
  <2>2. \A i \in 1..Len(r.parts) : r.parts[i].n \in Nat
    BY <1>3 DEF OnePiece
  <2> QED
    BY <2>1, <2>2 DEF FrontParts, PartsIn
<1>7. c \in Seq(FrontParts)
  BY <1>3, <1>6, TypedList
<1> QED
  BY <1>1, <1>5, <1>7 DEF GoodItems, OutputItems

(* Content, as an item.                                                               *)
LEMMA WordsGood ==
  ASSUME NEW by \in {"user", "assistant"}, NEW content \in Seq(WordParts), NEW it,
         it = Responses!Item("message", by, content, Responses!NoCall)
  PROVE  it \in GoodItems
<1>1. content \in Seq(ResParts)
  <2>1. WordParts \subseteq ResParts
    BY DEF WordParts, ResParts, PartsIn, WordTypes, ResTypes
  <2> QED
    BY <2>1, SeqGrows
<1>2. it \in Items /\ it.type = "message" /\ it.role = by /\ it.content = content
  BY <1>1 DEF Responses!Item, Responses!NoCall, Items, Roles
<1> QED
  BY <1>2 DEF GoodItems, WordItems

(* What a Responses client writes of a user's turn are such items.                    *)
LEMMA ResSaidGood ==
  ASSUME NEW results \in ResultList, \A i \in 1..Len(results) : OnlyText(results[i]),
         NEW said \in PieceList
  PROVE  Responses!Said(results, said) \in Seq(GoodItems)
<1>1. results \in Seq(OneResult)
  BY DEF ResultList
<1>2. Len(results) \in Nat /\ DOMAIN results = 1..Len(results)
        /\ \A i \in 1..Len(results) : results[i] \in OneResult
  BY <1>1, ListIs
<1>3. PICK a : a = ResResults(results)
  OBVIOUS
<1>4. a \in Seq(GoodItems)
  <2>1. a = [i \in 1..Len(results) |-> a[i]] /\ \A i \in 1..Len(results) : a[i] = ResResult(results[i])
    BY <1>2, <1>3 DEF ResResults
  <2>2. \A i \in 1..Len(results) : a[i] \in GoodItems
    BY <1>2, <2>1, ResultGood
  <2> QED
    BY <1>2, <2>1, <2>2, TypedList
<1>5. PICK own : own = IF said = <<>> THEN <<>>
                       ELSE <<Responses!Item("message", "user", ResContent(said), Responses!NoCall)>>
  OBVIOUS
<1>6. own \in Seq(GoodItems)
  <2>1. ResContent(said) = [i \in DOMAIN said |-> [type |-> Responses!TypeOf[said[i].kind], n |-> said[i].n]]
    BY DEF ResContent, Responses!Part
  <2>2. Writes(Responses!TypeOf, Responses!Kinds, WordTypes)
    BY DEF Writes, PieceKinds, Responses!TypeOf, Responses!Kinds, WordTypes
  <2>3. PICK c \in Seq(WordParts) : c = ResContent(said)
    BY <2>1, <2>2, ContentOfPieces DEF WordParts, Roles
  <2>4. PICK it : it = Responses!Item("message", "user", c, Responses!NoCall)
    OBVIOUS
  <2>5. it \in GoodItems
    BY <2>4, WordsGood
  <2>6. <<it>> \in Seq(GoodItems) /\ <<>> \in Seq(GoodItems)
    BY <2>5
  <2> QED
    BY <1>5, <2>3, <2>4, <2>6
<1>7. Responses!Said(results, said) = a \o own
  BY <1>3, <1>5, Zenon DEF Responses!Said, Responses!Each, ResResults, ResResult, ResContent
<1> QED
  BY <1>4, <1>6, <1>7, ConcatProperties

(* So is the output it is given.                                                      *)
LEMMA ResOutputGood ==
  ASSUME NEW think \in Seq(Nat), NEW text \in Seq(Nat), NEW calls \in Seq(Nat), NEW P \in BOOLEAN
  PROVE  ResOutput(think, text, calls, P) \in Seq(GoodItems)
<1>1. PICK a : a = IF think = <<>> THEN <<>> ELSE <<Responses!Reasoning(think)>>
  OBVIOUS
<1>2. a \in Seq(GoodItems)
  <2>1. PICK c : c = Responses!Parts("summary_text", think)
    OBVIOUS
  <2>2. c = [i \in DOMAIN think |-> [type |-> "summary_text", n |-> think[i]]]
    BY <2>1 DEF Responses!Parts, Responses!Each, Responses!Part
  <2>3. c \in Seq(ThoughtParts) /\ c \in Seq(ResParts)
    BY <2>2, ContentOfNumbers DEF ThoughtParts, ResParts, ResTypes
  <2>4. PICK it : it = Responses!Reasoning(think)
    OBVIOUS
  <2>5. it = [type |-> "reasoning", role |-> "assistant", content |-> c, call_id |-> 0]
    BY <2>1, <2>4 DEF Responses!Reasoning, Responses!Item, Responses!NoCall
  <2>6. it \in GoodItems
    BY <2>3, <2>5 DEF GoodItems, ThoughtItems, Items, Roles
  <2>7. <<it>> \in Seq(GoodItems) /\ <<>> \in Seq(GoodItems)
    BY <2>6
  <2> QED
    BY <1>1, <2>4, <2>7
<1>3. PICK b : b = IF P THEN <<>>
                   ELSE <<Responses!Item("message", "assistant", Responses!Parts("output_text", text), Responses!NoCall)>>
  OBVIOUS
<1>4. b \in Seq(GoodItems)
  <2>1. PICK c : c = Responses!Parts("output_text", text)
    OBVIOUS
  <2>2. c = [i \in DOMAIN text |-> [type |-> "output_text", n |-> text[i]]]
    BY <2>1 DEF Responses!Parts, Responses!Each, Responses!Part
  <2>3. c \in Seq(WordParts)
    BY <2>2, ContentOfNumbers DEF WordParts, WordTypes
  <2>4. PICK it : it = Responses!Item("message", "assistant", c, Responses!NoCall)
    OBVIOUS
  <2>5. it \in GoodItems
    BY <2>3, <2>4, WordsGood
  <2>6. <<it>> \in Seq(GoodItems) /\ <<>> \in Seq(GoodItems)
    BY <2>5
  <2> QED
    BY <1>3, <2>1, <2>4, <2>6
<1>5. PICK d : d = Responses!Each(Responses!Call, calls)
  OBVIOUS
<1>6. d \in Seq(GoodItems)
  <2>1. Len(calls) \in Nat /\ DOMAIN calls = 1..Len(calls) /\ \A i \in 1..Len(calls) : calls[i] \in Nat
    BY ListIs
  <2>2. d = [i \in 1..Len(calls) |-> d[i]] /\ \A i \in 1..Len(calls) : d[i] = Responses!Call(calls[i])
    BY <1>5, <2>1 DEF Responses!Each
  <2>3. ASSUME NEW n \in Nat PROVE Responses!Call(n) \in GoodItems
    <3>1. PICK it : it = Responses!Call(n)
      OBVIOUS
    <3>2. it.type = "function_call" /\ it.role = "assistant" /\ it.content = <<>>
      BY <3>1 DEF Responses!Call, Responses!Item
    <3>3. it \in Items
      BY <3>1, CallReads
    <3> QED
      BY <3>1, <3>2, <3>3 DEF GoodItems, CallItems
  <2>4. \A i \in 1..Len(calls) : d[i] \in GoodItems
    BY <2>1, <2>2, <2>3
  <2> QED
    BY <2>1, <2>2, <2>4, TypedList
<1>7. PICK ab \in Seq(GoodItems) : ab = a \o b
  BY <1>2, <1>4, ConcatProperties
<1>8. ab \o d \in Seq(GoodItems)
  BY <1>6, ConcatProperties
<1> QED
  BY <1>1, <1>3, <1>5, <1>7, <1>8 DEF ResOutput

(* The answer in the IR is one response, by whatever protocol it came.                *)
LEMMA ToOneResponse ==
  ASSUME NEW mode \in Protocols, NEW think \in Seq(Nat), NEW text \in Seq(Nat),
         NEW calls \in Seq(Nat),
         NEW cut \in BOOLEAN
  PROVE  AnswerToIR(Answer(mode, think, text, calls, cut), mode) = TheResponse(think, text, calls, cut)
<1>1. CASE mode = "chat"
  BY <1>1, ChatAnswerToIR DEF AnswerToIR, Answer
<1>2. CASE mode = "responses"
  BY <1>2, ResAnswerToIR DEF AnswerToIR, Answer
<1>3. CASE mode = "messages"
  BY <1>3, MesAnswerToIR DEF AnswerToIR, Answer
<1> QED
  BY <1>1, <1>2, <1>3 DEF Protocols

(* What the client is given, by an upstream of whatever protocol.                     *)
IsGiven(p, given, think, text, calls, cut) ==
    /\ p = "responses" => \E P \in BOOLEAN : given.output = ResOutput(think, text, calls, P)
    /\ p # "responses" => given = Answer(p, think, text, calls, cut)

(* It is, whatever the upstream speaks.                                               *)
LEMMA GivenIs ==
  ASSUME NEW p \in Protocols, NEW mode \in Protocols,
         NEW think \in Seq(Nat), NEW text \in Seq(Nat), NEW calls \in Seq(Nat), NEW cut \in BOOLEAN,
         NEW given, given = AnswerToInbound(p, mode, Answer(mode, think, text, calls, cut))
  PROVE  IsGiven(p, given, think, text, calls, cut)
<1>1. PICK r : r = TheResponse(think, text, calls, cut)
  OBVIOUS
<1>2. AnswerToIR(Answer(mode, think, text, calls, cut), mode) = r
  BY <1>1, ToOneResponse
<1>3. CASE p = "responses"
  <2>1. CASE p = mode
    <3>1. PICK P \in BOOLEAN : P = (text = <<>>)
      OBVIOUS
    <3>2. PICK o : o = ResOutput(think, text, calls, P)
      OBVIOUS
    <3>3. Responses!Answer(think, text, calls, cut)
            = [output |-> o, status |-> IF cut THEN "incomplete" ELSE "completed"]
      BY <3>1, <3>2 DEF Responses!Answer, ResOutput
    <3>4. given = Responses!Answer(think, text, calls, cut)
      BY <1>3, <2>1 DEF AnswerToInbound, Answer
    <3>5. given.output = o
      BY <3>3, <3>4
    <3> QED
      BY <1>3, <3>1, <3>2, <3>5 DEF IsGiven
  <2>2. CASE p # mode
    <3>1. given = Responses!AnswerFromIR(r)
      BY <1>2, <1>3, <2>2 DEF AnswerToInbound
    <3>2. PICK P \in BOOLEAN : P = (text = <<>> /\ calls # <<>>)
      OBVIOUS
    <3>3. PICK o : o = ResOutput(think, text, calls, P)
      OBVIOUS
    <3>4. Responses!AnswerFromIR(r)
            = [output |-> o, status |-> IF cut THEN "incomplete" ELSE "completed"]
      BY <1>1, <3>2, <3>3, ResAnswerFromIR
    <3>5. given.output = o
      BY <3>1, <3>4
    <3> QED
      BY <1>3, <3>2, <3>3, <3>5 DEF IsGiven
  <2> QED
    BY <2>1, <2>2
<1>4. CASE p = "chat"
  <2>1. CASE p = mode
    BY <1>4, <2>1 DEF AnswerToInbound, IsGiven
  <2>2. CASE p # mode
    <3>1. given = Chat!AnswerFromIR(r)
      BY <1>2, <1>4, <2>2 DEF AnswerToInbound
    <3>2. Chat!AnswerFromIR(r) = Answer(p, think, text, calls, cut)
      BY <1>1, <1>4, ChatAnswerFromIR DEF Answer
    <3> QED
      BY <1>4, <3>1, <3>2 DEF IsGiven
  <2> QED
    BY <2>1, <2>2
<1>5. CASE p = "messages"
  <2>1. CASE p = mode
    BY <1>5, <2>1 DEF AnswerToInbound, IsGiven
  <2>2. CASE p # mode
    <3>1. given = Messages!AnswerFromIR(r)
      BY <1>2, <1>5, <2>2 DEF AnswerToInbound
    <3>2. Messages!AnswerFromIR(r) = Answer(p, think, text, calls, cut)
      BY <1>1, <1>5, MesAnswerFromIR DEF Answer
    <3> QED
      BY <1>5, <3>1, <3>2 DEF IsGiven
  <2> QED
    BY <2>1, <2>2
<1> QED
  BY <1>3, <1>4, <1>5 DEF Protocols, IsGiven

----------------------------------------------------------------------------------
(* For every protocol, the histories a client can have, what may be added to them,    *)
(* and what both show.                                                                *)
Good(p) == IF p = "chat" THEN GoodChat ELSE IF p = "responses" THEN GoodRes ELSE GoodMes
GoodIn(p) == IF p = "chat" THEN Seq(ChatTurns) ELSE IF p = "responses" THEN Seq(GoodItems)
        ELSE Seq(GoodEntries)
Shown(p, d) == IF p = "messages" THEN MesShown(d) ELSE Read(p, d)
ShownOf(p, e) == IF p = "messages" THEN Flat(ReadSettled, e) ELSE Says(p, e)

(* A history that a client can have says, in the IR, what of it reaches the IR.       *)
LEMMA ClientIn ==
  ASSUME NEW p \in Protocols, NEW d \in Good(p)
  PROVE  Splits(ToIR(p, d)) /\ Flat(ReadChat, ToIR(p, d)) = Flat(In(p), Shown(p, d))
<1>1. CASE p = "chat"
  BY <1>1, ChatIn DEF Good, Shown, Read, ToIR
<1>2. CASE p = "responses"
  BY <1>2, ResIn DEF Good, Shown, Read, ToIR
<1>3. CASE p = "messages"
  BY <1>3, MesIn DEF Good, Shown, ToIR
<1> QED
  BY <1>1, <1>2, <1>3 DEF Protocols

(* A conversation's beginning is such a history.                                      *)
LEMMA EmptyGood ==
  ASSUME NEW p \in Protocols, NEW system \in Seq(Nat)
  PROVE  Empty(p, system) \in Good(p) /\ Shown(p, Empty(p, system)) = Same("system", "text", system)
<1>1. CASE p = "chat"
  <2>1. Chat!Empty(system) \in ChatDocs
    BY ChatEmpty DEF ChatDocs
  <2>2. PICK c : c = Chat!Parts("text", system)
    OBVIOUS
  <2>3. c = [i \in DOMAIN system |-> [type |-> "text", n |-> system[i]]]
    BY <2>2 DEF Chat!Parts, Chat!Each, Chat!Part
  <2>4. c \in Seq(FrontParts)
    BY <2>3, FrontOf
  <2>5. (c = <<>>) <=> (system = <<>>)
    <3>1. DOMAIN c = 1..Len(system) /\ DOMAIN system = 1..Len(system) /\ Len(system) \in Nat
      BY <2>3, ListIs
    <3> QED
      BY <2>3, <3>1, <2>4, EmptySeq
  <2>6. PICK f \in Seq(FrontMessages) : f = Opening(c)
    BY <2>4, OpeningReads
  <2>7. Chat!Empty(system).messages = f
    <3>1. Chat!Empty(system).messages = IF system = <<>> THEN <<>>
            ELSE <<Chat!Message("system", c, <<>>, <<>>)>>
      BY <2>2 DEF Chat!Empty
    <3>2. Chat!Message("system", c, <<>>, <<>>)
            = [role |-> "system", content |-> c, tool_calls |-> <<>>, tool_call_id |-> 0, reasoning |-> <<>>]
      BY DEF Chat!Message, Chat!NoCall
    <3> QED
      BY <2>5, <2>6, <3>1, <3>2 DEF Opening
  <2>8. PICK es \in Seq(ChatTurns) : es = <<>>
    BY EmptySeq
  <2>9. f \o es = f
    BY <2>8, ConcatEmptySeq
  <2>10. Chat!Empty(system) \in GoodChat
    BY <2>1, <2>6, <2>7, <2>8, <2>9 DEF GoodChat
  <2> QED
    BY <1>1, <2>10, ChatEmpty DEF Empty, Good, Shown, Read
<1>2. CASE p = "responses"
  <2>1. <<>> \in Seq(GoodItems)
    BY EmptySeq
  <2>2. Responses!Empty(system).input = <<>>
    BY DEF Responses!Empty
  <2>3. Responses!Empty(system) \in GoodRes
    BY <2>1, <2>2, ResEmpty DEF GoodRes
  <2> QED
    BY <1>2, <2>3, ResEmpty DEF Empty, Good, Shown, Read
<1>3. CASE p = "messages"
  <2>1. <<>> \in Seq(GoodEntries)
    BY EmptySeq
  <2>2. PICK d \in MesDocs : d = Messages!Empty(system)
    BY MesEmpty
  <2>3. d.messages = <<>> /\ d.system = Messages!Parts("text", system)
    BY <2>2 DEF Messages!Empty
  <2>4. d \in GoodMes
    BY <2>1, <2>2, <2>3 DEF GoodMes
  <2>5. d.system = [i \in DOMAIN system |-> [type |-> "text", n |-> system[i]]]
    BY <2>3 DEF Messages!Parts, Messages!Each, Messages!Part
  <2>6. PICK s \in Seq(Atoms) : s = Same("system", "text", system)
    BY SameType DEF Roles, AtomKinds
  <2>7. SystemAtoms(d.system) = s
    BY <2>5, <2>6, FrontOf
  <2>8. MesShown(d) = s
    BY <2>3, <2>7, FlatEmpty, ConcatNothing DEF MesShown
  <2> QED
    BY <1>3, <2>2, <2>4, <2>6, <2>8 DEF Empty, Good, Shown
<1> QED
  BY <1>1, <1>2, <1>3 DEF Protocols

(* Such histories are documents.                                                      *)
LEMMA GoodIsDoc == \A p \in Protocols : Good(p) \subseteq Docs(p) /\ GoodIn(p) \subseteq EntriesIn(p)
<1> TAKE p \in Protocols
<1>1. Good(p) \subseteq Docs(p)
  BY DEF Good, Docs, GoodChat, GoodRes, GoodMes, Protocols
<1>2. ASSUME NEW e \in GoodIn(p) PROVE e \in EntriesIn(p)
  <2>1. ChatTurns \subseteq ChatMessages
    BY DEF ChatTurns
  <2>2. CASE p = "chat"
    <3>1. PICK s \in Seq(ChatTurns) : s = e
      BY <1>2, <2>2 DEF GoodIn
    <3>2. s \in Seq(ChatMessages)
      BY <2>1, SeqGrows
    <3> QED
      BY <2>2, <3>1, <3>2 DEF EntriesIn
  <2>3. CASE p = "responses"
    <3>1. PICK s \in Seq(GoodItems) : s = e
      BY <1>2, <2>3 DEF GoodIn
    <3>2. s \in Seq(Items)
      BY GoodAreItems, SeqGrows
    <3> QED
      BY <2>3, <3>1, <3>2 DEF EntriesIn
  <2>4. CASE p = "messages"
    <3>1. PICK s \in Seq(GoodEntries) : s = e
      BY <1>2, <2>4 DEF GoodIn
    <3>2. s \in Seq(Entries)
      BY GoodAreEntries, SeqGrows
    <3> QED
      BY <2>4, <3>1, <3>2 DEF EntriesIn
  <2> QED
    BY <2>2, <2>3, <2>4 DEF Protocols
<1> QED
  BY <1>1, <1>2

(* What is added to such a history is shown after what it showed.                     *)
LEMMA AddGood ==
  ASSUME NEW p \in Protocols, NEW d \in Good(p), NEW e \in GoodIn(p)
  PROVE  Add(p, d, e) \in Good(p) /\ Shown(p, Add(p, d, e)) = Shown(p, d) \o ShownOf(p, e)
<1>0. d \in Docs(p) /\ e \in EntriesIn(p)
  BY GoodIsDoc
<1>1. CASE p = "chat"
  <2>1. d \in ChatDocs /\ e \in Seq(ChatTurns) /\ e \in Seq(ChatMessages)
    BY <1>0, <1>1 DEF Docs, EntriesIn, GoodIn
  <2>2. PICK f \in Seq(FrontMessages), es \in Seq(ChatTurns) : d.messages = f \o es
    BY <1>1 DEF Good, GoodChat
  <2>3. PICK n \in ChatDocs : n = Chat!Add(d, e)
    BY <2>1, ChatAdd DEF ChatDocs
  <2>4. n.messages = (f \o es) \o e
    BY <2>1, <2>2, <2>3 DEF Chat!Add, ChatDocs
  <2>5. es \o e \in Seq(ChatTurns)
    BY <2>1, ConcatProperties
  <2>6. (f \o es) \o e = f \o (es \o e)
    <3>1. f \in Seq(ChatMessages)
      BY FrontIsChat
    <3>2. es \in Seq(ChatMessages)
      <4>1. ChatTurns \subseteq ChatMessages
        BY DEF ChatTurns
      <4> QED
        BY <4>1, SeqGrows
    <3>3. PICK g \in Seq(ChatMessages) : g = e
      BY <2>1
    <3>4. (f \o es) \o g = f \o (es \o g)
      BY <3>1, <3>2, ConcatAssociative, SMTT(40)
    <3> QED
      BY <3>3, <3>4
  <2>7. n \in GoodChat
    BY <2>4, <2>5, <2>6 DEF GoodChat
  <2>8. Read(p, Add(p, d, e)) = Read(p, d) \o Says(p, e)
    BY <1>0, AddReads
  <2> QED
    BY <1>1, <2>3, <2>7, <2>8 DEF Add, Good, Shown, ShownOf
<1>2. CASE p = "responses"
  <2>1. d \in ResDocs /\ d.input \in Seq(GoodItems) /\ e \in Seq(GoodItems)
    BY <1>2 DEF Good, GoodRes, GoodIn
  <2>2. PICK n \in ResDocs : n = Responses!Add(d, e)
    BY <1>0, <1>2, <2>1, ResAdd DEF EntriesIn
  <2>3. n.input = d.input \o e
    BY <2>1, <2>2 DEF Responses!Add, ResDocs
  <2>4. n \in GoodRes
    BY <2>1, <2>3, ConcatProperties DEF GoodRes
  <2>5. Read(p, Add(p, d, e)) = Read(p, d) \o Says(p, e)
    BY <1>0, AddReads
  <2> QED
    BY <1>2, <2>2, <2>4, <2>5 DEF Add, Good, Shown, ShownOf
<1>3. CASE p = "messages"
  <2>1. d \in MesDocs /\ d.messages \in Seq(GoodEntries) /\ e \in Seq(GoodEntries)
    BY <1>3 DEF Good, GoodMes, GoodIn
  <2>2. PICK n \in MesDocs : n = Messages!Add(d, e)
    BY <1>0, <1>3, <2>1, MesAdd DEF EntriesIn
  <2>3. n.messages = d.messages \o e /\ n.system = d.system
    BY <2>1, <2>2 DEF Messages!Add, MesDocs
  <2>4. n \in GoodMes
    BY <2>1, <2>3, ConcatProperties DEF GoodMes
  <2>5. PICK es \in Seq(GoodEntries), add \in Seq(GoodEntries) : es = d.messages /\ add = e
    BY <2>1
  <2>6. Flat(ReadSettled, es \o add) = Flat(ReadSettled, es) \o Flat(ReadSettled, add)
    BY EntryInAgrees, FlatJoins
  <2>7. PICK sys \in Seq(Atoms) : sys = SystemAtoms(d.system)
    BY <2>1, FrontType DEF MesDocs
  <2>8. Flat(ReadSettled, es) \in Seq(Atoms) /\ Flat(ReadSettled, add) \in Seq(Atoms)
    BY EntryInAgrees, FlatType
  <2>9. MesShown(n) = MesShown(d) \o Flat(ReadSettled, add)
    <3>1. PICK a \in Seq(Atoms), b \in Seq(Atoms) : a = Flat(ReadSettled, es)
            /\ b = Flat(ReadSettled, add)
      BY <2>8
    <3>2. (sys \o a) \o b = sys \o (a \o b)
      BY AtomsAssociative
    <3>3. MesShown(d) = sys \o a
      BY <2>5, <2>7, <3>1 DEF MesShown
    <3>4. n.messages = es \o add /\ SystemAtoms(n.system) = sys
      BY <2>3, <2>5, <2>7
    <3>5. MesShown(n) = sys \o (a \o b)
      BY <2>6, <3>1, <3>4 DEF MesShown
    <3> QED
      BY <3>1, <3>2, <3>3, <3>5
  <2> QED
    BY <1>3, <2>2, <2>4, <2>5, <2>9 DEF Add, Good, Shown, ShownOf
<1> QED
  BY <1>1, <1>2, <1>3 DEF Protocols

(* One message, as it is shown.                                                       *)
LEMMA OneEntryShown ==
  ASSUME NEW m \in GoodEntries
  PROVE  <<m>> \in GoodIn("messages") /\ ShownOf("messages", <<m>>) = Settled("messages", ReadMes[m])
<1>1. Flat(ReadSettled, <<m>>) = ReadSettled[m]
  BY EntryInAgrees, FlatOne
<1>2. <<m>> \in Seq(GoodEntries)
  OBVIOUS
<1> QED
  BY <1>1, <1>2 DEF GoodIn, ShownOf, ReadSettled

(* A user's turn is something such a history can be added, and is shown settled.      *)
LEMMA SaidGood ==
  ASSUME NEW p \in Protocols, NEW results \in ResultList, NEW said \in PieceList,
         p = "responses" => \A i \in 1..Len(results) : OnlyText(results[i])
  PROVE  Said(p, results, said) \in GoodIn(p)
         /\ ShownOf(p, Said(p, results, said)) = Settled(p, Heard(results, said))
<1>1. CASE p = "messages"
  <2>1. Said(p, results, said) = <<UserEntry(results, said)>>
    BY <1>1, Zenon
       DEF Said, Messages!Said, Messages!Each, MesResults, MesResult, MesContent, MesOwn, UserEntry
  <2>2. PICK m \in GoodEntries : m = UserEntry(results, said)
    BY DEF GoodEntries
  <2>3. ReadMes[m] = Heard(results, said)
    BY <2>2, UserEntryIs
  <2> QED
    BY <1>1, <2>1, <2>2, <2>3, OneEntryShown
<1>2. CASE p # "messages"
  <2>1. Says(p, Said(p, results, said)) = Heard(results, said)
    BY SaidReads
  <2>2. CASE p = "chat"
    BY <2>1, <2>2, ChatSaidGood DEF Said, GoodIn, ShownOf, Settled
  <2>3. CASE p = "responses"
    BY <2>1, <2>3, ResSaidGood DEF Said, GoodIn, ShownOf, Settled
  <2> QED
    BY <1>2, <2>2, <2>3 DEF Protocols
<1> QED
  BY <1>1, <1>2

(* So is an answer.                                                                   *)
LEMMA AnswerGood ==
  ASSUME NEW p \in Protocols, NEW mode \in Protocols,
         NEW think \in Seq(Nat), NEW text \in Seq(Nat), NEW calls \in Seq(Nat), NEW cut \in BOOLEAN,
         NEW given, given = AnswerToInbound(p, mode, Answer(mode, think, text, calls, cut))
  PROVE  EntriesOf(p, given) \in GoodIn(p)
         /\ ShownOf(p, EntriesOf(p, given)) = Settled(p, Answered(think, text, calls))
<1>0. IsGiven(p, given, think, text, calls, cut)
  BY GivenIs
<1>1. CASE p = "messages"
  <2>1. given = Answer(p, think, text, calls, cut)
    BY <1>0, <1>1 DEF IsGiven
  <2>2. EntriesOf(p, given) = <<AnswerEntry(think, text, calls)>>
    <3>1. given = Messages!Answer(think, text, calls, cut)
      BY <1>1, <2>1 DEF Answer
    <3>2. EntriesOf(p, given) = Messages!EntriesOf(given)
      BY <1>1 DEF EntriesOf
    <3>3. PICK c : c = Messages!Blocks("thinking", think) \o Messages!Blocks("text", text)
                       \o Messages!Blocks("tool_use", calls)
      OBVIOUS
    <3>4. given.content = c
      BY <3>1, <3>3 DEF Messages!Answer
    <3>5. AnswerEntry(think, text, calls) = Messages!Entry("assistant", c)
      BY <3>3 DEF AnswerEntry
    <3> QED
      BY <3>2, <3>4, <3>5 DEF Messages!EntriesOf
  <2>3. PICK m \in GoodEntries : m = AnswerEntry(think, text, calls)
    BY DEF GoodEntries
  <2>4. ReadMes[m] = Answered(think, text, calls)
    BY <2>3, AnswerEntryIs
  <2> QED
    BY <1>1, <2>2, <2>3, <2>4, OneEntryShown
<1>2. CASE p # "messages"
  <2>1. Says(p, EntriesOf(p, given)) = Answered(think, text, calls)
    BY GivenConveys DEF Conveys
  <2>2. CASE p = "chat"
    <3>1. given = Chat!Answer(think, text, calls, cut)
      BY <1>0, <2>2 DEF IsGiven, Answer
    <3>2. PICK x : x = Chat!Message("assistant", Chat!Parts("text", text), calls, think)
      OBVIOUS
    <3>3. EntriesOf(p, given) = <<x>>
      BY <2>2, <3>1, <3>2 DEF EntriesOf, Chat!EntriesOf, Chat!Answer
    <3>4. x \in ChatMessages
      BY <3>2, ChatPartsRead, ChatMessageReads DEF Roles
    <3>5. x.role = "assistant"
      BY <3>2 DEF Chat!Message
    <3>6. x \in ChatTurns
      BY <3>4, <3>5 DEF ChatTurns
    <3>7. <<x>> \in Seq(ChatTurns)
      BY <3>6
    <3> QED
      BY <2>1, <2>2, <3>3, <3>7 DEF GoodIn, ShownOf, Settled
  <2>3. CASE p = "responses"
    <3>1. PICK P \in BOOLEAN : given.output = ResOutput(think, text, calls, P)
      BY <1>0, <2>3 DEF IsGiven
    <3>2. EntriesOf(p, given) = given.output
      BY <2>3 DEF EntriesOf, Responses!EntriesOf
    <3> QED
      BY <2>1, <2>3, <3>1, <3>2, ResOutputGood DEF GoodIn, ShownOf, Settled
  <2> QED
    BY <1>2, <2>2, <2>3 DEF Protocols
<1> QED
  BY <1>1, <1>2
----------------------------------------------------------------------------------
(* The invariant.                                                                     *)

(* Each turn as the client shows it.                                                  *)
SettledTurns(p) == [s \in Seq(Atoms) |-> Settled(p, s)]

(* Atoms, of every turn.                                                              *)
LEMMA TurnsMake == \A p : Makes(SettledTurns(p), Seq(Atoms), Atoms)
<1> TAKE p
<1>1. \A s \in Seq(Atoms) : Settled(p, s) \in Seq(Atoms)
  BY SettledType
<1> QED
  BY <1>1 DEF SettledTurns, Makes

(* The client's history is one it can have, and shows what was said.                  *)
FaithInv ==
    /\ client \in Protocols
    /\ doc \in Good(client)
    /\ truth \in Seq(Seq(Atoms))
    /\ Shown(client, doc) = Flat(SettledTurns(client), truth)

(* One turn more keeps this.                                                          *)
LEMMA Growing ==
  ASSUME FaithInv, NEW e \in GoodIn(client), NEW x \in Seq(Atoms),
         ShownOf(client, e) = Settled(client, x),
         doc' = Add(client, doc, e), truth' = Append(truth, x), client' = client
  PROVE  FaithInv'
<1>1. client \in Protocols /\ doc \in Good(client) /\ truth \in Seq(Seq(Atoms))
      /\ Shown(client, doc) = Flat(SettledTurns(client), truth)
  BY DEF FaithInv
<1>2. PICK d \in Good(client) : d = Add(client, doc, e)
        /\ Shown(client, d) = Shown(client, doc) \o ShownOf(client, e)
  BY <1>1, AddGood
<1>3. PICK f : f = SettledTurns(client) /\ Makes(f, Seq(Atoms), Atoms)
  BY TurnsMake
<1>4. Flat(f, Append(truth, x)) = Flat(f, truth) \o f[x]
  <2>1. PICK S : S = Seq(Atoms)
    OBVIOUS
  <2>2. Makes(f, S, Atoms) /\ truth \in Seq(S) /\ x \in S
    BY <1>1, <1>3, <2>1
  <2> QED
    BY <2>2, FlatAppend
<1>5. f[x] = Settled(client, x)
  BY <1>3 DEF SettledTurns
<1>6. Shown(client, d) = Flat(f, Append(truth, x))
  BY <1>1, <1>2, <1>3, <1>4, <1>5
<1>7. Append(truth, x) \in Seq(Seq(Atoms))
  BY <1>1
<1>8. client' = client /\ doc' = d /\ truth' = Append(truth, x)
  BY <1>2
<1> QED
  BY <1>1, <1>3, <1>6, <1>7, <1>8 DEF FaithInv

(* A beginning is such a history, and shows the system prompt.                        *)
LEMMA FaithStarts == Init => FaithInv
<1> SUFFICES ASSUME Init PROVE FaithInv
  OBVIOUS
<1>1. PICK system \in {<<>>, <<1>>} :
          /\ doc = Empty(client, system)
          /\ truth = <<Each(LAMBDA n : Atom("system", "text", n), system)>>
  BY DEF Init
<1>2. system \in Seq(Nat) /\ client \in Protocols
  <2>1. <<>> \in Seq(Nat) /\ <<1>> \in Seq(Nat)
    OBVIOUS
  <2> QED
    BY <1>1, <2>1 DEF Init
<1>3. PICK x \in Seq(Atoms) : x = Same("system", "text", system)
  BY <1>2, SameType DEF Roles, AtomKinds
<1>4. doc \in Good(client) /\ Shown(client, doc) = x
  BY <1>1, <1>2, <1>3, EmptyGood
<1>5. Each(LAMBDA n : Atom("system", "text", n), system) = x
  BY <1>2, <1>3, ListIs DEF Each, Same
<1>6. truth = <<x>> /\ truth \in Seq(Seq(Atoms))
  BY <1>1, <1>5
<1>7. \A i \in 1..Len(x) : x[i].by # "tool"
  <2>1. Len(x) = Len(system)
    BY <1>2, <1>3, SameType DEF Roles, AtomKinds
  <2> QED
    BY <1>3, <2>1 DEF Same, Atom
<1>8. Settled(client, x) = x
  BY <1>7, SettledOwn
<1>9. PICK f : f = SettledTurns(client) /\ Makes(f, Seq(Atoms), Atoms)
  BY TurnsMake
<1>10. Flat(f, <<x>>) = f[x]
  BY <1>9, FlatOne
<1>11. f[x] = x
  BY <1>8, <1>9 DEF SettledTurns
<1> QED
  BY <1>2, <1>4, <1>6, <1>9, <1>10, <1>11 DEF FaithInv

(* A turn that is heard keeps this.                                                   *)
LEMMA HeardShows ==
  ASSUME FaithInv, HeardTurn
  PROVE  FaithInv'
<1>1. PICK results \in ResultList, said \in PieceList :
        /\ client = "responses" => \A i \in 1..Len(results) : OnlyText(results[i])
        /\ doc' = Add(client, doc, Said(client, results, said))
        /\ truth' = Append(truth, Heard(results, said))
        /\ client' = client
  BY DEF HeardTurn
<1>2. client \in Protocols
  BY DEF FaithInv
<1>3. PICK e \in GoodIn(client) : e = Said(client, results, said)
                                  /\ ShownOf(client, e) = Settled(client, Heard(results, said))
  BY <1>1, <1>2, SaidGood
<1>4. PICK x \in Seq(Atoms) : x = Heard(results, said)
  BY HeardType
<1> QED
  BY <1>1, <1>3, <1>4, Growing

(* So does an answer.                                                                 *)
LEMMA AnswerShows ==
  ASSUME FaithInv, AnswerTurn
  PROVE  FaithInv'
<1>1. PICK think, text, calls \in Seq(Nat), cut \in BOOLEAN :
          \E given : Given(given, think, text, calls, cut)
  BY DEF AnswerTurn
<1>2. PICK given : Given(given, think, text, calls, cut)
  BY <1>1
<1>3. client \in Protocols
  BY DEF FaithInv
<1>4. PICK e \in GoodIn(client) : e = EntriesOf(client, given)
        /\ ShownOf(client, e) = Settled(client, Answered(think, text, calls))
  BY <1>2, <1>3, AnswerGood DEF Given
<1>5. PICK x \in Seq(Atoms) : x = Answered(think, text, calls)
  BY AnsweredType
<1> QED
  BY <1>2, <1>4, <1>5, Growing DEF Given

(* The requests of a history that shows what was said, say it.                        *)
LEMMA RequestSays ==
  ASSUME FaithInv, NEW mode \in Protocols
  PROVE  Read(mode, Request(mode)) = FlattenSeq(Each(LAMBDA t : Arriving(mode, Reordered(t)), truth))
<1>1. client \in Protocols /\ doc \in Good(client) /\ truth \in Seq(Seq(Atoms))
      /\ Shown(client, doc) = Flat(SettledTurns(client), truth)
  BY DEF FaithInv
<1>2. PICK ir : ir = ToIR(client, doc)
  OBVIOUS
<1>3. Splits(ir) /\ Flat(ReadChat, ir) = Flat(In(client), Shown(client, doc))
  BY <1>1, <1>2, ClientIn
<1>4. PICK f \in Seq(FrontMessages), r \in Seq(TurnMessages) : ir = f \o r
  BY <1>3 DEF Splits
<1>5. PICK o : o = Out(mode) /\ Makes(o, Atoms, Atoms)
  BY OutMakes
<1>6. PICK g : g = In(client) /\ Makes(g, Atoms, Atoms)
  BY InMakes
<1>7. PICK h : h = SettledTurns(client) /\ Makes(h, Seq(Atoms), Atoms)
  BY TurnsMake
<1>8. Read(mode, Request(mode)) = Flat(o, Flat(ReadChat, ir))
  BY <1>2, <1>4, <1>5, RequestReads DEF Request
<1>9. Flat(ReadChat, ir) = Flat(g, Flat(h, truth))
  BY <1>1, <1>3, <1>6, <1>7
<1>10. PICK u : u = [s \in Seq(Atoms) |-> Flat(g, h[s])]
  OBVIOUS
<1>11. Flat(g, Flat(h, truth)) = Flat(u, truth)
  <2>1. PICK S : S = Seq(Atoms)
    OBVIOUS
  <2>2. Makes(h, S, Atoms) /\ truth \in Seq(S) /\ u = [s \in S |-> Flat(g, h[s])]
    BY <1>1, <1>7, <1>10, <2>1
  <2> QED
    BY <1>6, <2>2, FlatFlat
<1>12. \A s \in Seq(Atoms) : Flat(g, h[s]) \in Seq(Atoms)
  <2>1. \A s \in Seq(Atoms) : h[s] \in Seq(Atoms)
    BY <1>7 DEF Makes
  <2> QED
    BY <1>6, <2>1, FlatType
<1>13. Makes(u, Seq(Atoms), Atoms)
  BY <1>10, <1>12 DEF Makes
<1>14. PICK v : v = [s \in Seq(Atoms) |-> Flat(o, u[s])]
  OBVIOUS
<1>15. Flat(o, Flat(u, truth)) = Flat(v, truth)
  BY <1>1, <1>5, <1>13, <1>14, FlatFlat
<1>16. ASSUME NEW s \in Seq(Atoms) PROVE v[s] = Arriving(mode, Reordered(s))
  <2>1. PICK c \in Seq(Atoms) : c = h[s]
    BY <1>7 DEF Makes
  <2>2. Reordered(s) = c
    BY <1>7, <2>1, ReorderedIs DEF SettledTurns
  <2>3. Arriving(mode, c) = Flat(o, Flat(g, c))
    BY <1>5, <1>6, InThenOut
  <2>4. v[s] = Flat(o, Flat(g, c))
    BY <1>10, <1>14, <2>1
  <2> QED
    BY <2>2, <2>3, <2>4
<1>17. Len(truth) \in Nat /\ DOMAIN truth = 1..Len(truth)
        /\ \A i \in 1..Len(truth) : truth[i] \in Seq(Atoms)
  BY <1>1, ListIs
<1>18. Each(LAMBDA t : Arriving(mode, Reordered(t)), truth) = [i \in 1..Len(truth) |-> v[truth[i]]]
  BY <1>16, <1>17 DEF Each
<1> QED
  BY <1>8, <1>9, <1>11, <1>15, <1>18 DEF Flat

(* Every step keeps this: it is a turn of the user or the tools, or an answer.        *)
LEMMA FaithKept == Spec => []FaithInv
<1>1. Init => FaithInv
  BY FaithStarts
<1>2. ConversationInv /\ FaithInv /\ [Next]_vars => FaithInv'
  <2> SUFFICES ASSUME ConversationInv, FaithInv, [Next]_vars PROVE FaithInv'
    OBVIOUS
  <2>1. CASE HeardTurn
    BY <2>1, HeardShows
  <2>2. CASE AnswerTurn
    BY <2>2, AnswerShows
  <2>3. CASE UNCHANGED vars
    BY <2>3 DEF vars, FaithInv
  <2> QED
    BY <2>1, <2>2, <2>3, StepTakesTurn
<1> QED
  BY <1>1, <1>2, ConversationKept, PTL DEF Spec

(* Every request made from the history, for an upstream of whatever protocol, says    *)
(* what was said, in order and once, but for what Reaches and Reordered name (one of  *)
(* these, thinking for Messages upstreams, is what ThinkingKept is about): no other   *)
(* atom is lost or doubled on the way (_to_ir, _from_ir_to_upstream), after however   *)
(* many turns and by whatever sequence of upstreams the history came about.           *)
THEOREM RequestsFaithful == Spec => []Faithful
<1>1. FaithInv => Faithful
  BY RequestSays DEF Faithful
<1> QED
  BY <1>1, FaithKept, PTL
==================================================================================
