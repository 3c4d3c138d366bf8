------------------------------ MODULE Gateway_proofs ------------------------------
(* Safety of the proxy handlers for any number of requests in flight, any providers   *)
(* and routes, any retry count and any settings; and what the gateway implements: the *)
(* circuit breaker as Breaker specifies it, which the requests use in whatever order  *)
(* they interleave, and towards its client each request the contract of Contract.     *)
(* The last part is about the gateway with its access log (Service).                  *)
EXTENDS Service, ProviderStats_proofs, FiniteSetTheorems, SequenceTheorems

(* What ties the fields of a request together.  The last four conjuncts are what the  *)
(* properties need to be inductive: a request in backoff has an attempt left, only a  *)
(* stream streams or closes, the latter with a failure to tell, and without failover  *)
(* there is no second candidate.                                                      *)
GoodRequest(q) ==
    /\ q \in RequestType
    /\ VerdictsMatch(q)
    /\ InRange(q)
    /\ Exhausted(q)
    /\ Logged(q)
    /\ q.pc = "backoff" => q.attempt <= RetryCount \/ q.pi < Len(q.cands)
    /\ q.pc \in {"streaming", "raised", "closing"} => q.stream
    /\ q.pc = "closing" => q.outcome \in {"retryable", "final"}
    /\ ~q.failover => Len(q.cands) <= 1

(* What the router hands a request: providers only, and one at most without failover. *)
LEMMA CandidatesType ==
  ASSUME NEW S \in Routes, NEW breaker \in BOOLEAN, NEW failover \in BOOLEAN,
         NEW previousId \in BOOLEAN,
         NEW cands \in Candidates(Admitted(S, breaker), failover, previousId)
  PROVE  /\ cands \in Seq(Providers)
         /\ ~failover => Len(cands) <= 1
<1> DEFINE admitted == Admitted(S, breaker)
           able == IF previousId THEN ResponsesMode ELSE Providers
           kept == admitted \cap able
<1>1. admitted \subseteq Providers /\ IsFiniteSet(admitted)
  BY GatewayAssumption, FS_Subset DEF Admitted
<1>2. kept \subseteq Providers /\ IsFiniteSet(kept)
  BY <1>1, FS_Subset
<1>3. CASE cands \in SetToSeqs(kept) /\ (failover \/ admitted = {})
  <2>1. Cardinality(kept) \in Nat /\ (kept = {} => Cardinality(kept) = 0)
    BY <1>2, FS_CardinalityType, FS_EmptySet
  <2>2. cands \in [1..Cardinality(kept) -> kept]
    BY <1>3 DEF SetToSeqs
  <2>3. cands \in Seq(kept)
    <3>1. PICK n \in Nat : n = Cardinality(kept)
      BY <2>1
    <3>2. cands \in [1..n -> kept]
      BY <2>2, <3>1
    <3>3. Seq(kept) = UNION {[1..m -> kept] : m \in Nat}
      BY SeqDef
    <3>4. QED
      BY <3>2, <3>3
  <2>4. Len(cands) \in Nat /\ 1..Len(cands) = 1..Cardinality(kept)
    BY <2>2, <2>3, LenProperties
  <2>5. ~failover => Len(cands) <= 1
    <3>1. ~failover => Cardinality(kept) = 0
      BY <2>1, <1>3
    <3>2. QED
      BY <2>4, <3>1
  <2>6. QED
    BY <2>3, <2>5, <1>2, SeqMonotonic
<1>4. CASE cands \in {<<p>> : p \in kept}
  <2>1. PICK p \in kept : cands = <<p>>
    BY <1>4
  <2>2. p \in Providers
    BY <1>2
  <2>3. QED
    BY <2>1, <2>2
<1>5. CASE cands = <<>>
  BY <1>5, EmptySeq
<1>6. QED
  BY <1>3, <1>4, <1>5 DEF Candidates
-----------------------------------------------------------------------------------
(* The request records the actions make, from good ones.                              *)
LEMMA LaunchGood ==
  ASSUME NEW q \in RequestType, NEW pi \in 1..Len(q.cands), NEW a \in 1..(RetryCount + 1),
         q.attempts + 1 = (pi - 1) * (RetryCount + 1) + a,
         q.verdicts = q.attempts + q.rejudged, q.logs <= q.rejudged,
         ~q.failover => Len(q.cands) <= 1
  PROVE  GoodRequest(Launch(q, pi, a))
<1> DEFINE n == Launch(q, pi, a)
<1>1. /\ n.pc = "sending" /\ n.pi = pi /\ n.attempt = a
      /\ n.attempts = q.attempts + 1 /\ n.verdicts = q.verdicts /\ n.logs = q.logs
      /\ n.rejudged = q.rejudged /\ n.cands = q.cands /\ n.failover = q.failover
  BY DEF Launch, RequestType
<1>2. n \in RequestType
  <2>1. pi \in Nat /\ a \in Nat
    BY GatewayAssumption DEF RequestType
  <2>2. PICK x \in Nat : x = q.attempts + 1
    BY DEF RequestType
  <2>3. n = [q EXCEPT !.pc = "sending", !.pi = pi, !.attempt = a, !.attempts = x]
    BY <2>2 DEF Launch, RequestType
  <2>4. QED
    BY <2>1, <2>3 DEF RequestType, Phases
<1>3. q.attempts \in Nat /\ q.verdicts \in Nat /\ q.rejudged \in Nat
  BY DEF RequestType
<1> HIDE DEF n
<1>4. QED
  BY <1>1, <1>2, <1>3 DEF GoodRequest, VerdictsMatch, InRange, Exhausted, Logged, Live, n

(* What Finish leaves alone, and what it counts.                                      *)
LEMMA FinishFacts ==
  ASSUME NEW q \in RequestType, NEW outcome \in Outcomes,
         NEW logging \in Loggings \cup {"none"}
  PROVE  LET n == Finish(q, outcome, logging)
         IN  /\ n \in RequestType
             /\ n.pc = "done" /\ n.outcome = outcome /\ n.stream = q.stream
             /\ n.pi = q.pi /\ n.attempt = q.attempt
             /\ n.attempts = q.attempts /\ n.verdicts = q.verdicts
             /\ n.rejudged = q.rejudged /\ n.logs = q.logs + Lines(logging)
             /\ n.missed = (logging \in {"lost", "uncleaned"})
             /\ n.cands = q.cands /\ n.failover = q.failover
             /\ n.sent = q.sent /\ n.raised = q.raised
<1>1. PICK k \in {0, 1} : k = Lines(logging)
  BY DEF Lines
<1>2. PICK x \in Nat : x = q.logs + k
  BY DEF RequestType
<1>3. PICK m \in BOOLEAN : m = (logging \in {"lost", "uncleaned"})
  <2>1. CASE logging \in {"lost", "uncleaned"}
    <3>1. TRUE = (logging \in {"lost", "uncleaned"})
      BY <2>1
    <3> QED
      BY <3>1, Zenon
  <2>2. CASE ~(logging \in {"lost", "uncleaned"})
    <3>1. FALSE = (logging \in {"lost", "uncleaned"})
      BY <2>2
    <3> QED
      BY <3>1, Zenon
  <2> QED
    BY <2>1, <2>2
<1> DEFINE n == [q EXCEPT !.pc = "done", !.outcome = outcome, !.sink = FALSE, !.logs = x,
                          !.missed = m]
<1>4. Finish(q, outcome, logging) = n
  BY <1>1, <1>2, <1>3, Zenon DEF Finish
<1>5. /\ n \in RequestType
      /\ n.pc = "done" /\ n.outcome = outcome /\ n.stream = q.stream
      /\ n.pi = q.pi /\ n.attempt = q.attempt
      /\ n.attempts = q.attempts /\ n.verdicts = q.verdicts
      /\ n.rejudged = q.rejudged /\ n.logs = x /\ n.missed = m
      /\ n.cands = q.cands /\ n.failover = q.failover
      /\ n.sent = q.sent /\ n.raised = q.raised
  BY DEF RequestType, Phases
<1> HIDE DEF n
<1>6. QED
  BY <1>1, <1>2, <1>3, <1>4, <1>5, Zenon

LEMMA FinishGood ==
  ASSUME NEW q \in RequestType, NEW outcome \in Outcomes,
         NEW logging \in Loggings \cup {"none"},
         q.logs <= q.rejudged, ~q.failover => Len(q.cands) <= 1,
         \/ q.verdicts = q.attempts + q.rejudged
         \/ /\ outcome \in {"disconnect", "convert_error"}
            /\ q.verdicts + 1 = q.attempts + q.rejudged,
         outcome = "retryable" => q.attempt = RetryCount + 1 /\ q.pi = Len(q.cands),
         outcome = "convert_error" => logging = "none",
         logging = "none" =>
            outcome = "convert_error" \/ (q.stream /\ outcome = "disconnect")
  PROVE  GoodRequest(Finish(q, outcome, logging))
<1>1. PICK n \in RequestType :
         /\ n = Finish(q, outcome, logging)
         /\ n.pc = "done" /\ n.outcome = outcome /\ n.stream = q.stream
         /\ n.pi = q.pi /\ n.attempt = q.attempt
         /\ n.attempts = q.attempts /\ n.verdicts = q.verdicts
         /\ n.rejudged = q.rejudged /\ n.logs = q.logs + Lines(logging)
         /\ n.missed = (logging \in {"lost", "uncleaned"})
         /\ n.cands = q.cands /\ n.failover = q.failover
  BY FinishFacts
<1>2. q.logs \in Nat /\ q.rejudged \in Nat
  BY DEF RequestType
<1>3. Lines(logging) = IF logging \in {"written", "uncleaned"} THEN 1 ELSE 0
  BY DEF Lines
<1>4. logging \in {"written", "lost", "uncleaned", "none"}
  BY DEF Loggings
<1>5. Logged(n)
  <2>1. CASE logging \in {"written", "uncleaned"}
    <3>1. n.logs = q.logs + 1 /\ outcome # "convert_error"
      BY <1>1, <1>3, <2>1
    <3> QED
      BY <1>1, <1>2, <3>1 DEF Logged
  <2>2. CASE logging \in {"lost", "none"}
    <3>1. n.logs = q.logs
      BY <1>1, <1>2, <1>3, <2>2
    <3>2. n.missed \/ outcome = "convert_error" \/ (q.stream /\ outcome = "disconnect")
      BY <1>1, <2>2
    <3> QED
      BY <1>1, <1>2, <3>1, <3>2 DEF Logged
  <2> QED
    BY <1>4, <2>1, <2>2
<1>6. VerdictsMatch(n) /\ InRange(n) /\ Exhausted(n)
  BY <1>1 DEF VerdictsMatch, InRange, Exhausted, Live
<1>7. QED
  BY <1>1, <1>5, <1>6 DEF GoodRequest

LEMMA JudgedFields ==
  ASSUME NEW q \in RequestType
  PROVE  /\ Judged(q) \in RequestType
         /\ Judged(q).verdicts = q.verdicts + 1
         /\ Judged(q).pc = q.pc /\ Judged(q).stream = q.stream
         /\ Judged(q).pi = q.pi /\ Judged(q).attempt = q.attempt
         /\ Judged(q).attempts = q.attempts /\ Judged(q).logs = q.logs
         /\ Judged(q).cands = q.cands /\ Judged(q).failover = q.failover
         /\ Judged(q).outcome = q.outcome /\ Judged(q).rejudged = q.rejudged
         /\ Judged(q).sent = q.sent /\ Judged(q).raised = q.raised
<1>1. PICK x \in Nat : x = q.verdicts + 1
  BY DEF RequestType
<1>2. Judged(q) = [q EXCEPT !.verdicts = x, !.sink = FALSE]
  BY <1>1 DEF Judged, RequestType
<1>3. QED
  BY <1>1, <1>2 DEF RequestType

(* A request whose attempt is under way, or whose line raised after one.              *)
LEMMA UnderWay ==
  ASSUME NEW q, GoodRequest(q), q.pc \in {"sending", "streaming", "raised"}
  PROVE  /\ q \in RequestType /\ q.logs <= q.rejudged
         /\ q.verdicts + 1 = q.attempts + q.rejudged
         /\ q.pi \in 1..Len(q.cands) /\ q.attempt \in 1..(RetryCount + 1)
         /\ q.attempts = (q.pi - 1) * (RetryCount + 1) + q.attempt
         /\ ~q.failover => Len(q.cands) <= 1
  BY DEF GoodRequest, Logged, VerdictsMatch, InRange, Live

(* A failed attempt, counted once, either leaves a try for after the backoff or ends  *)
(* the request with its last candidate's last try.                                    *)
LEMMA AfterFailureGood ==
  ASSUME NEW q, GoodRequest(q), q.pc \in {"sending", "streaming", "raised"},
         NEW retryable \in BOOLEAN, NEW logging \in Loggings
  PROVE  GoodRequest(AfterFailure(q, retryable, logging))
<1> DEFINE j == Judged(q)
<1>1. /\ q \in RequestType /\ q.logs <= q.rejudged
      /\ q.verdicts + 1 = q.attempts + q.rejudged
      /\ q.pi \in 1..Len(q.cands) /\ q.attempt \in 1..(RetryCount + 1)
      /\ q.attempts = (q.pi - 1) * (RetryCount + 1) + q.attempt
      /\ ~q.failover => Len(q.cands) <= 1
  BY UnderWay
<1>2. /\ j \in RequestType /\ j.verdicts = q.attempts + q.rejudged /\ j.stream = q.stream
      /\ j.pi = q.pi /\ j.attempt = q.attempt /\ j.attempts = q.attempts
      /\ j.logs = q.logs /\ j.rejudged = q.rejudged
      /\ j.cands = q.cands /\ j.failover = q.failover
  BY <1>1, JudgedFields
<1> HIDE DEF j
<1>3. CASE CanRetry(q, retryable)
  <2> DEFINE n == [j EXCEPT !.pc = "backoff"]
  <2>1. AfterFailure(q, retryable, logging) = n
    BY <1>3 DEF AfterFailure, j
  <2>2. /\ n \in RequestType /\ n.pc = "backoff"
        /\ n.verdicts = q.attempts + q.rejudged /\ n.rejudged = q.rejudged
        /\ n.pi = q.pi /\ n.attempt = q.attempt /\ n.attempts = q.attempts
        /\ n.logs = q.logs /\ n.cands = q.cands /\ n.failover = q.failover
    BY <1>1, <1>2 DEF RequestType, Phases
  <2>3. q.attempt <= RetryCount \/ q.pi < Len(q.cands)
    BY <1>3 DEF CanRetry
  <2> HIDE DEF n
  <2>4. GoodRequest(n)
    BY <2>2, <2>3, <1>1 DEF GoodRequest, Logged, VerdictsMatch, InRange, Exhausted, Live
  <2>5. QED
    BY <2>1, <2>4
<1>4. CASE ~CanRetry(q, retryable)
  <2>1. PICK outcome \in {"retryable", "final"} :
           outcome = IF retryable THEN "retryable" ELSE "final"
    BY Zenon
  <2>2. outcome = "retryable" => q.attempt = RetryCount + 1 /\ q.pi = Len(q.cands)
    <3>1. Len(q.cands) \in Nat
      BY <1>1, LenProperties DEF RequestType
    <3>2. ASSUME retryable
          PROVE  /\ ~(q.attempt <= RetryCount)
                 /\ ~q.failover \/ ~(q.pi < Len(q.cands))
      BY <1>4, <3>2 DEF CanRetry
    <3>3. outcome = "retryable" => retryable
      BY <2>1
    <3>4. QED
      BY <1>1, <3>1, <3>2, <3>3, GatewayAssumption
  <2>3. AfterFailure(q, retryable, logging) = GiveUp(j, outcome, logging)
    BY <1>4, <2>1 DEF AfterFailure, j
  <2>4. CASE j.stream
    <3> DEFINE n == [j EXCEPT !.pc = "closing", !.outcome = outcome]
    <3>1. GiveUp(j, outcome, logging) = n
      BY <2>4 DEF GiveUp
    <3>2. /\ n \in RequestType /\ n.pc = "closing"
          /\ n.verdicts = q.attempts + q.rejudged /\ n.rejudged = q.rejudged
          /\ n.pi = q.pi /\ n.attempt = q.attempt /\ n.attempts = q.attempts
          /\ n.logs = q.logs /\ n.cands = q.cands /\ n.failover = q.failover
          /\ n.outcome = outcome /\ n.stream
      BY <1>1, <1>2, <2>1, <2>4 DEF RequestType, Phases, Outcomes
    <3> HIDE DEF n
    <3>3. GoodRequest(n)
      BY <3>2, <2>1, <2>2, <1>1 DEF GoodRequest, Logged, VerdictsMatch, InRange, Exhausted, Live
    <3>4. QED
      BY <2>3, <3>1, <3>3
  <2>5. CASE ~j.stream
    <3>1. GiveUp(j, outcome, logging) = Finish(j, outcome, logging)
      BY <2>5 DEF GiveUp
    <3>2. outcome \in Outcomes /\ outcome # "convert_error" /\ logging # "none"
      BY <2>1 DEF Outcomes, Loggings
    <3>3. GoodRequest(Finish(j, outcome, logging))
      BY <1>1, <1>2, <2>2, <3>2, FinishGood
    <3>4. QED
      BY <2>3, <3>1, <3>3
  <2>6. QED
    BY <2>4, <2>5
<1>5. QED
  BY <1>3, <1>4

(* The line of a stream that is over is in, or its exception is on the way.           *)
LEMMA StreamLoggedGood ==
  ASSUME NEW q, GoodRequest(q), q.pc = "streaming", NEW outcome \in {"ok", "broken"},
         NEW logging \in Loggings
  PROVE  GoodRequest(StreamLogged(q, outcome, logging))
<1> DEFINE j == Judged(q)
<1>1. /\ q \in RequestType /\ q.logs <= q.rejudged
      /\ q.verdicts + 1 = q.attempts + q.rejudged
      /\ q.pi \in 1..Len(q.cands) /\ q.attempt \in 1..(RetryCount + 1)
      /\ q.attempts = (q.pi - 1) * (RetryCount + 1) + q.attempt
      /\ ~q.failover => Len(q.cands) <= 1
  BY UnderWay
<1>2. /\ j \in RequestType /\ j.verdicts = q.attempts + q.rejudged /\ j.stream = q.stream
      /\ j.pi = q.pi /\ j.attempt = q.attempt /\ j.attempts = q.attempts
      /\ j.logs = q.logs /\ j.rejudged = q.rejudged
      /\ j.cands = q.cands /\ j.failover = q.failover
  BY <1>1, JudgedFields
<1> HIDE DEF j
<1>3. CASE logging = "written"
  <2>1. GoodRequest(Finish(j, outcome, logging))
    BY <1>1, <1>2, <1>3, FinishGood DEF Outcomes
  <2> QED
    BY <1>3, <2>1 DEF StreamLogged, j
<1>4. CASE logging # "written"
  <2>1. PICK k \in {0, 1} : k = Lines(logging)
    BY DEF Lines
  <2>2. PICK x \in Nat, y \in Nat : x = j.logs + k /\ y = j.rejudged + 1
    BY <1>2 DEF RequestType
  <2> DEFINE n == [j EXCEPT !.pc = "raised", !.raised = TRUE, !.rejudged = y, !.logs = x]
  <2>3. StreamLogged(q, outcome, logging) = n
    BY <1>2, <1>4, <2>1, <2>2 DEF StreamLogged, RequestType, j
  <2>4. /\ n \in RequestType /\ n.pc = "raised"
        /\ n.verdicts = q.attempts + q.rejudged /\ n.rejudged = q.rejudged + 1
        /\ n.pi = q.pi /\ n.attempt = q.attempt /\ n.attempts = q.attempts
        /\ n.logs = q.logs + k /\ n.cands = q.cands /\ n.failover = q.failover
        /\ n.stream
    BY <1>1, <1>2, <2>2 DEF RequestType, Phases, GoodRequest
  <2>5. q.attempts \in Nat /\ q.rejudged \in Nat /\ q.logs \in Nat
    BY <1>1 DEF RequestType
  <2> HIDE DEF n
  <2>6. VerdictsMatch(n) /\ Logged(n)
    BY <1>1, <2>1, <2>4, <2>5 DEF VerdictsMatch, Logged
  <2>7. InRange(n) /\ Exhausted(n)
    BY <1>1, <2>4 DEF InRange, Exhausted, Live
  <2> QED
    BY <1>1, <2>3, <2>4, <2>6, <2>7 DEF GoodRequest
<1> QED
  BY <1>3, <1>4

(* That an exception was caught changes nothing else.                                 *)
LEMMA RaisedGood ==
  ASSUME NEW q, GoodRequest(q)
  PROVE  GoodRequest([q EXCEPT !.raised = TRUE])
<1> DEFINE n == [q EXCEPT !.raised = TRUE]
<1>1. q \in RequestType
  BY DEF GoodRequest
<1>2. /\ n \in RequestType /\ n.pc = q.pc /\ n.outcome = q.outcome /\ n.stream = q.stream
      /\ n.pi = q.pi /\ n.attempt = q.attempt /\ n.attempts = q.attempts
      /\ n.verdicts = q.verdicts /\ n.rejudged = q.rejudged /\ n.logs = q.logs
      /\ n.missed = q.missed /\ n.cands = q.cands /\ n.failover = q.failover
  BY <1>1 DEF RequestType
<1> HIDE DEF n
<1>3. GoodRequest(n)
  BY <1>2 DEF GoodRequest, VerdictsMatch, InRange, Exhausted, Logged
<1> QED
  BY <1>3 DEF n
-----------------------------------------------------------------------------------
(* The inductive invariant: good entries and rows, good requests.                     *)
TablesOK ==
    /\ stats \in [Providers -> Stats] /\ saved \in [Providers -> Rows]
    /\ parted \subseteq Providers
    /\ \A p \in Providers : GoodEntry(stats[p]) /\ GoodRow(saved[p])

RequestsOK ==
    /\ req \in [Requests -> RequestType]
    /\ \A r \in Requests : GoodRequest(req[r])

IInv == TablesOK /\ RequestsOK

LEMMA IdleGood == GoodRequest(Idle)
<1>1. Idle \in RequestType
  BY EmptySeq DEF Idle, RequestType, Phases, Outcomes
<1>2. QED
  BY <1>1, EmptySeq
     DEF GoodRequest, Idle, VerdictsMatch, InRange, Exhausted, Logged, Live

LEMMA InitIInv == Init => IInv
<1> SUFFICES ASSUME Init PROVE IInv
  OBVIOUS
<1>1. TablesOK
  BY FreshGood DEF Init, TablesOK, GoodEntry, GoodRow
<1>2. RequestsOK
  BY IdleGood DEF Init, RequestsOK, GoodRequest
<1>3. QED
  BY <1>1, <1>2 DEF IInv

LEMMA RequestStep ==
  ASSUME RequestsOK, NEW r \in Requests, NEW q, GoodRequest(q),
         req' = [req EXCEPT ![r] = q]
  PROVE  RequestsOK'
  BY DEF RequestsOK, GoodRequest

LEMMA CheckedGood ==
  ASSUME TablesOK, NEW S, NEW breaker, stats' = Checked(S, breaker), UNCHANGED <<saved, parted>>
  PROVE  TablesOK'
<1>1. \A p \in Providers : GoodEntry(stats'[p])
  BY IsAvailableGood DEF TablesOK, Checked
<1>2. QED
  BY <1>1 DEF TablesOK, Checked, GoodEntry

(* The provider of the current attempt is one of Providers.                           *)
LEMMA CurrentType ==
  ASSUME NEW q, GoodRequest(q), q.pc \in Live
  PROVE  Current(q) \in Providers
  BY ElementOfSeq DEF GoodRequest, InRange, Current, RequestType

(* The row is written, or the old one stays.                                          *)
LEMMA PersistGood ==
  ASSUME TablesOK, NEW p \in Providers, NEW s, GoodEntry(s), GoodRow(Row(s)),
         stats' = [stats EXCEPT ![p] = s], Persist(p, s)
  PROVE  TablesOK'
<1>1. saved' = [saved EXCEPT ![p] = Row(s)] \/ saved' = saved
  BY DEF Persist
<1>2. parted' \subseteq Providers
  BY DEF Persist, TablesOK
<1>3. saved' \in [Providers -> Rows] /\ \A x \in Providers : GoodRow(saved'[x])
  BY <1>1 DEF TablesOK, GoodRow
<1> QED
  BY <1>2, <1>3 DEF TablesOK, GoodEntry

LEMMA RecordGood ==
  ASSUME TablesOK, NEW p \in Providers, RecordOk(p) \/ RecordFail(p)
  PROVE  TablesOK'
<1>1. GoodEntry(stats[p])
  BY DEF TablesOK
<1>2. CASE RecordOk(p)
  BY <1>1, <1>2, RecordSuccessGood, PersistGood DEF RecordOk
<1>3. CASE RecordFail(p)
  BY <1>1, <1>3, RecordFailureGood, PersistGood, GatewayAssumption DEF RecordFail
<1>4. QED
  BY <1>2, <1>3

LEMMA ArriveGood ==
  ASSUME IInv, NEW r \in Requests, NEW S \in Routes, NEW stream \in BOOLEAN,
         NEW previousId \in BOOLEAN, Arrive(r, S, stream, previousId)
  PROVE  IInv'
<1>1. PICK breaker \in BreakerSettings, failover \in FailoverSettings, logging \in Loggings :
         /\ stats' = Checked(S, breaker)
         /\ \E cands \in Candidates(Admitted(S, breaker), failover, previousId) :
               LET q == [Idle EXCEPT !.stream = stream, !.failover = failover,
                                     !.cands = cands]
               IN  req' = [req EXCEPT ![r] = IF cands = <<>>
                                             THEN Finish(q, "bad_request", logging)
                                             ELSE Launch(q, 1, 1)]
  BY DEF Arrive
<1>2. breaker \in BOOLEAN /\ failover \in BOOLEAN
  BY GatewayAssumption
<1>3. PICK cands \in Candidates(Admitted(S, breaker), failover, previousId) :
         LET q == [Idle EXCEPT !.stream = stream, !.failover = failover, !.cands = cands]
         IN  req' = [req EXCEPT ![r] = IF cands = <<>>
                                       THEN Finish(q, "bad_request", logging)
                                       ELSE Launch(q, 1, 1)]
  BY <1>1
<1> DEFINE q == [Idle EXCEPT !.stream = stream, !.failover = failover, !.cands = cands]
<1>4. cands \in Seq(Providers) /\ (~failover => Len(cands) <= 1)
  BY <1>2, CandidatesType
<1>5. /\ q \in RequestType /\ q.cands = cands /\ q.failover = failover
      /\ q.attempts = 0 /\ q.verdicts = 0 /\ q.logs = 0 /\ q.rejudged = 0
  BY <1>2, <1>4, IdleGood DEF GoodRequest, Idle, RequestType
<1> HIDE DEF q
<1>6. CASE cands = <<>>
  <2>1. GoodRequest(Finish(q, "bad_request", logging))
    BY <1>4, <1>5, FinishGood DEF Outcomes, Loggings
  <2>2. req' = [req EXCEPT ![r] = Finish(q, "bad_request", logging)]
    BY <1>3, <1>6 DEF q
  <2>3. QED
    BY <2>1, <2>2, <1>1, RequestStep, CheckedGood DEF IInv, Arrive
<1>7. CASE cands # <<>>
  <2>1. 1 \in 1..Len(q.cands) /\ 1 \in 1..(RetryCount + 1)
    BY <1>4, <1>5, <1>7, EmptySeq, GatewayAssumption
  <2>2. q.attempts + 1 = (1 - 1) * (RetryCount + 1) + 1
    BY <1>5, GatewayAssumption
  <2>3. GoodRequest(Launch(q, 1, 1))
    BY <2>1, <2>2, <1>4, <1>5, LaunchGood
  <2>4. req' = [req EXCEPT ![r] = Launch(q, 1, 1)]
    BY <1>3, <1>7 DEF q
  <2>5. QED
    BY <2>3, <2>4, <1>1, RequestStep, CheckedGood DEF IInv, Arrive
<1>8. QED
  BY <1>6, <1>7

LEMMA ResumeGood ==
  ASSUME IInv, NEW r \in Requests, Resume(r)
  PROVE  IInv'
<1> DEFINE q == req[r]
<1>1. /\ q \in RequestType /\ q.pc = "backoff"
      /\ q.verdicts = q.attempts + q.rejudged /\ q.logs <= q.rejudged
      /\ q.pi \in 1..Len(q.cands) /\ q.attempt \in 1..(RetryCount + 1)
      /\ q.attempts = (q.pi - 1) * (RetryCount + 1) + q.attempt
      /\ q.attempt <= RetryCount \/ q.pi < Len(q.cands)
      /\ ~q.failover => Len(q.cands) <= 1
  BY DEF IInv, RequestsOK, Resume, GoodRequest, Logged, VerdictsMatch, InRange, Live
<1>2. Len(q.cands) \in Nat /\ RetryCount \in Nat /\ q.attempts \in Nat
  BY <1>1, LenProperties, GatewayAssumption DEF RequestType
<1> HIDE DEF q
<1>3. CASE q.attempt <= RetryCount
  <2>1. /\ q.attempt + 1 \in 1..(RetryCount + 1)
        /\ q.attempts + 1 = (q.pi - 1) * (RetryCount + 1) + (q.attempt + 1)
    BY <1>1, <1>2, <1>3, SMTT(30)
  <2>2. GoodRequest(Launch(q, q.pi, q.attempt + 1))
    BY <1>1, <2>1, LaunchGood
  <2>3. req' = [req EXCEPT ![r] = Launch(q, q.pi, q.attempt + 1)]
    BY <1>3 DEF Resume, q
  <2>4. QED
    BY <2>2, <2>3, RequestStep DEF IInv, TablesOK, Resume, tables
<1>4. CASE ~(q.attempt <= RetryCount)
  <2>1. q.pi + 1 \in 1..Len(q.cands) /\ 1 \in 1..(RetryCount + 1)
    BY <1>1, <1>2, <1>4
  <2>2. q.attempt = RetryCount + 1
    BY <1>1, <1>2, <1>4
  <2>3. q.attempts + 1 = ((q.pi + 1) - 1) * (RetryCount + 1) + 1
    BY <1>1, <1>2, <2>2
  <2>4. GoodRequest(Launch(q, q.pi + 1, 1))
    BY <1>1, <2>1, <2>3, LaunchGood
  <2>5. req' = [req EXCEPT ![r] = Launch(q, q.pi + 1, 1)]
    BY <1>4 DEF Resume, q
  <2>6. QED
    BY <2>4, <2>5, RequestStep DEF IInv, TablesOK, Resume, tables
<1>5. QED
  BY <1>3, <1>4

(* An attempt under way ends, with or without a verdict.                              *)
LEMMA FinishSteps ==
  ASSUME IInv, NEW r \in Requests
  PROVE  /\ AttemptSucceeds(r) \/ ConvertRaises(r) \/ Disconnect(r) \/ StreamEnds(r) => IInv'
         /\ Close(r) => IInv'
         /\ \A logging \in Loggings \cup {"none"} : Cancel(r, logging) => IInv'
<1> DEFINE q == req[r]
<1>1. GoodRequest(q) /\ q \in RequestType /\ (~q.failover => Len(q.cands) <= 1)
  BY DEF IInv, RequestsOK, GoodRequest
<1>2. q.pc \in {"sending", "streaming"} =>
         /\ q.logs <= q.rejudged /\ q.verdicts + 1 = q.attempts + q.rejudged
         /\ Judged(q) \in RequestType /\ Judged(q).logs <= Judged(q).rejudged
         /\ Judged(q).verdicts = Judged(q).attempts + Judged(q).rejudged
         /\ ~Judged(q).failover => Len(Judged(q).cands) <= 1
         /\ Current(q) \in Providers
  BY <1>1, UnderWay, JudgedFields, CurrentType DEF Live
<1> USE DEF IInv
<1>3. ASSUME AttemptSucceeds(r) PROVE IInv'
  <2>1. PICK logging \in Loggings : req' = [req EXCEPT ![r] = Finish(Judged(q), "ok", logging)]
    BY <1>3 DEF AttemptSucceeds
  <2>2. GoodRequest(Finish(Judged(q), "ok", logging))
    BY <1>2, <1>3, FinishGood DEF AttemptSucceeds, Outcomes, Loggings
  <2>3. QED
    BY <1>2, <1>3, <2>1, <2>2, RequestStep, RecordGood DEF AttemptSucceeds
<1>4. ASSUME ConvertRaises(r) PROVE IInv'
  <2>1. GoodRequest(Finish(q, "convert_error", "none"))
    BY <1>1, <1>2, <1>4, FinishGood DEF ConvertRaises, Outcomes
  <2>2. QED
    BY <1>4, <2>1, RequestStep DEF ConvertRaises, TablesOK, tables
<1>5. ASSUME Disconnect(r) PROVE IInv'
  <2>1. PICK logging \in Loggings : req' = [req EXCEPT ![r] = Finish(q, "disconnect", logging)]
    BY <1>5 DEF Disconnect
  <2>2. GoodRequest(Finish(q, "disconnect", logging))
    BY <1>1, <1>2, <1>5, FinishGood DEF Disconnect, Outcomes, Loggings
  <2>3. QED
    BY <1>5, <2>1, <2>2, RequestStep DEF Disconnect, TablesOK, tables
<1>6. ASSUME StreamEnds(r) PROVE IInv'
  <2>1. PICK outcome \in {"ok", "broken"} : outcome = IF q.sink THEN "broken" ELSE "ok"
    BY Zenon
  <2>2. PICK logging \in Loggings : req' = [req EXCEPT ![r] = StreamLogged(q, outcome, logging)]
    BY <1>6, <2>1 DEF StreamEnds
  <2>3. GoodRequest(StreamLogged(q, outcome, logging))
    BY <1>1, <1>6, StreamLoggedGood DEF StreamEnds
  <2>4. TablesOK'
    BY <1>2, <1>6, RecordGood DEF StreamEnds
  <2>5. QED
    BY <2>2, <2>3, <2>4, RequestStep
<1>7. ASSUME Close(r) PROVE IInv'
  <2>1. PICK logging \in Loggings : req' = [req EXCEPT ![r] = Finish(q, q.outcome, logging)]
    BY <1>7 DEF Close
  <2>2. /\ q.logs <= q.rejudged /\ q.verdicts = q.attempts + q.rejudged
        /\ q.outcome \in {"retryable", "final"}
        /\ q.outcome = "retryable" => q.attempt = RetryCount + 1 /\ q.pi = Len(q.cands)
    BY <1>1, <1>7 DEF Close, GoodRequest, Logged, VerdictsMatch, Exhausted
  <2>3. GoodRequest(Finish(q, q.outcome, logging))
    BY <1>1, <2>2, FinishGood DEF Outcomes, Loggings
  <2>4. QED
    BY <1>7, <2>1, <2>3, RequestStep DEF Close, TablesOK, tables
<1>8. ASSUME NEW logging \in Loggings \cup {"none"}, Cancel(r, logging) PROVE IInv'
  <2>1. /\ q.logs <= q.rejudged /\ q.stream
        /\ \/ q.verdicts = q.attempts + q.rejudged
           \/ q.verdicts + 1 = q.attempts + q.rejudged
    BY <1>1, <1>8 DEF Cancel, GoodRequest, Logged, VerdictsMatch, Live
  <2>2. GoodRequest(Finish(q, "disconnect", logging))
    BY <1>1, <2>1, FinishGood DEF Outcomes
  <2>3. QED
    BY <1>8, <2>2, RequestStep DEF Cancel, TablesOK, tables
<1>9. QED
  BY <1>3, <1>4, <1>5, <1>6, <1>7, <1>8

(* The steps inside a stream leave the request's position and counts alone.           *)
LEMMA StreamSteps ==
  ASSUME IInv, NEW r \in Requests, FirstChunk(r) \/ Forward(r) \/ UpstreamBreaks(r)
  PROVE  IInv'
<1> DEFINE q == req[r]
<1>1. /\ GoodRequest(q) /\ q \in RequestType
      /\ q.pc \in {"sending", "streaming"} /\ q.stream
  BY DEF IInv, RequestsOK, GoodRequest, FirstChunk, Forward, UpstreamBreaks
<1>2. /\ GoodRequest([q EXCEPT !.pc = "streaming"])
      /\ q.pc = "streaming" => /\ GoodRequest([q EXCEPT !.sent = TRUE])
                               /\ GoodRequest([q EXCEPT !.sink = TRUE])
  <2>1. ASSUME NEW n \in RequestType, n.pc = "streaming",
               n.pi = q.pi, n.attempt = q.attempt, n.attempts = q.attempts,
               n.verdicts = q.verdicts, n.logs = q.logs, n.cands = q.cands,
               n.failover = q.failover, n.rejudged = q.rejudged, n.stream
        PROVE  GoodRequest(n)
    BY <1>1, <2>1
       DEF GoodRequest, VerdictsMatch, InRange, Exhausted, Logged, Live
  <2> DEFINE a == [q EXCEPT !.pc = "streaming"]
             b == [q EXCEPT !.sent = TRUE]
             c == [q EXCEPT !.sink = TRUE]
  <2>2. GoodRequest(a)
    <3>1. /\ a \in RequestType /\ a.pc = "streaming"
          /\ a.pi = q.pi /\ a.attempt = q.attempt /\ a.attempts = q.attempts
          /\ a.verdicts = q.verdicts /\ a.logs = q.logs /\ a.cands = q.cands
          /\ a.failover = q.failover /\ a.rejudged = q.rejudged /\ a.stream
      BY <1>1 DEF RequestType, Phases
    <3>2. QED
      BY <2>1, <3>1
  <2>3. ASSUME q.pc = "streaming" PROVE GoodRequest(b) /\ GoodRequest(c)
    <3>1. /\ b \in RequestType /\ b.pc = "streaming"
          /\ b.pi = q.pi /\ b.attempt = q.attempt /\ b.attempts = q.attempts
          /\ b.verdicts = q.verdicts /\ b.logs = q.logs /\ b.cands = q.cands
          /\ b.failover = q.failover /\ b.rejudged = q.rejudged /\ b.stream
      BY <1>1, <2>3 DEF RequestType
    <3>2. /\ c \in RequestType /\ c.pc = "streaming"
          /\ c.pi = q.pi /\ c.attempt = q.attempt /\ c.attempts = q.attempts
          /\ c.verdicts = q.verdicts /\ c.logs = q.logs /\ c.cands = q.cands
          /\ c.failover = q.failover /\ c.rejudged = q.rejudged /\ c.stream
      BY <1>1, <2>3 DEF RequestType
    <3>3. QED
      BY <2>1, <3>1, <3>2
  <2>4. QED
    BY <2>2, <2>3
<1>3. \/ req' = [req EXCEPT ![r] = [q EXCEPT !.pc = "streaming"]]
      \/ q.pc = "streaming" /\ req' = [req EXCEPT ![r] = [q EXCEPT !.sent = TRUE]]
      \/ q.pc = "streaming" /\ req' = [req EXCEPT ![r] = [q EXCEPT !.sink = TRUE]]
  BY DEF FirstChunk, Forward, UpstreamBreaks, IInv, RequestsOK
<1>4. QED
  BY <1>2, <1>3, RequestStep
     DEF IInv, TablesOK, tables, FirstChunk, Forward, UpstreamBreaks

LEMMA FailureGood ==
  ASSUME IInv, NEW r \in Requests, NEW retryable \in BOOLEAN, NEW logging \in Loggings,
         NEW q, GoodRequest(q), q.pc \in {"sending", "streaming", "raised"},
         RecordFail(Current(q)),
         req' = [req EXCEPT ![r] = AfterFailure(q, retryable, logging)]
  PROVE  IInv'
<1>1. Current(q) \in Providers
  BY CurrentType DEF Live
<1>2. GoodRequest(AfterFailure(q, retryable, logging))
  BY AfterFailureGood
<1>3. QED
  BY <1>1, <1>2, RecordGood, RequestStep DEF IInv

(* The failures: of an attempt, of a stream's line in the log, of its converter.      *)
LEMMA FailureSteps ==
  ASSUME IInv, NEW r \in Requests,
         \/ \E retryable \in BOOLEAN : AttemptFails(r, retryable)
         \/ LineCaught(r) \/ ConverterRaises(r)
  PROVE  IInv'
<1> DEFINE q == req[r]
<1>1. GoodRequest(q) /\ q \in RequestType
  BY DEF IInv, RequestsOK, GoodRequest
<1>2. CASE \E retryable \in BOOLEAN : AttemptFails(r, retryable)
  <2>1. PICK retryable \in BOOLEAN, logging \in Loggings :
           /\ q.pc = "sending" /\ RecordFail(Current(q))
           /\ req' = [req EXCEPT ![r] = AfterFailure(q, retryable, logging)]
    BY <1>2 DEF AttemptFails
  <2> QED
    BY <1>1, <2>1, FailureGood
<1>3. CASE LineCaught(r)
  <2>1. PICK logging \in Loggings :
           /\ q.pc = "raised" /\ RecordFail(Current(q))
           /\ req' = [req EXCEPT ![r] = AfterFailure(q, TRUE, logging)]
    BY <1>3 DEF LineCaught
  <2> QED
    BY <1>1, <2>1, FailureGood
<1>4. CASE ConverterRaises(r)
  <2> DEFINE n == [q EXCEPT !.raised = TRUE]
  <2>1. PICK logging \in Loggings :
           /\ q.pc = "streaming" /\ RecordFail(Current(q))
           /\ req' = [req EXCEPT ![r] = AfterFailure(n, TRUE, logging)]
    BY <1>4 DEF ConverterRaises
  <2>2. GoodRequest(n)
    BY <1>1, RaisedGood
  <2>3. n.pc = q.pc /\ Current(n) = Current(q)
    BY <1>1 DEF RequestType, Current
  <2> HIDE DEF n
  <2>4. n.pc \in {"sending", "streaming", "raised"} /\ RecordFail(Current(n))
    BY <2>1, <2>3
  <2> QED
    BY <2>1, <2>2, <2>4, FailureGood
<1> QED
  BY <1>2, <1>3, <1>4

LEMMA NextIInv == IInv /\ [Next]_vars => IInv'
<1> SUFFICES ASSUME IInv, [Next]_vars PROVE IInv'
  OBVIOUS
<1>1. ASSUME NEW r \in Requests, NEW S \in Routes, NEW stream \in BOOLEAN,
             NEW previousId \in BOOLEAN, Arrive(r, S, stream, previousId)
      PROVE  IInv'
  BY <1>1, ArriveGood
<1>2. ASSUME NEW S \in Routes, CountTokens(S) PROVE IInv'
  BY <1>2, CheckedGood DEF CountTokens, IInv, RequestsOK
<1>3. ASSUME NEW r \in Requests,
             \/ \E retryable \in BOOLEAN : AttemptFails(r, retryable)
             \/ LineCaught(r) \/ ConverterRaises(r)
      PROVE  IInv'
  BY <1>3, FailureSteps
<1>4. ASSUME NEW r \in Requests, NEW logging \in Loggings \cup {"none"}, Cancel(r, logging)
      PROVE  IInv'
  BY <1>4, FinishSteps
<1>5. ASSUME NEW r \in Requests, Resume(r) PROVE IInv'
  BY <1>5, ResumeGood
<1>6. ASSUME NEW r \in Requests,
             \/ AttemptSucceeds(r) \/ ConvertRaises(r) \/ Disconnect(r)
             \/ StreamEnds(r) \/ Close(r)
      PROVE  IInv'
  BY <1>6, FinishSteps
<1>7. ASSUME NEW r \in Requests, FirstChunk(r) \/ Forward(r) \/ UpstreamBreaks(r)
      PROVE  IInv'
  BY <1>7, StreamSteps
<1>8. ASSUME NEW r \in Requests, Leave(r) PROVE IInv'
  BY <1>8, IdleGood, RequestStep DEF Leave, IInv, TablesOK, tables
<1>9. ASSUME req' = [r \in Requests |-> Idle] PROVE RequestsOK'
  BY <1>9, IdleGood DEF RequestsOK, GoodRequest
<1>10. CASE Restart
  <2>1. TablesOK'
    BY <1>10, LoadGood DEF Restart, IInv, TablesOK, GoodEntry, GoodRow
  <2> QED
    BY <1>9, <1>10, <2>1 DEF Restart, IInv
<1>11. CASE RestartBlind
  <2>1. TablesOK'
    BY <1>11, FreshGood DEF RestartBlind, IInv, TablesOK, GoodEntry, GoodRow
  <2> QED
    BY <1>9, <1>11, <2>1 DEF RestartBlind, IInv
<1>12. CASE Tick
  BY <1>12, OlderGood DEF Tick, IInv, TablesOK, RequestsOK, GoodEntry, GoodRow
<1>13. CASE UNCHANGED vars
  BY <1>13 DEF vars, tables, IInv, TablesOK, RequestsOK
<1>14. CASE Turn
  BY <1>14, <1>1, <1>2, <1>3, <1>4, <1>5, <1>6, <1>7, <1>8 DEF Turn
<1>15. QED
  BY <1>3, <1>10, <1>11, <1>12, <1>13, <1>14 DEF Next, Serve

LEMMA Inductive == Spec => []IInv
  BY InitIInv, NextIInv, PTL DEF Spec

(* Tables and requests keep their types.                                              *)
THEOREM TypeCorrect == Spec => []TypeOK
<1>1. IInv => TypeOK
  BY DEF IInv, TablesOK, RequestsOK, TypeOK
<1>2. QED
  BY <1>1, Inductive, PTL

(* Every attempt of every request gets exactly one verdict in the breaker's table,    *)
(* but for a last attempt cut by a disconnect or a conversion error, and one more for *)
(* each time a stream's line in the access log raises.                                *)
THEOREM VerdictsCorrect == Spec => []OneVerdictPerAttempt
<1>1. IInv => OneVerdictPerAttempt
  BY DEF IInv, RequestsOK, GoodRequest, OneVerdictPerAttempt
<1>2. QED
  BY <1>1, Inductive, PTL

(* The retry and failover loops stay on the candidate list, leave a provider only     *)
(* after all its tries, and never run out (the code after them is dead).              *)
THEOREM LoopsCorrect == Spec => []LoopsInRange
<1>1. IInv => LoopsInRange
  BY DEF IInv, RequestsOK, GoodRequest, LoopsInRange
<1>2. QED
  BY <1>1, Inductive, PTL

(* A retryable failure reaches the client only after the last try of the last one.    *)
THEOREM FailoverExhaustive == Spec => []GivesUpOnlyWhenExhausted
<1>1. IInv => GivesUpOnlyWhenExhausted
  BY DEF IInv, RequestsOK, GoodRequest, GivesUpOnlyWhenExhausted
<1>2. QED
  BY <1>1, Inductive, PTL

(* One access-log line per answered request, with the exceptions named there.         *)
THEOREM LoggingCorrect == Spec => []LoggedOnce
<1>1. IInv => LoggedOnce
  BY DEF IInv, RequestsOK, GoodRequest, LoggedOnce
<1>2. QED
  BY <1>1, Inductive, PTL
------------------------------------------------------------------------------------
(* The requests, interleaved in any way, use the circuit breaker as Breaker specifies *)
(* it, so that what Breaker_proofs shows of any sequence of calls holds under them.   *)

(* What the steps of Breaker are made of is the same in both modules.                 *)
LEMMA SameOperators ==
  /\ B!Fresh = Fresh
  /\ \A s : B!IsAvailable(s) = IsAvailable(s)
  /\ \A s : B!RecordSuccess(s) = RecordSuccess(s)
  /\ \A s, t : B!RecordFailure(s, t) = RecordFailure(s, t)
  /\ \A s : B!Row(s) = Row(s)
  /\ \A s : B!Load(s) = Load(s)
  /\ \A s : B!Older(s) = Older(s)
<1>1. B!Fresh = Fresh
  BY DEF B!Fresh, Fresh, B!NotOpened, NotOpened
<1>2. ASSUME NEW s PROVE B!IsAvailable(s) = IsAvailable(s)
  BY DEF B!IsAvailable, IsAvailable, B!MaybeHalfOpen, MaybeHalfOpen, B!CooledDown,
         CooledDown, B!NotOpened, NotOpened
<1>3. ASSUME NEW s PROVE B!RecordSuccess(s) = RecordSuccess(s)
  BY DEF B!RecordSuccess, RecordSuccess, B!NotOpened, NotOpened
<1>4. ASSUME NEW s, NEW t PROVE B!RecordFailure(s, t) = RecordFailure(s, t)
  BY DEF B!RecordFailure, RecordFailure
<1>5. ASSUME NEW s PROVE B!Row(s) = Row(s)
  BY DEF B!Row, Row
<1>6. ASSUME NEW s PROVE B!Load(s) = Load(s)
  BY DEF B!Load, Load
<1>7. ASSUME NEW s PROVE B!Older(s) = Older(s)
  BY DEF B!Older, Older, B!NotOpened, NotOpened
<1> QED
  BY <1>1, <1>2, <1>3, <1>4, <1>5, <1>6, <1>7

(* Asking the candidates of one model is one call of the filter, or none at all.      *)
LEMMA CheckedFilters ==
  ASSUME TablesOK, NEW S \in Routes, NEW breaker \in BOOLEAN,
         stats' = Checked(S, breaker), UNCHANGED <<saved, parted>>
  PROVE  B!Next \/ UNCHANGED B!vars
<1>1. S \subseteq Providers
  BY GatewayAssumption
<1>2. CASE breaker
  <2>1. stats' = [p \in Providers |-> IF p \in S THEN B!IsAvailable(stats[p]) ELSE stats[p]]
    BY <1>2, SameOperators DEF Checked
  <2>2. B!Filter(S)
    BY <1>1, <2>1 DEF B!Filter
  <2> QED
    BY <1>1, <2>2 DEF B!Next
<1>3. CASE ~breaker
  <2>1. stats' = stats
    BY <1>3 DEF Checked, TablesOK
  <2> QED
    BY <2>1 DEF B!vars
<1> QED
  BY <1>2, <1>3

(* A verdict is one call of record_success or record_failure.                         *)
LEMMA VerdictRecords ==
  ASSUME NEW p \in Providers, RecordOk(p) \/ RecordFail(p)
  PROVE  B!Next
<1>0. ASSUME NEW s, Persist(p, s) PROVE B!Persist(p, s)
  BY <1>0, SameOperators DEF Persist, B!Persist
<1>1. CASE RecordOk(p)
  <2>1. B!Persist(p, B!RecordSuccess(stats[p]))
    BY <1>0, <1>1, SameOperators DEF RecordOk
  <2>2. B!Success(p)
    BY <1>1, <2>1, SameOperators DEF RecordOk, B!Success
  <2> QED
    BY <2>2 DEF B!Next
<1>2. CASE RecordFail(p)
  <2>1. B!Persist(p, B!RecordFailure(stats[p], Threshold))
    BY <1>0, <1>2, SameOperators DEF RecordFail
  <2>2. B!Failure(p)
    BY <1>2, <2>1, SameOperators DEF RecordFail, B!Failure
  <2> QED
    BY <2>2 DEF B!Next
<1> QED
  BY <1>1, <1>2

LEMMA BreakerInit == Init => B!Init
  BY SameOperators DEF Init, B!Init

LEMMA BreakerStep == IInv /\ [Next]_vars => [B!Next]_(B!vars)
<1> SUFFICES ASSUME IInv, [Next]_vars PROVE B!Next \/ UNCHANGED B!vars
  OBVIOUS
<1>1. TablesOK /\ RequestsOK
  BY DEF IInv
<1>2. ASSUME NEW r \in Requests, req[r].pc \in Live PROVE Current(req[r]) \in Providers
  BY <1>1, <1>2, CurrentType DEF RequestsOK
<1>3. ASSUME NEW r \in Requests, NEW S \in Routes, NEW stream \in BOOLEAN,
             NEW previousId \in BOOLEAN, Arrive(r, S, stream, previousId)
      PROVE  B!Next \/ UNCHANGED B!vars
  <2>1. PICK breaker \in BreakerSettings : stats' = Checked(S, breaker)
    BY <1>3 DEF Arrive
  <2>2. breaker \in BOOLEAN /\ UNCHANGED <<saved, parted>>
    BY <1>3, GatewayAssumption DEF Arrive
  <2> QED
    BY <1>1, <2>1, <2>2, CheckedFilters
<1>4. ASSUME NEW S \in Routes, CountTokens(S) PROVE B!Next \/ UNCHANGED B!vars
  <2>1. PICK breaker \in BreakerSettings : stats' = Checked(S, breaker)
    BY <1>4 DEF CountTokens
  <2>2. breaker \in BOOLEAN /\ UNCHANGED <<saved, parted>>
    BY <1>4, GatewayAssumption DEF CountTokens
  <2> QED
    BY <1>1, <2>1, <2>2, CheckedFilters
<1>5. ASSUME NEW r \in Requests,
             \/ \E retryable \in BOOLEAN : AttemptFails(r, retryable)
             \/ AttemptSucceeds(r) \/ StreamEnds(r) \/ ConverterRaises(r) \/ LineCaught(r)
      PROVE  B!Next
  <2>1. req[r].pc \in {"sending", "streaming", "raised"}
    BY <1>5 DEF AttemptFails, AttemptSucceeds, StreamEnds, ConverterRaises, LineCaught
  <2>2. RecordOk(Current(req[r])) \/ RecordFail(Current(req[r]))
    BY <1>5, Zenon DEF AttemptFails, AttemptSucceeds, StreamEnds, ConverterRaises, LineCaught
  <2> QED
    BY <1>2, <2>1, <2>2, VerdictRecords DEF Live
<1>6. ASSUME NEW r \in Requests,
             \/ \E logging \in Loggings \cup {"none"} : Cancel(r, logging)
             \/ Resume(r) \/ ConvertRaises(r) \/ Disconnect(r) \/ FirstChunk(r)
             \/ Forward(r) \/ UpstreamBreaks(r) \/ Close(r) \/ Leave(r)
      PROVE  UNCHANGED B!vars
  <2>1. UNCHANGED tables
    BY <1>6, Zenon
       DEF Cancel, Resume, ConvertRaises, Disconnect, FirstChunk, Forward,
           UpstreamBreaks, Close, Leave
  <2> QED
    BY <2>1 DEF B!vars, tables
<1>7. CASE Restart
  <2>1. B!Restart
    BY <1>7, SameOperators DEF Restart, B!Restart
  <2> QED
    BY <2>1 DEF B!Next
<1>8. CASE RestartBlind
  <2>1. B!RestartBlind
    BY <1>8, SameOperators DEF RestartBlind, B!RestartBlind
  <2> QED
    BY <2>1 DEF B!Next
<1>9. CASE Tick
  <2>1. B!Tick
    BY <1>9, SameOperators DEF Tick, B!Tick
  <2> QED
    BY <2>1 DEF B!Next
<1>10. CASE UNCHANGED vars
  BY <1>10 DEF vars, tables, B!vars
<1>11. CASE Turn
  BY <1>11, <1>3, <1>4, <1>5, <1>6, Zenon DEF Turn
<1> QED
  BY <1>5, <1>7, <1>8, <1>9, <1>10, <1>11, Zenon DEF Next, Serve

(* Any number of requests in flight, whatever awaits and yields they interleave at,   *)
(* change the breaker's table and rows only as a sequence of whole calls of health.py *)
(* would: Gateway implements Breaker.                                                 *)
THEOREM GatewayImplementsBreaker == Spec => ImplementsBreaker
  BY BreakerInit, BreakerStep, Inductive, PTL DEF Spec, ImplementsBreaker, B!Spec
------------------------------------------------------------------------------------
(* What a request promises its client, for any number of requests, providers, routes  *)
(* and retries, whatever goes wrong: no attempt after content unless an exception of  *)
(* the gateway's own was caught, and the contract of Contract.                        *)

(* Content has been sent only by a stream that still goes on or that is over, if no   *)
(* exception was caught; a free slot holds nothing of its last request.               *)
Tidy(q) ==
    /\ q.sent => q.pc \in {"streaming", "done"} \/ q.raised
    /\ q.pc = "idle" => q = Idle

TidyInv == \A r \in Requests : Tidy(req[r])

(* The parts of a request that its client can tell.                                   *)
Phase(q) == IF q.pc \in Live THEN "working" ELSE IF q.pc = "done" THEN "answered" ELSE "idle"

SameToClient(q, n) == n.attempts = q.attempts /\ n.cands = q.cands /\ n.sent = q.sent

Same(q, n) == SameToClient(q, n) /\ n.raised = q.raised

LEMMA FinishFields ==
  ASSUME NEW q \in RequestType, NEW outcome, NEW logging
  PROVE  /\ Finish(q, outcome, logging).pc = "done"
         /\ Same(q, Finish(q, outcome, logging))
  BY DEF Finish, RequestType, Same, SameToClient

LEMMA AfterFailureFields ==
  ASSUME NEW q \in RequestType, NEW retryable \in BOOLEAN, NEW logging
  PROVE  /\ AfterFailure(q, retryable, logging).pc \in {"backoff", "closing", "done"}
         /\ Same(q, AfterFailure(q, retryable, logging))
<1> DEFINE j == Judged(q)
           outcome == IF retryable THEN "retryable" ELSE "final"
<1>1. j \in RequestType
  BY JudgedFields
<1>2. Same(q, j)
  BY JudgedFields DEF Same, SameToClient
<1>3. AfterFailure(q, retryable, logging) \in
         {[j EXCEPT !.pc = "backoff"],
          [j EXCEPT !.pc = "closing", !.outcome = outcome],
          Finish(j, outcome, logging)}
  BY Zenon DEF AfterFailure, GiveUp
<1> HIDE DEF j, outcome
<1>4. ASSUME NEW n, n = [j EXCEPT !.pc = "backoff"]
      PROVE  n.pc = "backoff" /\ Same(q, n)
  BY <1>1, <1>2, <1>4 DEF RequestType, Same, SameToClient
<1>5. ASSUME NEW n, n = [j EXCEPT !.pc = "closing", !.outcome = outcome]
      PROVE  n.pc = "closing" /\ Same(q, n)
  BY <1>1, <1>2, <1>5 DEF RequestType, Same, SameToClient
<1>6. ASSUME NEW n, n = Finish(j, outcome, logging)
      PROVE  n.pc = "done" /\ Same(q, n)
  <2>1. n.pc = "done" /\ Same(j, n)
    BY <1>1, <1>6, FinishFields
  <2> QED
    BY <1>2, <2>1 DEF Same, SameToClient
<1> QED
  BY <1>3, <1>4, <1>5, <1>6

LEMMA LaunchFields ==
  ASSUME NEW q \in RequestType, NEW pi, NEW a
  PROVE  /\ Launch(q, pi, a).pc = "sending"
         /\ Launch(q, pi, a).attempts = q.attempts + 1
         /\ Launch(q, pi, a).cands = q.cands
         /\ Launch(q, pi, a).sent = q.sent
         /\ Launch(q, pi, a).raised = q.raised
  BY DEF Launch, RequestType
----------------------------------------------------------------------------------
(* What a step does to one request, as its client sees it.                            *)
Began(q, n) ==     \* a new request is sent upstream
    /\ q = Idle /\ n.pc = "sending" /\ n.attempts = 1 /\ n.sent = FALSE /\ n.raised = FALSE
    /\ n.cands \in Seq(Providers) /\ Len(n.cands) >= 1
    /\ IsFiniteSet(Providers) => Len(n.cands) <= Cardinality(Providers)

Refused(q, n) ==   \* no provider is left for it
    q = Idle /\ n.pc = "done" /\ Same(q, n)

Retried(q, n) ==
    /\ q.pc = "backoff" /\ n.pc = "sending"
    /\ n.attempts = q.attempts + 1 /\ n.cands = q.cands /\ n.sent = q.sent
    /\ n.raised = q.raised

WentOn(q, n) ==    \* nothing new for the client
    /\ q.pc \in Live /\ n.pc \in Live /\ Same(q, n)
    /\ n.pc = "streaming" \/ q.pc \in {"sending", "raised"}

Stumbled(q, n) ==  \* an exception of the gateway's own is on the way
    q.pc = "streaming" /\ n.pc \in Live /\ n.raised = TRUE /\ SameToClient(q, n)

Sent(q, n) ==
    /\ q.pc = "streaming" /\ n.pc = "streaming" /\ n.sent = TRUE
    /\ n.attempts = q.attempts /\ n.cands = q.cands /\ n.raised = q.raised

Ended(q, n) == q.pc \in Live /\ n.pc = "done" /\ Same(q, n)

Left(q, n) == q.pc = "done" /\ n = Idle

Moved(q, n) ==
    \/ Began(q, n) \/ Refused(q, n) \/ Retried(q, n) \/ WentOn(q, n) \/ Stumbled(q, n)
    \/ Sent(q, n) \/ Ended(q, n) \/ Left(q, n)

(* A list of candidates names each provider once, so it is no longer than they are.   *)
LEMMA CandidatesBound ==
  ASSUME IsFiniteSet(Providers), NEW S \in Routes, NEW breaker \in BOOLEAN,
         NEW failover \in BOOLEAN, NEW previousId \in BOOLEAN,
         NEW cands \in Candidates(Admitted(S, breaker), failover, previousId)
  PROVE  Len(cands) <= Cardinality(Providers)
<1> DEFINE admitted == Admitted(S, breaker)
           able == IF previousId THEN ResponsesMode ELSE Providers
           kept == admitted \cap able
<1>1. kept \subseteq Providers
  BY GatewayAssumption DEF Admitted
<1>2. /\ IsFiniteSet(kept) /\ Cardinality(kept) \in Nat
      /\ Cardinality(Providers) \in Nat /\ Cardinality(kept) <= Cardinality(Providers)
  BY <1>1, FS_Subset, FS_CardinalityType
<1>3. CASE cands \in SetToSeqs(kept)
  <2>1. cands \in [1..Cardinality(kept) -> kept]
    BY <1>3 DEF SetToSeqs
  <2>2. PICK n \in Nat : n = Cardinality(kept)
    BY <1>2
  <2>3. cands \in Seq(kept) /\ Len(cands) = n
    <3>1. cands \in [1..n -> kept]
      BY <2>1, <2>2
    <3> QED
      BY <3>1, SeqDef, LenProperties
  <2> QED
    BY <1>2, <2>2, <2>3
<1>4. CASE cands \in {<<p>> : p \in kept}
  <2>1. PICK p \in kept : cands = <<p>>
    BY <1>4
  <2>2. Cardinality(Providers) # 0
    BY <1>1, <2>1, FS_EmptySet
  <2> QED
    BY <1>2, <2>1, <2>2
<1>5. CASE cands = <<>>
  BY <1>2, <1>5
<1> QED
  BY <1>3, <1>4, <1>5 DEF Candidates

LEMMA ArriveMoves ==
  ASSUME NEW r \in Requests, RequestsOK, Tidy(req[r]), NEW S \in Routes,
         NEW stream \in BOOLEAN, NEW previousId \in BOOLEAN,
         Arrive(r, S, stream, previousId)
  PROVE  \E n : req' = [req EXCEPT ![r] = n] /\ Moved(req[r], n)
<1>0. PICK breaker \in BreakerSettings, failover \in FailoverSettings, logging \in Loggings :
         \E cands \in Candidates(Admitted(S, breaker), failover, previousId) :
            LET q == [Idle EXCEPT !.stream = stream, !.failover = failover, !.cands = cands]
            IN  req' = [req EXCEPT ![r] = IF cands = <<>> THEN Finish(q, "bad_request", logging)
                                          ELSE Launch(q, 1, 1)]
  BY DEF Arrive
<1>1. PICK cands \in Candidates(Admitted(S, breaker), failover, previousId) :
         LET q == [Idle EXCEPT !.stream = stream, !.failover = failover, !.cands = cands]
         IN  req' = [req EXCEPT ![r] = IF cands = <<>> THEN Finish(q, "bad_request", logging)
                                       ELSE Launch(q, 1, 1)]
  BY <1>0
<1> DEFINE q == [Idle EXCEPT !.stream = stream, !.failover = failover, !.cands = cands]
<1>2. breaker \in BOOLEAN /\ failover \in BOOLEAN
  BY GatewayAssumption
<1>3. /\ cands \in Seq(Providers)
      /\ IsFiniteSet(Providers) => Len(cands) <= Cardinality(Providers)
  BY <1>2, CandidatesType, CandidatesBound
<1>4. /\ q \in RequestType /\ q.cands = cands /\ q.attempts = 0 /\ ~q.sent /\ ~q.raised
  BY <1>2, <1>3, IdleGood DEF GoodRequest, Idle, RequestType
<1>5. req[r] = Idle
  BY DEF Arrive, Tidy
<1>6. Idle.attempts = 0 /\ Idle.cands = <<>> /\ Idle.sent = FALSE /\ Idle.raised = FALSE
  BY DEF Idle
<1>7. q.sent = Idle.sent /\ q.raised = Idle.raised
  BY DEF Idle
<1> HIDE DEF q
<1>8. CASE cands = <<>>
  <2> DEFINE n == Finish(q, "bad_request", logging)
  <2>1. n.pc = "done" /\ Same(q, n)
    BY <1>4, FinishFields
  <2>2. req' = [req EXCEPT ![r] = n]
    BY <1>1, <1>8 DEF q
  <2>3. Refused(req[r], n)
    BY <1>4, <1>5, <1>6, <1>7, <1>8, <2>1 DEF Refused, Same, SameToClient
  <2> QED
    BY <2>2, <2>3 DEF Moved
<1>9. CASE cands # <<>>
  <2> DEFINE n == Launch(q, 1, 1)
  <2>1. /\ n.pc = "sending" /\ n.attempts = q.attempts + 1 /\ n.cands = q.cands
        /\ n.sent = q.sent /\ n.raised = q.raised
    BY <1>4, LaunchFields
  <2>2. req' = [req EXCEPT ![r] = n]
    BY <1>1, <1>9 DEF q
  <2>3. Len(cands) >= 1
    BY <1>3, <1>9, EmptySeq, LenProperties
  <2> HIDE DEF n
  <2>4. Began(req[r], n)
    BY <1>3, <1>4, <1>5, <2>1, <2>3 DEF Began
  <2> QED
    BY <2>2, <2>4 DEF Moved
<1> QED
  BY <1>8, <1>9

(* A failed attempt goes on or ends the request.                                      *)
LEMMA FailureMoves ==
  ASSUME NEW r \in Requests, RequestsOK,
         \/ \E retryable \in BOOLEAN : AttemptFails(r, retryable)
         \/ LineCaught(r)
  PROVE  \E n : req' = [req EXCEPT ![r] = n] /\ Moved(req[r], n)
<1>1. PICK retryable \in BOOLEAN, logging \in Loggings :
         /\ req[r].pc \in {"sending", "raised"}
         /\ req' = [req EXCEPT ![r] = AfterFailure(req[r], retryable, logging)]
  BY DEF AttemptFails, LineCaught
<1> DEFINE n == AfterFailure(req[r], retryable, logging)
<1>2. req[r] \in RequestType /\ req' = [req EXCEPT ![r] = n]
  BY <1>1 DEF RequestsOK
<1>3. n.pc \in {"backoff", "closing", "done"} /\ Same(req[r], n)
  BY <1>2, AfterFailureFields
<1> HIDE DEF n
<1>4. Moved(req[r], n)
  BY <1>1, <1>3 DEF Moved, WentOn, Ended, Live
<1> QED
  BY <1>2, <1>4

(* A stream fails by an exception of its converter.                                   *)
LEMMA ConverterMoves ==
  ASSUME NEW r \in Requests, RequestsOK, ConverterRaises(r)
  PROVE  \E n : req' = [req EXCEPT ![r] = n] /\ Moved(req[r], n)
<1> DEFINE q == req[r]
           m == [q EXCEPT !.raised = TRUE]
           j == Judged(m)
<1>1. /\ q \in RequestType /\ q.pc = "streaming" /\ q.stream
  BY DEF RequestsOK, GoodRequest, ConverterRaises
<1>2. PICK logging \in Loggings : req' = [req EXCEPT ![r] = AfterFailure(m, TRUE, logging)]
  BY DEF ConverterRaises
<1>3. m \in RequestType /\ SameToClient(q, m) /\ m.raised = TRUE /\ m.stream
  BY <1>1 DEF RequestType, SameToClient
<1> DEFINE n == AfterFailure(m, TRUE, logging)
<1> HIDE DEF m
<1>4. n.pc \in {"backoff", "closing", "done"} /\ Same(m, n)
  BY <1>3, AfterFailureFields
<1>5. n.pc # "done"
  <2>1. j \in RequestType /\ j.stream
    BY <1>3, JudgedFields
  <2> DEFINE b == [j EXCEPT !.pc = "backoff"]
             c == [j EXCEPT !.pc = "closing", !.outcome = "retryable"]
  <2>2. n = b \/ n = c
    BY <2>1, Zenon DEF AfterFailure, GiveUp
  <2> HIDE DEF j, n
  <2>3. b.pc = "backoff" /\ c.pc = "closing"
    BY <2>1 DEF RequestType
  <2> HIDE DEF b, c
  <2> QED
    BY <2>2, <2>3
<1> HIDE DEF n
<1>6. Stumbled(q, n)
  BY <1>1, <1>3, <1>4, <1>5 DEF Stumbled, Same, SameToClient, Live
<1> QED
  BY <1>2, <1>6 DEF Moved, n

LEMMA ResumeMoves ==
  ASSUME NEW r \in Requests, RequestsOK, Resume(r)
  PROVE  \E n : req' = [req EXCEPT ![r] = n] /\ Moved(req[r], n)
<1>1. req[r] \in RequestType /\ req[r].pc = "backoff"
  BY DEF RequestsOK, Resume
<1>2. PICK pi, a : req' = [req EXCEPT ![r] = Launch(req[r], pi, a)]
  BY DEF Resume
<1>3. Retried(req[r], Launch(req[r], pi, a))
  BY <1>1, LaunchFields DEF Retried
<1> QED
  BY <1>2, <1>3 DEF Moved

(* An attempt, or a request that gave up, ends.                                       *)
LEMMA EndMoves ==
  ASSUME NEW r \in Requests, RequestsOK,
         \/ \E logging \in Loggings \cup {"none"} : Cancel(r, logging)
         \/ AttemptSucceeds(r) \/ ConvertRaises(r) \/ Disconnect(r) \/ Close(r)
  PROVE  \E n : req' = [req EXCEPT ![r] = n] /\ Moved(req[r], n)
<1> DEFINE q == req[r]
<1>1. q \in RequestType /\ q.pc \in Live
  BY DEF RequestsOK, Cancel, AttemptSucceeds, ConvertRaises, Disconnect, Close, Live
<1>2. \E outcome, logging :
         \/ req' = [req EXCEPT ![r] = Finish(q, outcome, logging)]
         \/ req' = [req EXCEPT ![r] = Finish(Judged(q), outcome, logging)]
  <2>1. ASSUME NEW logging \in Loggings \cup {"none"}, Cancel(r, logging)
        PROVE  req' = [req EXCEPT ![r] = Finish(q, "disconnect", logging)]
    BY <2>1 DEF Cancel
  <2>2. ASSUME AttemptSucceeds(r)
        PROVE  \E logging : req' = [req EXCEPT ![r] = Finish(Judged(q), "ok", logging)]
    BY <2>2 DEF AttemptSucceeds
  <2>3. ASSUME ConvertRaises(r)
        PROVE  req' = [req EXCEPT ![r] = Finish(q, "convert_error", "none")]
    BY <2>3 DEF ConvertRaises
  <2>4. ASSUME Disconnect(r)
        PROVE  \E logging : req' = [req EXCEPT ![r] = Finish(q, "disconnect", logging)]
    BY <2>4 DEF Disconnect
  <2>5. ASSUME Close(r)
        PROVE  \E logging : req' = [req EXCEPT ![r] = Finish(q, q.outcome, logging)]
    BY <2>5 DEF Close
  <2> QED
    BY <2>1, <2>2, <2>3, <2>4, <2>5, Zenon
<1>3. PICK outcome, logging :
         \/ req' = [req EXCEPT ![r] = Finish(q, outcome, logging)]
         \/ req' = [req EXCEPT ![r] = Finish(Judged(q), outcome, logging)]
  BY <1>2, Zenon
<1>4. Ended(q, Finish(q, outcome, logging))
  BY <1>1, FinishFields DEF Ended
<1>5. Ended(q, Finish(Judged(q), outcome, logging))
  <2>1. Judged(q) \in RequestType /\ Same(q, Judged(q))
    BY <1>1, JudgedFields DEF Same, SameToClient
  <2> DEFINE n == Finish(Judged(q), outcome, logging)
  <2>2. n.pc = "done" /\ Same(Judged(q), n)
    BY <2>1, FinishFields
  <2> HIDE DEF n
  <2> QED
    BY <1>1, <2>1, <2>2 DEF Ended, Same, SameToClient, n
<1> QED
  BY <1>3, <1>4, <1>5 DEF Moved

(* A stream is over, and its line is in, or raises.                                   *)
LEMMA StreamEndMoves ==
  ASSUME NEW r \in Requests, RequestsOK, StreamEnds(r)
  PROVE  \E n : req' = [req EXCEPT ![r] = n] /\ Moved(req[r], n)
<1> DEFINE q == req[r]
           j == Judged(q)
           outcome == IF q.sink THEN "broken" ELSE "ok"
<1>1. q \in RequestType /\ q.pc = "streaming"
  BY DEF RequestsOK, StreamEnds
<1>2. PICK logging \in Loggings : req' = [req EXCEPT ![r] = StreamLogged(q, outcome, logging)]
  BY DEF StreamEnds
<1>3. j \in RequestType /\ Same(q, j)
  BY <1>1, JudgedFields DEF Same, SameToClient
<1> HIDE DEF outcome
<1>4. CASE logging = "written"
  <2> DEFINE n == Finish(j, outcome, logging)
  <2>1. StreamLogged(q, outcome, logging) = n
    BY <1>4 DEF StreamLogged
  <2>2. n.pc = "done" /\ Same(j, n)
    BY <1>3, FinishFields
  <2> HIDE DEF n
  <2>3. Ended(q, n)
    BY <1>1, <1>3, <2>2 DEF Ended, Same, SameToClient, Live
  <2> QED
    BY <1>2, <2>1, <2>3 DEF Moved
<1>5. CASE logging # "written"
  <2> DEFINE n == [j EXCEPT !.pc = "raised", !.raised = TRUE, !.rejudged = @ + 1,
                            !.logs = @ + Lines(logging)]
  <2>1. StreamLogged(q, outcome, logging) = n
    BY <1>5 DEF StreamLogged
  <2> HIDE DEF j
  <2>2. n.pc = "raised" /\ n.raised = TRUE /\ SameToClient(j, n)
    BY <1>3 DEF RequestType, SameToClient
  <2> HIDE DEF n
  <2>3. Stumbled(q, n)
    BY <1>1, <1>3, <2>2 DEF Stumbled, Same, SameToClient, Live
  <2> QED
    BY <1>2, <2>1, <2>3 DEF Moved
<1> QED
  BY <1>4, <1>5

(* The steps inside a stream, and the client's leaving.                               *)
LEMMA StreamMoves ==
  ASSUME NEW r \in Requests, RequestsOK,
         FirstChunk(r) \/ Forward(r) \/ UpstreamBreaks(r) \/ Leave(r)
  PROVE  \E n : req' = [req EXCEPT ![r] = n] /\ Moved(req[r], n)
<1> DEFINE q == req[r]
<1>1. q \in RequestType
  BY DEF RequestsOK
<1>2. CASE FirstChunk(r)
  <2> DEFINE n == [q EXCEPT !.pc = "streaming"]
  <2>1. WentOn(q, n)
    BY <1>1, <1>2 DEF FirstChunk, WentOn, Same, SameToClient, Live, RequestType
  <2>2. req' = [req EXCEPT ![r] = n]
    BY <1>2 DEF FirstChunk
  <2> QED
    BY <2>1, <2>2 DEF Moved
<1>3. CASE Forward(r)
  <2> DEFINE n == [q EXCEPT !.sent = TRUE]
  <2>1. Sent(q, n)
    BY <1>1, <1>3 DEF Forward, Sent, RequestType
  <2>2. req' = [req EXCEPT ![r] = n]
    BY <1>3 DEF Forward
  <2> QED
    BY <2>1, <2>2 DEF Moved
<1>4. CASE UpstreamBreaks(r)
  <2> DEFINE n == [q EXCEPT !.sink = TRUE]
  <2>1. WentOn(q, n)
    BY <1>1, <1>4 DEF UpstreamBreaks, WentOn, Same, SameToClient, Live, RequestType
  <2>2. req' = [req EXCEPT ![r] = n]
    BY <1>4 DEF UpstreamBreaks
  <2> QED
    BY <2>1, <2>2 DEF Moved
<1>5. CASE Leave(r)
  BY <1>5 DEF Leave, Moved, Left
<1> QED
  BY <1>2, <1>3, <1>4, <1>5

(* Every step moves one request, or restarts the process, or touches none.            *)
LEMMA StepMoves ==
  ASSUME RequestsOK, TidyInv, [Next]_vars
  PROVE  \/ \E r \in Requests : \E n : req' = [req EXCEPT ![r] = n] /\ Moved(req[r], n)
         \/ req' = [r \in Requests |-> Idle]
         \/ req' = req
<1> DEFINE Moves(r) == \E n : req' = [req EXCEPT ![r] = n] /\ Moved(req[r], n)
<1>1. ASSUME NEW r \in Requests, NEW S \in Routes, NEW stream \in BOOLEAN,
             NEW previousId \in BOOLEAN, Arrive(r, S, stream, previousId)
      PROVE  Moves(r)
  BY <1>1, ArriveMoves DEF TidyInv
<1>2. ASSUME NEW S \in Routes, CountTokens(S) PROVE req' = req
  BY <1>2 DEF CountTokens
<1>3. ASSUME NEW r \in Requests,
             \/ \E retryable \in BOOLEAN : AttemptFails(r, retryable)
             \/ LineCaught(r)
      PROVE  Moves(r)
  BY <1>3, FailureMoves
<1>4. ASSUME NEW r \in Requests,
             \/ \E logging \in Loggings \cup {"none"} : Cancel(r, logging)
             \/ AttemptSucceeds(r) \/ ConvertRaises(r) \/ Disconnect(r) \/ Close(r)
      PROVE  Moves(r)
  BY <1>4, EndMoves
<1>5. ASSUME NEW r \in Requests,
             FirstChunk(r) \/ Forward(r) \/ UpstreamBreaks(r) \/ Leave(r)
      PROVE  Moves(r)
  BY <1>5, StreamMoves
<1>6. ASSUME NEW r \in Requests, Resume(r) PROVE Moves(r)
  BY <1>6, ResumeMoves
<1>7. ASSUME NEW r \in Requests, ConverterRaises(r) PROVE Moves(r)
  BY <1>7, ConverterMoves
<1>8. ASSUME NEW r \in Requests, StreamEnds(r) PROVE Moves(r)
  BY <1>8, StreamEndMoves
<1>9. CASE Restart \/ RestartBlind
  BY <1>9 DEF Restart, RestartBlind
<1>10. CASE Tick
  BY <1>10 DEF Tick
<1>11. CASE UNCHANGED vars
  BY <1>11 DEF vars
<1> HIDE DEF Moves
<1>12. CASE Turn
  <2> DEFINE Came(r) == \E S \in Routes, stream, previousId \in BOOLEAN :
                           Arrive(r, S, stream, previousId)
             Failed(r) == \E retryable \in BOOLEAN : AttemptFails(r, retryable)
             Went(r) == \E logging \in Loggings \cup {"none"} : Cancel(r, logging)
  <2>1. \/ \E S \in Routes : CountTokens(S)
        \/ \E r \in Requests :
              \/ Came(r) \/ Failed(r) \/ Went(r) \/ Resume(r) \/ AttemptSucceeds(r)
              \/ ConvertRaises(r) \/ Disconnect(r) \/ FirstChunk(r) \/ Forward(r)
              \/ UpstreamBreaks(r) \/ StreamEnds(r) \/ ConverterRaises(r) \/ Close(r)
              \/ Leave(r)
    BY <1>12, Zenon DEF Turn
  <2>2. ASSUME NEW r \in Requests, Came(r) PROVE Moves(r)
    BY <1>1, <2>2
  <2>3. ASSUME NEW r \in Requests, Failed(r) PROVE Moves(r)
    BY <1>3, <2>3
  <2>4. ASSUME NEW r \in Requests, Went(r) PROVE Moves(r)
    BY <1>4, <2>4
  <2> HIDE DEF Came, Failed, Went
  <2>5. (\E r \in Requests : Moves(r)) \/ req' = req
    BY <2>1, <2>2, <2>3, <2>4, <1>2, <1>4, <1>5, <1>6, <1>7, <1>8
  <2> QED
    BY <2>5 DEF Moves
<1>13. CASE \E r \in Requests : LineCaught(r)
  <2>1. \E r \in Requests : Moves(r)
    BY <1>13, <1>3
  <2> QED
    BY <2>1 DEF Moves
<1> QED
  BY <1>9, <1>10, <1>11, <1>12, <1>13 DEF Next, Serve
----------------------------------------------------------------------------------
LEMMA InitTidy == Init => TidyInv
  BY DEF Init, TidyInv, Tidy, Idle

LEMMA MovedTidy ==
  ASSUME NEW q, NEW n, n.pc \in Phases, Tidy(q), Moved(q, n)
  PROVE  Tidy(n)
<1>1. ~Idle.sent /\ ~Idle.raised
  BY DEF Idle
<1>2. CASE Began(q, n) \/ Refused(q, n)
  BY <1>1, <1>2 DEF Began, Refused, Same, SameToClient, Tidy
<1>3. CASE Retried(q, n)
  BY <1>3 DEF Retried, Tidy
<1>4. CASE WentOn(q, n)
  BY <1>4 DEF WentOn, Same, SameToClient, Tidy, Live
<1>5. CASE Stumbled(q, n)
  BY <1>5 DEF Stumbled, Tidy, Live
<1>6. CASE Sent(q, n) \/ Ended(q, n)
  BY <1>6 DEF Sent, Ended, Same, SameToClient, Tidy
<1>7. CASE Left(q, n)
  BY <1>1, <1>7 DEF Left, Tidy
<1> QED
  BY <1>2, <1>3, <1>4, <1>5, <1>6, <1>7 DEF Moved

LEMMA NextTidy ==
  ASSUME IInv, TidyInv, [Next]_vars
  PROVE  TidyInv'
<1>1. RequestsOK /\ req' \in [Requests -> RequestType]
  BY NextIInv DEF IInv, RequestsOK
<1>2. ASSUME NEW r \in Requests, NEW n, req' = [req EXCEPT ![r] = n], Moved(req[r], n)
      PROVE  TidyInv'
  <2>1. n.pc \in Phases
    BY <1>1, <1>2 DEF RequestsOK, RequestType
  <2>2. Tidy(n)
    BY <1>2, <2>1, MovedTidy DEF TidyInv
  <2> QED
    BY <1>1, <1>2, <2>2 DEF TidyInv, RequestsOK
<1>3. ASSUME req' = [r \in Requests |-> Idle] PROVE TidyInv'
  BY <1>3 DEF TidyInv, Tidy, Idle
<1>4. ASSUME req' = req PROVE TidyInv'
  BY <1>4 DEF TidyInv
<1> QED
  BY <1>1, <1>2, <1>3, <1>4, StepMoves

LEMMA TidyInductive == Spec => [](IInv /\ TidyInv)
<1>1. IInv /\ TidyInv /\ [Next]_vars => TidyInv'
  BY NextTidy
<1> QED
  BY <1>1, InitTidy, InitIInv, NextIInv, PTL DEF Spec

(* Whatever fails, content that has reached the client is never followed by another   *)
(* attempt of its request, unless `except Exception` has caught an exception of the   *)
(* stream's converter or of its line in the access log.                               *)
THEOREM ContentFinal == Spec => []ContentIsFinal
<1>1. TidyInv => ContentIsFinal
  BY DEF TidyInv, Tidy, ContentIsFinal
<1> QED
  BY <1>1, TidyInductive, PTL
----------------------------------------------------------------------------------
(* The state of Contract that a state of the requests stands for.                     *)
Budget(q) == Len(q.cands) * (RetryCount + 1)

PhaseOf   == [r \in Requests |-> Phase(req[r])]
TriesOf   == [r \in Requests |-> req[r].attempts]
BudgetOf  == [r \in Requests |-> Budget(req[r])]
ContentOf == [r \in Requests |-> req[r].sent]
ExcusedOf == [r \in Requests |-> req[r].raised]

Budgets == {n * (RetryCount + 1) : n \in 1..Cardinality(Providers)}

(* A step of one request is a step of the same slot of the contract.                  *)
LEMMA OneSlot ==
  ASSUME RequestsOK, NEW r \in Requests, NEW n, req' = [req EXCEPT ![r] = n]
  PROVE  /\ PhaseOf' = [PhaseOf EXCEPT ![r] = Phase(n)]
         /\ TriesOf' = [TriesOf EXCEPT ![r] = n.attempts]
         /\ BudgetOf' = [BudgetOf EXCEPT ![r] = Budget(n)]
         /\ ContentOf' = [ContentOf EXCEPT ![r] = n.sent]
         /\ ExcusedOf' = [ExcusedOf EXCEPT ![r] = n.raised]
  BY DEF RequestsOK, PhaseOf, TriesOf, BudgetOf, ContentOf, ExcusedOf, Phase, Budget

(* A request in backoff has used less than its budget: it is before the last try of   *)
(* its provider, or before its last provider.                                         *)
LEMMA BudgetLeft ==
  ASSUME NEW q, GoodRequest(q), q.pc = "backoff"
  PROVE  q.attempts < Budget(q)
<1> DEFINE tries == RetryCount + 1
           last == Len(q.cands)
<1>1. /\ q.pi \in 1..last /\ q.attempt \in 1..tries
      /\ q.attempts = (q.pi - 1) * tries + q.attempt
      /\ q.attempt <= RetryCount \/ q.pi < last
  BY DEF GoodRequest, InRange, Live
<1>2. last \in Nat /\ tries \in Nat /\ RetryCount \in Nat
  BY LenProperties, GatewayAssumption DEF GoodRequest, RequestType
<1> HIDE DEF last
<1>3. ASSUME NEW d \in Nat, last = q.pi + d PROVE last * tries = q.pi * tries + d * tries
  BY <1>1, <1>2, <1>3
<1>4. PICK d \in Nat : last = q.pi + d
  <2>1. last - q.pi \in Nat
    BY <1>1, <1>2
  <2> QED
    BY <1>1, <1>2, <2>1
<1>5. q.attempts = q.pi * tries - tries + q.attempt
  BY <1>1, <1>2
<1>6. q.pi * tries \in Nat /\ d * tries \in Nat
  BY <1>1, <1>2
<1>7. CASE d = 0
  BY <1>1, <1>2, <1>3, <1>4, <1>5, <1>6, <1>7 DEF Budget, last
<1>8. CASE d # 0
  <2>1. d * tries >= 1
    <3>1. PICK e \in Nat : d = e + 1
      <4>1. d - 1 \in Nat
        BY <1>8
      <4> QED
        BY <4>1
    <3>2. d * tries = e * tries + tries /\ e * tries \in Nat
      BY <1>2, <3>1
    <3> QED
      BY <1>2, <3>2
  <2>2. PICK x \in Nat : x = q.pi * tries
    BY <1>6
  <2>3. PICK y \in Nat : y = d * tries
    BY <1>6
  <2>4. q.attempts = x - tries + q.attempt /\ last * tries = x + y /\ y >= 1
    BY <1>3, <1>4, <1>5, <2>1, <2>2, <2>3
  <2>5. q.attempts < last * tries
    <3>1. q.attempt \in Nat /\ q.attempt <= tries
      BY <1>1
    <3> HIDE DEF tries
    <3> QED
      BY <1>2, <2>4, <3>1
  <2> QED
    BY <2>5 DEF Budget, last
<1> QED
  BY <1>7, <1>8

LEMMA ContractInit == Init => C!Init
  BY EmptySeq, GatewayAssumption DEF Init, C!Init, Idle, Live

(* Every move of a request is a step of its contract, or nothing the client can see.  *)
LEMMA MoveKeeps ==
  ASSUME IsFiniteSet(Providers), RequestsOK, TidyInv, NEW r \in Requests, NEW n,
         req' = [req EXCEPT ![r] = n], Moved(req[r], n)
  PROVE  C!Next \/ UNCHANGED C!vars
<1> DEFINE q == req[r]
<1>0. q \in RequestType /\ GoodRequest(q) /\ Tidy(q)
  BY DEF RequestsOK, TidyInv
<1>1. /\ PhaseOf' = [PhaseOf EXCEPT ![r] = Phase(n)]
      /\ TriesOf' = [TriesOf EXCEPT ![r] = n.attempts]
      /\ BudgetOf' = [BudgetOf EXCEPT ![r] = Budget(n)]
      /\ ContentOf' = [ContentOf EXCEPT ![r] = n.sent]
      /\ ExcusedOf' = [ExcusedOf EXCEPT ![r] = n.raised]
  BY OneSlot
<1>2. /\ PhaseOf[r] = Phase(q) /\ TriesOf[r] = q.attempts
      /\ BudgetOf[r] = Budget(q) /\ ContentOf[r] = q.sent /\ ExcusedOf[r] = q.raised
  BY DEF PhaseOf, TriesOf, BudgetOf, ContentOf, ExcusedOf
<1>3. /\ Phase(q) = Phase(n) => PhaseOf' = PhaseOf
      /\ q.attempts = n.attempts => TriesOf' = TriesOf
      /\ q.cands = n.cands => BudgetOf' = BudgetOf
      /\ q.sent = n.sent => ContentOf' = ContentOf
      /\ q.raised = n.raised => ExcusedOf' = ExcusedOf
  BY <1>1, <1>2 DEF PhaseOf, TriesOf, BudgetOf, ContentOf, ExcusedOf, Budget
<1>4. /\ Phase(Idle) = "idle" /\ Budget(Idle) = 0 /\ Idle.attempts = 0
      /\ Idle.sent = FALSE /\ Idle.raised = FALSE
  BY EmptySeq, GatewayAssumption DEF Phase, Budget, Idle, Live
<1> USE DEF Phase
<1>5. ASSUME Began(q, n) PROVE C!Accept(r)
  <2>1. Budget(n) \in Budgets
    <3>1. Cardinality(Providers) \in Nat /\ Len(n.cands) \in 1..Cardinality(Providers)
      BY <1>5, LenProperties, FS_CardinalityType DEF Began
    <3> QED
      BY <3>1 DEF Budget, Budgets
  <2>2. /\ PhaseOf[r] = "idle"
        /\ PhaseOf' = [PhaseOf EXCEPT ![r] = "working"]
        /\ TriesOf' = [TriesOf EXCEPT ![r] = 1]
        /\ ContentOf' = ContentOf /\ ExcusedOf' = ExcusedOf
    BY <1>1, <1>2, <1>3, <1>4, <1>5 DEF Began, Live
  <2>3. \E b \in Budgets : BudgetOf' = [BudgetOf EXCEPT ![r] = b]
    BY <1>1, <2>1
  <2> QED
    BY <2>2, <2>3
       DEF C!Accept, PhaseOf, TriesOf, BudgetOf, ContentOf, ExcusedOf, Budget, Budgets
<1>6. ASSUME Refused(q, n) PROVE C!Refuse(r)
  <2>1. /\ PhaseOf[r] = "idle"
        /\ PhaseOf' = [PhaseOf EXCEPT ![r] = "answered"]
        /\ UNCHANGED <<TriesOf, BudgetOf, ContentOf, ExcusedOf>>
    BY <1>1, <1>2, <1>3, <1>4, <1>6 DEF Refused, Same, SameToClient, Live
  <2> QED
    BY <2>1 DEF C!Refuse, PhaseOf, TriesOf, BudgetOf, ContentOf, ExcusedOf, Budget
<1>7. ASSUME Retried(q, n) PROVE C!TryAgain(r)
  <2>1. /\ PhaseOf[r] = "working" /\ (~ContentOf[r] \/ ExcusedOf[r])
        /\ TriesOf[r] < BudgetOf[r]
        /\ TriesOf' = [TriesOf EXCEPT ![r] = TriesOf[r] + 1]
        /\ UNCHANGED <<PhaseOf, BudgetOf, ContentOf, ExcusedOf>>
    BY <1>0, <1>1, <1>2, <1>3, <1>7, BudgetLeft DEF Retried, Tidy, Live
  <2> QED
    BY <2>1 DEF C!TryAgain, PhaseOf, TriesOf, BudgetOf, ContentOf, ExcusedOf, Budget
<1>8. ASSUME WentOn(q, n) PROVE UNCHANGED C!vars
  <2>1. UNCHANGED <<PhaseOf, TriesOf, BudgetOf, ContentOf, ExcusedOf>>
    BY <1>3, <1>8 DEF WentOn, Same, SameToClient
  <2> QED
    BY <2>1 DEF C!vars, PhaseOf, TriesOf, BudgetOf, ContentOf, ExcusedOf, Budget
<1>9. ASSUME Stumbled(q, n) PROVE C!Stumble(r)
  <2>1. /\ PhaseOf[r] = "working"
        /\ ExcusedOf' = [ExcusedOf EXCEPT ![r] = TRUE]
        /\ UNCHANGED <<PhaseOf, TriesOf, BudgetOf, ContentOf>>
    BY <1>1, <1>2, <1>3, <1>9 DEF Stumbled, SameToClient, Live
  <2> QED
    BY <2>1 DEF C!Stumble, PhaseOf, TriesOf, BudgetOf, ContentOf, ExcusedOf, Budget
<1>10. ASSUME Sent(q, n) PROVE C!Deliver(r)
  <2>1. /\ PhaseOf[r] = "working"
        /\ ContentOf' = [ContentOf EXCEPT ![r] = TRUE]
        /\ UNCHANGED <<PhaseOf, TriesOf, BudgetOf, ExcusedOf>>
    BY <1>1, <1>2, <1>3, <1>10 DEF Sent, Live
  <2> QED
    BY <2>1 DEF C!Deliver, PhaseOf, TriesOf, BudgetOf, ContentOf, ExcusedOf, Budget
<1>11. ASSUME Ended(q, n) PROVE C!Answer(r)
  <2>1. /\ PhaseOf[r] = "working"
        /\ PhaseOf' = [PhaseOf EXCEPT ![r] = "answered"]
        /\ UNCHANGED <<TriesOf, BudgetOf, ContentOf, ExcusedOf>>
    BY <1>1, <1>2, <1>3, <1>11 DEF Ended, Same, SameToClient, Live
  <2> QED
    BY <2>1 DEF C!Answer, PhaseOf, TriesOf, BudgetOf, ContentOf, ExcusedOf, Budget
<1>12. ASSUME Left(q, n) PROVE C!Leave(r)
  <2>1. /\ PhaseOf[r] = "answered"
        /\ PhaseOf' = [PhaseOf EXCEPT ![r] = "idle"]
        /\ TriesOf' = [TriesOf EXCEPT ![r] = 0]
        /\ BudgetOf' = [BudgetOf EXCEPT ![r] = 0]
        /\ ContentOf' = [ContentOf EXCEPT ![r] = FALSE]
        /\ ExcusedOf' = [ExcusedOf EXCEPT ![r] = FALSE]
    BY <1>1, <1>2, <1>4, <1>12 DEF Left, Live
  <2> QED
    BY <2>1 DEF C!Leave, PhaseOf, TriesOf, BudgetOf, ContentOf, ExcusedOf, Budget
<1> QED
  BY <1>5, <1>6, <1>7, <1>8, <1>9, <1>10, <1>11, <1>12, Zenon DEF C!Next, Moved

LEMMA ContractStep ==
  ASSUME IsFiniteSet(Providers), IInv, TidyInv, [Next]_vars
  PROVE  [C!Next]_(C!vars)
<1>1. RequestsOK
  BY DEF IInv
<1>2. ASSUME NEW r \in Requests, NEW n, req' = [req EXCEPT ![r] = n], Moved(req[r], n)
      PROVE  C!Next \/ UNCHANGED C!vars
  BY <1>1, <1>2, MoveKeeps
<1>3. ASSUME req' = [r \in Requests |-> Idle] PROVE C!Next
  <2>1. /\ PhaseOf' = [r \in Requests |-> "idle"] /\ TriesOf' = [r \in Requests |-> 0]
        /\ BudgetOf' = [r \in Requests |-> 0] /\ ContentOf' = [r \in Requests |-> FALSE]
        /\ ExcusedOf' = [r \in Requests |-> FALSE]
    BY <1>3, EmptySeq, GatewayAssumption
       DEF PhaseOf, TriesOf, BudgetOf, ContentOf, ExcusedOf, Phase, Budget, Idle, Live
  <2>2. C!Restart
    BY <2>1 DEF C!Restart, PhaseOf, TriesOf, BudgetOf, ContentOf, ExcusedOf, Phase, Budget
  <2> QED
    BY <2>2 DEF C!Next
<1>4. ASSUME req' = req PROVE UNCHANGED C!vars
  BY <1>4 DEF C!vars
<1> QED
  BY <1>1, <1>2, <1>3, <1>4, StepMoves

(* Whatever the upstreams answer, the clients do and SQLite or a converter raises,    *)
(* each request gets one answer, within a budget of attempts fixed when it began, and *)
(* none after content but for an exception caught in its stream: Gateway implements   *)
(* Contract.                                                                          *)
THEOREM GatewayKeepsContract ==
  ASSUME IsFiniteSet(Providers)
  PROVE  Spec => KeepsContract
<1>1. IInv /\ TidyInv /\ [Next]_vars => [C!Next]_(C!vars)
  BY ContractStep
<1> QED
  BY <1>1, ContractInit, TidyInductive, PTL DEF Spec, KeepsContract, C!Spec
------------------------------------------------------------------------------------
(* With its access log: the log only follows the requests, so that every behaviour of *)
(* Service is one of Gateway, whose theorems above therefore hold of it.              *)

(* Every step of the service is a step of the gateway, or of the log alone: what      *)
(* is shown of Spec above holds of the service too.                                  *)
THEOREM ServiceIsGateway == ServiceSpec => Spec
<1>1. ServiceInit => Init
  BY DEF ServiceInit
<1>2. [ServiceNext]_serviceVars => [Next]_vars
  <2> SUFFICES ASSUME [ServiceNext]_serviceVars PROVE [Next]_vars
    OBVIOUS
  <2>1. CASE Serve /\ LogLines
    BY <2>1 DEF Next
  <2>2. CASE Tick /\ LogLines
    BY <2>2 DEF Next
  <2>3. CASE Reopen
    BY <2>3 DEF Reopen, Reopens, Next
  <2>4. CASE ClearLogs
    BY <2>4 DEF ClearLogs
  <2>5. CASE CountLine \/ CountLineRaises
    BY <2>5 DEF CountLine, CountLineRaises
  <2>6. CASE UNCHANGED serviceVars
    BY <2>6 DEF serviceVars
  <2> QED
    BY <2>1, <2>2, <2>3, <2>4, <2>5, <2>6 DEF ServiceNext
<1> QED
  BY <1>1, <1>2, PTL DEF ServiceSpec, Spec

(* What a step of the service may do to the log.                                      *)
LEMMA LogStep ==
    ASSUME [ServiceNext]_serviceVars
    PROVE  \/ \E keep \in Retains : Add(keep)
           \/ (AddLost \/ AddUncleaned) /\ Upset
           \/ Clear
           \/ Open /\ Upset
           \/ UNCHANGED logVars
<1>1. CASE LogLines
  BY <1>1 DEF LogLines, Upset
<1>2. CASE Reopen
  BY <1>2 DEF Reopen, Upset
<1>3. CASE ClearLogs
  BY <1>3 DEF ClearLogs
<1>4. CASE CountLine
  BY <1>4 DEF CountLine
<1>5. CASE CountLineRaises
  BY <1>5 DEF CountLineRaises, Upset
<1>6. CASE UNCHANGED serviceVars
  BY <1>6 DEF serviceVars
<1> QED
  BY <1>1, <1>2, <1>3, <1>4, <1>5, <1>6 DEF ServiceNext

(* The limit is a natural number that leaves room for Interval rows below the cap.    *)
LEMMA LimitRoom ==
    ASSUME NEW keep \in Retains
    PROVE  /\ keep \in Nat
           /\ Limit(keep) \in Nat
           /\ keep <= Limit(keep)
           /\ Limit(keep) + Interval <= RowCap
<1>1. keep \in Nat /\ Limit(keep) + Interval <= RowCap
  BY LogAssumption
<1>2. Limit(keep) \in Nat /\ keep <= Limit(keep)
  BY <1>1 DEF Limit
<1> QED
  BY <1>1, <1>2

(* Rows and counter keep their type; the counter stays below the interval.            *)
LEMMA LogTypeStep == LogTypeOK /\ [ServiceNext]_serviceVars => LogTypeOK'
<1> SUFFICES ASSUME LogTypeOK, [ServiceNext]_serviceVars PROVE LogTypeOK'
  OBVIOUS
<1> USE LogAssumption
<1>1. ASSUME NEW keep \in Retains, Add(keep) PROVE LogTypeOK'
  BY <1>1, LimitRoom DEF LogTypeOK, Add, Trimmed, Grown
<1>2. CASE Clear
  BY <1>2 DEF LogTypeOK, Clear
<1>3. CASE Open
  BY <1>3 DEF LogTypeOK, Open
<1>4. CASE UNCHANGED logVars
  BY <1>4 DEF LogTypeOK, logVars
<1>5. CASE AddLost \/ AddUncleaned
  BY <1>5 DEF LogTypeOK, AddLost, AddUncleaned, Grown
<1> QED
  BY <1>1, <1>2, <1>3, <1>4, <1>5, LogStep

(* The counter of inserts stays below _CLEANUP_INTERVAL and the row count in range.   *)
THEOREM LogTypeCorrect == ServiceSpec => []LogTypeOK
<1>1. ServiceInit => LogTypeOK
  BY LogAssumption DEF ServiceInit, LogInit, LogTypeOK
<1> QED
  BY <1>1, LogTypeStep, PTL DEF ServiceSpec

(* The service's type: what its run checks.                                           *)
THEOREM ServiceTypeCorrect == ServiceSpec => []ServiceTypeOK
  BY LogTypeCorrect, TypeCorrect, ServiceIsGateway, PTL DEF ServiceTypeOK

(* Retention holds in every step but a restart or a failure of SQLite.                *)
LEMMA TrimmedStep ==
    LogTypeOK /\ [ServiceNext]_serviceVars => [WithinLimit => WithinLimit' \/ Upset]_serviceVars
<1> SUFFICES ASSUME LogTypeOK, [ServiceNext]_serviceVars, WithinLimit
             PROVE  WithinLimit' \/ Upset
  OBVIOUS
<1> PICK most \in Retains : rows <= Limit(most) + since
  BY DEF WithinLimit
<1>1. most \in Nat /\ Limit(most) \in Nat
  BY LimitRoom
<1>2. rows \in Nat /\ since \in Nat
  BY LogAssumption DEF LogTypeOK
<1>3. ASSUME NEW keep \in Retains, Add(keep) PROVE WithinLimit'
  <2>1. keep \in Nat /\ Limit(keep) \in Nat /\ keep <= Limit(keep)
    BY LimitRoom
  <2>2. CASE since + 1 >= Interval
    <3>1. since' = 0 /\ rows' = Trimmed(Grown(rows), keep)
      BY <1>3, <2>2 DEF Add
    <3>2. rows' <= Limit(keep) + since'
      BY <3>1, <2>1, <1>2, LogAssumption DEF Trimmed, Grown
    <3> QED
      BY <3>2 DEF WithinLimit
  <2>3. CASE ~(since + 1 >= Interval)
    <3>1. since' = since + 1 /\ rows' = Grown(rows)
      BY <1>3, <2>3 DEF Add
    <3>2. rows' <= Limit(most) + since'
      BY <3>1, <1>1, <1>2, LogAssumption DEF Grown
    <3> QED
      BY <3>2 DEF WithinLimit
  <2> QED
    BY <2>2, <2>3
<1>4. CASE Clear
  BY <1>4, <1>1, <1>2 DEF Clear, WithinLimit
<1>5. CASE UNCHANGED logVars
  BY <1>5 DEF WithinLimit, logVars
<1> QED
  BY <1>3, <1>4, <1>5, LogStep

(* Retention: a table within the limit goes beyond it by less than one interval of    *)
(* inserts, whatever the requests do, until the process is restarted or SQLite raises *)
(* in an insert or a clean-up.                                                        *)
THEOREM RetentionKept == ServiceSpec => StaysTrimmed
BY LogTypeCorrect, TrimmedStep, PTL DEF ServiceSpec, StaysTrimmed
==================================================================================
