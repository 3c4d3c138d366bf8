--------------------------------- MODULE Gateway ---------------------------------
(* The proxy handlers of app/server.py: every request resolves its candidates        *)
(* through the router and the circuit breaker, then walks them with retries and       *)
(* failover until one attempt answers, no retry is left, or the client goes away.     *)
(* The handlers are coroutines on one event loop: a stretch of code between two       *)
(* awaits (or yields, in the streaming generator) is one action.  Requests share      *)
(* nothing but the breaker table.                                                     *)
(*                                                                                    *)
(* What an upstream answers is abstracted to what the handler tells apart: an answer, *)
(* a retryable failure (exception, first-token timeout, status in RETRYABLE_STATUS,   *)
(* 5xx without JSON), a failure that is not, a first chunk, a stream that ends or     *)
(* breaks.  Bodies, headers, latencies and token counts are left out.  Which order    *)
(* the strategy gives the candidates is left open: any permutation.                   *)
EXTENDS ProviderStats, Sequences, SequencesExt, FiniteSets

CONSTANTS Providers,       \* enabled providers
          Requests,        \* request slots: how many requests are in flight at once
          Routes,          \* the sets match_providers can return, one per model
          ResponsesMode,   \* providers with upstream_mode = "responses"
          Threshold,       \* server.circuit_fail_threshold
          BreakerSettings, \* the values server.circuit_breaker takes
          FailoverSettings,\* the values server.failover takes
          RetryCount,      \* server.retry_count
          Faults           \* which of the faults below happen

FaultKinds == {"disconnect",       \* clients go away
               "convert_error",    \* converting a whole answer raises
               "converter_error",  \* converting a stream raises
               "stats_error",      \* table provider_stats cannot be written or read
               "log_error",        \* table logs cannot be written
               "restart"}

ASSUME GatewayAssumption ==
    /\ Routes \subseteq SUBSET Providers
    /\ \A S \in Routes : IsFiniteSet(S)
    /\ ResponsesMode \subseteq Providers
    /\ Threshold \in 1..FailCap
    /\ BreakerSettings \subseteq BOOLEAN
    /\ FailoverSettings \subseteq BOOLEAN
    /\ RetryCount \in Nat
    /\ Faults \subseteq FaultKinds

VARIABLES stats,   \* health._stats, as in Breaker
          saved,   \* its copy in SQLite
          parted,  \* history, as in Breaker
          req      \* the requests: locals of _proxy_non_stream / _proxy_stream.gen

tables == <<stats, saved, parted>>
vars == <<tables, req>>

Phases == {"idle",       \* the slot is free
           "sending",    \* awaiting the answer, or the first chunk of the stream
           "backoff",    \* between two attempts
           "streaming",  \* inside the convert_stream loop
          "raised",     \* access_log.add raised after it, on the way to `except Exception`
           "closing",    \* a stream that gave up: its error event is being sent
           "done"}       \* answered

Outcomes == {"none", "ok", "broken", "retryable", "final", "disconnect",
             "convert_error", "bad_request"}

Live == {"sending", "backoff", "streaming", "raised", "closing"}

(* The last six fields are history: calls of _record_ok and _record_fail; lines in    *)
(* the access log; attempts whose line raised when it was written, so that they are   *)
(* judged twice; whether an exception of the stream's converter or line was caught;   *)
(* whether the line written at the end raised, which the client gets instead of its   *)
(* answer; whether upstream content reached the client.                               *)
Idle ==
    [pc |-> "idle", stream |-> FALSE, failover |-> FALSE, cands |-> <<>>, pi |-> 0,
     attempt |-> 0, attempts |-> 0, sink |-> FALSE, outcome |-> "none", verdicts |-> 0,
     logs |-> 0, rejudged |-> 0, raised |-> FALSE, missed |-> FALSE, sent |-> FALSE]

RequestType ==
    [pc : Phases, stream : BOOLEAN, failover : BOOLEAN, cands : Seq(Providers), pi : Nat,
     attempt : Nat, attempts : Nat, sink : BOOLEAN, outcome : Outcomes, verdicts : Nat,
     logs : Nat, rejudged : Nat, raised : BOOLEAN, missed : BOOLEAN, sent : BOOLEAN]

TypeOK ==
    /\ stats \in [Providers -> Stats]
    /\ saved \in [Providers -> Rows]
    /\ parted \subseteq Providers
    /\ req \in [Requests -> RequestType]

Init ==
    /\ stats = [p \in Providers |-> Fresh]
    /\ saved = [p \in Providers |-> Row(Fresh)]
    /\ parted = {}
    /\ req = [r \in Requests |-> Idle]

Current(q) == q.cands[q.pi]
------------------------------------------------------------------------------------
(* _filter_circuit, over all candidates of the model: the ones that may be tried,     *)
(* or all of them when there is none; every half-open one is asked for its probe.     *)
Admitted(S, breaker) ==
    LET available == {p \in S : Grants(stats[p])}
    IN  IF breaker /\ available # {} THEN available ELSE S

(* A variant of Checked: a refused provider is made half open for the fallback.       *)
CheckedForcesProbe(S, breaker) ==
    [p \in Providers |->
        IF ~breaker \/ p \notin S THEN stats[p]
        ELSE IF Grants(stats[p]) THEN IsAvailable(stats[p])
        ELSE [stats[p] EXCEPT !.state = "half_open", !.probe = TRUE]]

Checked(S, breaker) ==
    [p \in Providers |-> IF breaker /\ p \in S THEN IsAvailable(stats[p]) ELSE stats[p]]

(* resolve_providers, then the filter of _handle_proxy: without failover only the     *)
(* first candidate is kept, and a previous_response_id keeps only the providers that  *)
(* speak the Responses API.                                                           *)
Candidates(admitted, failover, previousId) ==
    LET able == IF previousId THEN ResponsesMode ELSE Providers
    IN  IF failover \/ admitted = {}
        THEN SetToSeqs(admitted \cap able)
        ELSE {<<p>> : p \in admitted \cap able}
                \cup (IF admitted \subseteq able THEN {} ELSE {<<>>})

(* The next attempt: `attempts += 1`, then the request is sent upstream.              *)
Launch(q, pi, attempt) ==
    [q EXCEPT !.pc = "sending", !.pi = pi, !.attempt = attempt, !.attempts = @ + 1]

(* How a call of access_log.add ends: the line is in; or it raises, with no line or,  *)
(* when the clean-up after it raised, with one.  "none" stands for no call.           *)
Loggings == {"written"} \cup (IF "log_error" \in Faults THEN {"lost", "uncleaned"} ELSE {})

Lines(logging) == IF logging \in {"written", "uncleaned"} THEN 1 ELSE 0

(* The request ends: with its answer, or with the exception of its own log line.      *)
Finish(q, outcome, logging) ==
    [q EXCEPT !.pc = "done", !.outcome = outcome, !.sink = FALSE, !.logs = @ + Lines(logging),
              !.missed = logging \in {"lost", "uncleaned"}]

(* A variant of CanRetry that stops one try early.                                    *)
CanRetryOffByOne(q, retryable) ==
    retryable /\ (q.attempt < RetryCount \/ (q.failover /\ q.pi < Len(q.cands)))

CanRetry(q, retryable) ==
    retryable /\ (q.attempt <= RetryCount \/ (q.failover /\ q.pi < Len(q.cands)))

Judged(q) == [q EXCEPT !.verdicts = @ + 1, !.sink = FALSE]

(* _persist swallows the exception of a database that cannot be written.              *)
Persist(p, s) ==
    \/ /\ saved' = [saved EXCEPT ![p] = Row(s)]
       /\ parted' = parted \ {p}
    \/ /\ "stats_error" \in Faults
       /\ saved' = saved
       /\ parted' = parted \cup {p}

(* _record_ok and _record_fail of provider p.                                         *)
RecordOk(p) ==
    LET s == RecordSuccess(stats[p])
    IN  stats' = [stats EXCEPT ![p] = s] /\ Persist(p, s)

RecordFail(p) ==
    LET s == RecordFailure(stats[p], Threshold)
    IN  stats' = [stats EXCEPT ![p] = s] /\ Persist(p, s)
------------------------------------------------------------------------------------
(* _handle_proxy.  No provider left: 400, logged, the probes taken stay taken.        *)
Arrive(r, S, stream, previousId) ==
    /\ req[r].pc = "idle"
    /\ \E breaker \in BreakerSettings, failover \in FailoverSettings, logging \in Loggings :
          /\ stats' = Checked(S, breaker)
          /\ \E cands \in Candidates(Admitted(S, breaker), failover, previousId) :
                LET q == [Idle EXCEPT !.stream = stream, !.failover = failover,
                                      !.cands = cands]
                IN  req' = [req EXCEPT ![r] = IF cands = <<>>
                                              THEN Finish(q, "bad_request", logging)
                                              ELSE Launch(q, 1, 1)]
    /\ UNCHANGED <<saved, parted>>

(* /v1/messages/count_tokens resolves candidates like a request, then asks upstream   *)
(* or estimates; it never records a result.                                           *)
CountTokens(S) ==
    /\ \E breaker \in BreakerSettings : stats' = Checked(S, breaker)
    /\ UNCHANGED <<saved, parted, req>>

(* A variant of GiveUp that logs a stream before its error event is out.              *)
GiveUpLogsEarly(q, outcome, logging) ==
    IF q.stream THEN [q EXCEPT !.pc = "closing", !.outcome = outcome, !.logs = @ + 1]
                ELSE Finish(q, outcome, logging)

(* An attempt that failed before any content: an exception, a timeout, an HTTP error, *)
(* a body that is not JSON.  A stream that gives up first yields an error event.      *)
GiveUp(q, outcome, logging) ==
    IF q.stream THEN [q EXCEPT !.pc = "closing", !.outcome = outcome]
                ELSE Finish(q, outcome, logging)

AfterFailure(q, retryable, logging) ==
    IF CanRetry(q, retryable)
    THEN [Judged(q) EXCEPT !.pc = "backoff"]
    ELSE GiveUp(Judged(q), IF retryable THEN "retryable" ELSE "final", logging)

AttemptFails(r, retryable) ==
    /\ req[r].pc = "sending"
    /\ RecordFail(Current(req[r]))
    /\ \E logging \in Loggings : req' = [req EXCEPT ![r] = AfterFailure(@, retryable, logging)]

(* Variants of Resume: `attempt` is not reset for the next provider; one try too many *)
(* of every provider that has a successor.                                            *)
ResumeKeepsAttempt(r) ==
    /\ req[r].pc = "backoff"
    /\ UNCHANGED tables
    /\ req' = [req EXCEPT ![r] = IF @.attempt <= RetryCount
                                 THEN Launch(@, @.pi, @.attempt + 1)
                                 ELSE Launch(@, @.pi + 1, @.attempt)]

ResumeOnceMore(r) ==
    /\ req[r].pc = "backoff"
    /\ UNCHANGED tables
    /\ req' = [req EXCEPT ![r] = IF @.attempt <= RetryCount + 1
                                 THEN Launch(@, @.pi, @.attempt + 1)
                                 ELSE Launch(@, @.pi + 1, 1)]

(* backoff is over: another try of the same provider, or the next one.                *)
Resume(r) ==
    /\ req[r].pc = "backoff"
    /\ UNCHANGED tables
    /\ req' = [req EXCEPT ![r] = IF @.attempt <= RetryCount
                                 THEN Launch(@, @.pi, @.attempt + 1)
                                 ELSE Launch(@, @.pi + 1, 1)]

(* A variant of AttemptSucceeds that does not tell the breaker.                       *)
AttemptSucceedsUnrecorded(r) ==
    /\ req[r].pc = "sending"
    /\ UNCHANGED tables
    /\ \E logging \in Loggings : req' = [req EXCEPT ![r] = Finish(@, "ok", logging)]

(* A 2xx answer converted for the client; or a stream that ends before its first      *)
(* chunk, which is recorded and logged as a success too.                              *)
AttemptSucceeds(r) ==
    /\ req[r].pc = "sending"
    /\ RecordOk(Current(req[r]))
    /\ \E logging \in Loggings : req' = [req EXCEPT ![r] = Finish(Judged(@), "ok", logging)]

(* Converting a 2xx answer raises: the exception leaves the handler, unlogged.        *)
ConvertRaises(r) ==
    /\ "convert_error" \in Faults
    /\ req[r].pc = "sending" /\ ~req[r].stream
    /\ req' = [req EXCEPT ![r] = Finish(@, "convert_error", "none")]
    /\ UNCHANGED tables

(* _watch_disconnect won: the upstream call is cancelled, nothing is recorded.        *)
Disconnect(r) ==
    /\ "disconnect" \in Faults
    /\ req[r].pc = "sending" /\ ~req[r].stream
    /\ \E logging \in Loggings : req' = [req EXCEPT ![r] = Finish(@, "disconnect", logging)]
    /\ UNCHANGED tables

FirstChunk(r) ==
    /\ req[r].pc = "sending" /\ req[r].stream
    /\ req' = [req EXCEPT ![r].pc = "streaming"]
    /\ UNCHANGED tables

Forward(r) ==
    /\ req[r].pc = "streaming"
    /\ req' = [req EXCEPT ![r].sent = TRUE]
    /\ UNCHANGED tables

(* safe_upstream_stream catches what the upstream raises after the first chunk, notes *)
(* it in error_sink and ends the stream with an error event.                          *)
UpstreamBreaks(r) ==
    /\ req[r].pc = "streaming"
    /\ req' = [req EXCEPT ![r].sink = TRUE]
    /\ UNCHANGED tables

(* The stream is over: its verdict, then its line in the log.  When the line raises,  *)
(* the exception is still inside the loop's try.                                      *)
StreamLogged(q, outcome, logging) ==
    IF logging = "written" THEN Finish(Judged(q), outcome, logging)
    ELSE [Judged(q) EXCEPT !.pc = "raised", !.raised = TRUE, !.rejudged = @ + 1,
                           !.logs = @ + Lines(logging)]

(* Variants of StreamEnds: a broken stream is recorded as a failure and then, for     *)
(* want of an else, as a success; it is retried; it is never seen to end.             *)
StreamEndsRecordsBoth(r) ==
    /\ req[r].pc = "streaming"
    /\ RecordOk(Current(req[r]))
    /\ \E logging \in Loggings :
          req' = [req EXCEPT ![r] =
                     StreamLogged(IF @.sink THEN Judged(@) ELSE @, "ok", logging)]

StreamEndsRetries(r) ==
    /\ req[r].pc = "streaming"
    /\ IF req[r].sink THEN RecordFail(Current(req[r])) ELSE RecordOk(Current(req[r]))
    /\ \E logging \in Loggings :
          req' = [req EXCEPT ![r] = IF @.sink THEN AfterFailure(@, TRUE, logging)
                                    ELSE StreamLogged(@, "ok", logging)]

StreamEndsOnlyClean(r) ==
    /\ req[r].pc = "streaming" /\ ~req[r].sink
    /\ RecordOk(Current(req[r]))
    /\ \E logging \in Loggings : req' = [req EXCEPT ![r] = StreamLogged(@, "ok", logging)]

StreamEnds(r) ==
    /\ req[r].pc = "streaming"
    /\ IF req[r].sink THEN RecordFail(Current(req[r])) ELSE RecordOk(Current(req[r]))
    /\ \E logging \in Loggings :
          req' = [req EXCEPT ![r] =
                     StreamLogged(@, IF @.sink THEN "broken" ELSE "ok", logging)]

(* `except Exception` catches it, records a failure and retries or gives up, as after *)
(* a failed connection.  No await lies between: nothing else runs in a "raised" phase.*)
LineCaught(r) ==
    /\ req[r].pc = "raised"
    /\ RecordFail(Current(req[r]))
    /\ \E logging \in Loggings : req' = [req EXCEPT ![r] = AfterFailure(@, TRUE, logging)]

(* The converter itself raises on a chunk (a JSON value that is not an object), which *)
(* ends up there as well.                                                             *)
ConverterRaises(r) ==
    /\ "converter_error" \in Faults
    /\ req[r].pc = "streaming"
    /\ RecordFail(Current(req[r]))
    /\ \E logging \in Loggings :
          req' = [req EXCEPT ![r] = AfterFailure([@ EXCEPT !.raised = TRUE], TRUE, logging)]

(* The error event and [DONE] are out; the request is logged.                         *)
Close(r) ==
    /\ req[r].pc = "closing"
    /\ \E logging \in Loggings : req' = [req EXCEPT ![r] = Finish(@, @.outcome, logging)]
    /\ UNCHANGED tables

(* The client of a stream goes away.  The generator sees CancelledError, and logs,    *)
(* when it is awaiting; suspended at a yield, or not even started (the response head  *)
(* is sent first), it is dropped without a trace.                                     *)
Cancel(r, logging) ==
    /\ "disconnect" \in Faults
    /\ req[r].stream /\ req[r].pc \in Live \ {"raised"}
    /\ req[r].pc = "backoff" \/ (req[r].pc = "sending" /\ req[r].attempts > 1) =>
          logging # "none"
    /\ req[r].pc = "closing" => logging = "none"
    /\ req' = [req EXCEPT ![r] = Finish(@, "disconnect", logging)]
    /\ UNCHANGED tables

Leave(r) ==
    /\ req[r].pc = "done"
    /\ req' = [req EXCEPT ![r] = Idle]
    /\ UNCHANGED tables

(* The process dies and starts again; or starts without entries, because the table    *)
(* cannot be read.                                                                    *)
Restart ==
    /\ "restart" \in Faults
    /\ stats' = [p \in Providers |-> Load(saved[p])]
    /\ parted' = {}
    /\ req' = [r \in Requests |-> Idle]
    /\ UNCHANGED saved

RestartBlind ==
    /\ {"restart", "stats_error"} \subseteq Faults
    /\ stats' = [p \in Providers |-> Fresh]
    /\ parted' = Providers
    /\ req' = [r \in Requests |-> Idle]
    /\ UNCHANGED saved

Tick ==
    /\ stats' = [p \in Providers |-> Older(stats[p])]
    /\ saved' = [p \in Providers |-> Older(saved[p])]
    /\ UNCHANGED <<parted, req>>

(* The event loop may turn to any request, or to the client of one.                   *)
LoopFree == \A r \in Requests : req[r].pc # "raised"

Turn ==
    \/ \E r \in Requests, S \in Routes, stream, previousId \in BOOLEAN :
          Arrive(r, S, stream, previousId)
    \/ \E S \in Routes : CountTokens(S)
    \/ \E r \in Requests, retryable \in BOOLEAN : AttemptFails(r, retryable)
    \/ \E r \in Requests, logging \in Loggings \cup {"none"} : Cancel(r, logging)
    \/ \E r \in Requests :
          \/ Resume(r)
          \/ AttemptSucceeds(r)
          \/ ConvertRaises(r)
          \/ Disconnect(r)
          \/ FirstChunk(r)
          \/ Forward(r)
          \/ UpstreamBreaks(r)
          \/ StreamEnds(r)
          \/ ConverterRaises(r)
          \/ Close(r)
          \/ Leave(r)

Serve ==
    \/ LoopFree /\ Turn
    \/ \E r \in Requests : LineCaught(r)

Next == Serve \/ Restart \/ RestartBlind \/ Tick

Spec == Init /\ [][Next]_vars

(* Timeouts bound every upstream call, a stream is assumed to end, sleeps end.        *)
Answer(r) ==
    \/ LineCaught(r)
    \/ /\ LoopFree
       /\ \/ \E retryable \in BOOLEAN : AttemptFails(r, retryable)
          \/ AttemptSucceeds(r)
          \/ FirstChunk(r)
          \/ StreamEnds(r)
          \/ Resume(r)
          \/ Close(r)

(* Clients come and go for ever, and for every model always again one with a plain    *)
(* request (hence SF: others may hold the slot in between); time passes.              *)
FairSpec ==
    /\ Spec
    /\ WF_vars(Tick)
    /\ \A r \in Requests :
          /\ WF_vars(Answer(r))
          /\ WF_vars(LoopFree /\ Leave(r))
          /\ \A S \in Routes : SF_vars(LoopFree /\ Arrive(r, S, FALSE, FALSE))
------------------------------------------------------------------------------------
(* Every attempt gets one verdict of the breaker's table and only one: none while it  *)
(* is under way, and none is skipped by a retry, a failover, a stream that breaks or  *)
(* an error event.  Only a client that goes away, or an answer that cannot be         *)
(* converted, leaves its last attempt without a verdict; and a stream whose line in   *)
(* the access log raises is judged a second time.                                     *)
VerdictsMatch(q) ==
    LET due == q.attempts + q.rejudged
    IN  /\ q.pc \in {"sending", "streaming", "raised"} => q.verdicts + 1 = due
        /\ q.pc \in {"backoff", "closing"} => q.verdicts = due
        /\ q.pc = "done" =>
              \/ q.verdicts = due
              \/ q.outcome \in {"disconnect", "convert_error"} /\ q.verdicts + 1 = due

OneVerdictPerAttempt == \A r \in Requests : VerdictsMatch(req[r])

(* The counter that is logged as `attempts` agrees with the two loop variables: a     *)
(* provider is left only after all its tries, and the loops never run off the list    *)
(* (the code after them, "exhausted retries", is never reached).                      *)
InRange(q) ==
    q.pc \in Live => /\ q.pi \in 1..Len(q.cands)
                     /\ q.attempt \in 1..(RetryCount + 1)
                     /\ q.attempts = (q.pi - 1) * (RetryCount + 1) + q.attempt

LoopsInRange == \A r \in Requests : InRange(req[r])

(* A retryable failure is reported to the client only when no try of the last         *)
(* candidate is left.                                                                 *)
Exhausted(q) ==
    q.pc \in {"closing", "done"} /\ q.outcome = "retryable" =>
        /\ q.attempt = RetryCount + 1
        /\ q.pi = Len(q.cands)

GivesUpOnlyWhenExhausted == \A r \in Requests : Exhausted(req[r])

(* The access log has one line per answered request and none for one under way.  It   *)
(* has no line for an answer that could not be converted, and may have none for a     *)
(* stream whose client went away.  When SQLite raises, the line may be missing or,    *)
(* for a stream, may be there beside those of later attempts: at most one more for    *)
(* each time it raised.                                                               *)
Logged(q) ==
    LET least == IF q.outcome = "convert_error" \/ q.missed
                        \/ (q.stream /\ q.outcome = "disconnect")
                 THEN 0 ELSE 1
        most  == IF q.outcome = "convert_error" THEN 0 ELSE 1
    IN  IF q.pc = "done" THEN q.logs \in least..(most + q.rejudged) ELSE q.logs <= q.rejudged

LoggedOnce == \A r \in Requests : Logged(req[r])

(* "Streaming fails over only before the first upstream byte" (README.en.md).         *)
NoRetryAfterContent ==
    \A r \in Requests : req[r].sent => req[r].pc \notin {"sending", "backoff"}

(* What is true of it: a request whose content has reached the client is tried again  *)
(* only when its stream's converter or its line in the access log has raised.         *)
ContentIsFinal ==
    \A r \in Requests :
        req[r].sent => req[r].raised \/ req[r].pc \notin {"sending", "backoff"}

(* Automatic recovery (health.py's first line): a half-open provider is decided, to   *)
(* closed or back to open.                                                            *)
ProbeDecided ==
    \A p \in Providers : stats[p].state = "half_open" ~> stats[p].state # "half_open"

(* Every request is answered, however many of its attempts fail.                      *)
EveryRequestEnds == \A r \in Requests : req[r].pc \in Live ~> req[r].pc \notin Live

(* The requests keep the client's contract.                                           *)
C == INSTANCE Contract WITH
        Budgets <- {n * (RetryCount + 1) : n \in 1..Cardinality(Providers)},
        phase <- [r \in Requests |-> IF req[r].pc \in Live THEN "working"
                                     ELSE IF req[r].pc = "done" THEN "answered" ELSE "idle"],
        tries <- [r \in Requests |-> req[r].attempts],
        budget <- [r \in Requests |-> Len(req[r].cands) * (RetryCount + 1)],
        content <- [r \in Requests |-> req[r].sent],
        excused <- [r \in Requests |-> req[r].raised]

KeepsContract == C!Spec

(* The breaker's entries change only as Breaker's operations change them: several     *)
(* requests interleaved are one legal history of calls on health.py.                  *)
B == INSTANCE Breaker WITH
        Removable <- {},
        Thresholds <- {Threshold},
        configured <- Providers,
        threshold <- Threshold

ImplementsBreaker == B!Spec
====================================================================================
