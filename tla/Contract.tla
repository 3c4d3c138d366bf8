--------------------------------- MODULE Contract ---------------------------------
(* What the gateway promises a client, whatever happens between it and the            *)
(* upstreams: a request is refused, or worked on with a fixed budget of attempts and  *)
(* then answered once; and once content of an attempt has reached the client there is *)
(* no other attempt ("Streaming fails over only before the first upstream byte",      *)
(* README.en.md), unless the gateway itself has failed within the stream: the code    *)
(* takes an exception of its converter or of its log for one of the connection.  A    *)
(* restart may drop any request.                                                      *)
EXTENDS Naturals

CONSTANTS Requests,  \* request slots
          Budgets    \* the attempts a request may be allowed

VARIABLES phase,    \* "idle", "working" or "answered"
          tries,    \* attempts started
          budget,   \* attempts allowed: candidates times tries of each
          content,  \* has content of an upstream reached the client?
          excused   \* has the gateway failed within a stream?

vars == <<phase, tries, budget, content, excused>>

Init ==
    /\ phase = [r \in Requests |-> "idle"]
    /\ tries = [r \in Requests |-> 0]
    /\ budget = [r \in Requests |-> 0]
    /\ content = [r \in Requests |-> FALSE]
    /\ excused = [r \in Requests |-> FALSE]

Refuse(r) ==
    /\ phase[r] = "idle"
    /\ phase' = [phase EXCEPT ![r] = "answered"]
    /\ UNCHANGED <<tries, budget, content, excused>>

Accept(r) ==
    /\ phase[r] = "idle"
    /\ phase' = [phase EXCEPT ![r] = "working"]
    /\ tries' = [tries EXCEPT ![r] = 1]
    /\ \E b \in Budgets : budget' = [budget EXCEPT ![r] = b]
    /\ UNCHANGED <<content, excused>>

TryAgain(r) ==
    /\ phase[r] = "working"
    /\ ~content[r] \/ excused[r]
    /\ tries[r] < budget[r]
    /\ tries' = [tries EXCEPT ![r] = @ + 1]
    /\ UNCHANGED <<phase, budget, content, excused>>

Deliver(r) ==
    /\ phase[r] = "working"
    /\ content' = [content EXCEPT ![r] = TRUE]
    /\ UNCHANGED <<phase, tries, budget, excused>>

Stumble(r) ==
    /\ phase[r] = "working"
    /\ excused' = [excused EXCEPT ![r] = TRUE]
    /\ UNCHANGED <<phase, tries, budget, content>>

Answer(r) ==
    /\ phase[r] = "working"
    /\ phase' = [phase EXCEPT ![r] = "answered"]
    /\ UNCHANGED <<tries, budget, content, excused>>

Leave(r) ==
    /\ phase[r] = "answered"
    /\ phase' = [phase EXCEPT ![r] = "idle"]
    /\ tries' = [tries EXCEPT ![r] = 0]
    /\ budget' = [budget EXCEPT ![r] = 0]
    /\ content' = [content EXCEPT ![r] = FALSE]
    /\ excused' = [excused EXCEPT ![r] = FALSE]

Restart ==
    /\ phase' = [r \in Requests |-> "idle"]
    /\ tries' = [r \in Requests |-> 0]
    /\ budget' = [r \in Requests |-> 0]
    /\ content' = [r \in Requests |-> FALSE]
    /\ excused' = [r \in Requests |-> FALSE]

Next ==
    \/ \E r \in Requests :
          \/ Refuse(r)
          \/ Accept(r)
          \/ TryAgain(r)
          \/ Deliver(r)
          \/ Stumble(r)
          \/ Answer(r)
          \/ Leave(r)
    \/ Restart

Spec == Init /\ [][Next]_vars
====================================================================================
