------------------------------- MODULE AtomicStore -------------------------------
(* What the configuration store promises: config.json always holds one complete      *)
(* configuration; an operation either changes it together with the memory of the      *)
(* process that ran it, or changes nothing ("config writes use a cross-process file   *)
(* lock with rollback", README.en.md).  A process reads the file only when it starts. *)
EXTENDS Naturals

CONSTANTS Processes,  \* processes sharing one config.json
          Ids,        \* provider ids
          Settings,   \* values of the server section
          Default,    \* the settings of a fresh AppConfig
          None        \* no file, no process

VARIABLES file,   \* config.json
          known   \* the configuration each running process holds

vars == <<file, known>>

Config == [server : Settings, providers : SUBSET Ids]

Empty == [server |-> Default, providers |-> {}]

(* The configurations one operation can make of c: update_server, add_provider,       *)
(* replace_provider (under the same id or another one) and remove_provider.           *)
Updated(c) == {[c EXCEPT !.server = s] : s \in Settings}

Added(c) == {[c EXCEPT !.providers = @ \cup {i}] : i \in Ids \ c.providers}

Replaced(c) ==
    {[c EXCEPT !.providers = (@ \ {ij[1]}) \cup {ij[2]}] :
        ij \in {x \in c.providers \X Ids : x[2] = x[1] \/ x[2] \notin c.providers}}

Removed(c) == {[c EXCEPT !.providers = @ \ {i}] : i \in c.providers}

Changes(c) == Updated(c) \cup Added(c) \cup Replaced(c) \cup Removed(c)

Init ==
    /\ file \in {None, Empty}
    /\ known = [p \in Processes |-> None]

(* The first process to start writes an empty configuration; the others read it.      *)
Create(p) ==
    /\ file = None /\ known[p] = None
    /\ file' = Empty
    /\ known' = [known EXCEPT ![p] = Empty]

Load(p) ==
    /\ file # None /\ known[p] = None
    /\ known' = [known EXCEPT ![p] = file]
    /\ UNCHANGED file

Commit(p) ==
    /\ known[p] # None
    /\ \E c \in Changes(known[p]) :
          /\ file' = c
          /\ known' = [known EXCEPT ![p] = c]

Stop(p) ==
    /\ known[p] # None
    /\ known' = [known EXCEPT ![p] = None]
    /\ UNCHANGED file

Next == \E p \in Processes : Create(p) \/ Load(p) \/ Commit(p) \/ Stop(p)

Spec == Init /\ [][Next]_vars
==================================================================================
