------------------------------- MODULE ConfigStore -------------------------------
(* app/config.py: ConfigManager in every process that shares one config.json, down    *)
(* to the file operations of save_sync.  Within a process nothing runs between        *)
(* changing the configuration in memory and the end of save_sync (there is no await   *)
(* in it, and asyncio.Lock is never contended), so a process is one thread here; the  *)
(* steps of different processes interleave.                                           *)
(*                                                                                    *)
(* A provider is its id; the order of the list and the contents of an entry are left  *)
(* out.  The lock file is its age: the program writes the pid into it and never reads *)
(* it.  Twenty tries are the constant Tries; the 0.1 s between them is a step.        *)
EXTENDS Naturals

CONSTANTS Processes, Ids, Settings, Default, None,
          Blank,        \* a file just truncated
          Torn,         \* a file that holds pieces of two writes
          Crews,        \* the sets of processes that run together
          Tries,        \* attempts to create the lock file
          Stale,        \* ticks after which a lock file counts as left over
          Faults        \* which of the faults below happen, see FaultKinds

Config == [server : Settings, providers : SUBSET Ids]

(* io_error: a file operation fails while a process holds the lock; leftover: a lock  *)
(* file stays behind although other processes are running; slow: the owner of a lock  *)
(* may keep it until it counts as left over.                                          *)
FaultKinds == {"io_error", "leftover", "slow"}

ASSUME StoreAssumption ==
    /\ Default \in Settings
    /\ None \notin Config \cup Nat /\ Blank \notin Config /\ Torn \notin Config
    /\ None # Blank /\ None # Torn
    /\ Crews \subseteq SUBSET Processes
    /\ Tries \in Nat \ {0}
    /\ Stale \in Nat \ {0}
    /\ Faults \subseteq FaultKinds

VARIABLES crew,   \* the processes of this deployment, fixed
          file,   \* config.json
          tmp,    \* config.tmp, shared by all processes
          lock,   \* the lock file: None, or its age
          pc,     \* where each process is
          mem,    \* ConfigManager._config
          prev,   \* what the operation under way would roll back to
          tries,  \* iterations of the lock loop
          fd      \* the file a process has open for writing: "tmp", or where a rename put it

vars == <<crew, file, tmp, lock, pc, mem, prev, tries, fd>>

Writing == {"truncating", "filling", "installing", "releasing", "failing"}
Points == {"down", "idle", "opening", "judging", "removing"} \cup Writing

TypeOK ==
    /\ crew \in Crews
    /\ file \in Config \cup {None, Blank, Torn}
    /\ tmp \in Config \cup {None, Blank, Torn}
    /\ lock \in (0..Stale) \cup {None}
    /\ pc \in [Processes -> Points]
    /\ mem \in [Processes -> Config \cup {None}]
    /\ prev \in [Processes -> Config \cup {None}]
    /\ tries \in [Processes -> 0..Tries]
    /\ fd \in [Processes -> {"none", "tmp", "file", "gone"}]

S == INSTANCE AtomicStore WITH
        known <- [p \in Processes |-> IF pc[p] = "releasing" THEN mem[p] ELSE prev[p]]

(* One process on its own, the usual deployment.                                      *)
Alone == \E p \in Processes : crew = {p}

(* Several processes meet a file that exists; a lone one may also be the first ever.  *)
Init ==
    /\ crew \in Crews
    /\ file \in IF Alone THEN {None, S!Empty} ELSE {S!Empty}
    /\ tmp = None
    /\ lock = None
    /\ pc = [p \in Processes |-> "down"]
    /\ mem = [p \in Processes |-> None]
    /\ prev = [p \in Processes |-> None]
    /\ tries = [p \in Processes |-> 0]
    /\ fd = [p \in Processes |-> "none"]

Goto(p, point) == pc' = [pc EXCEPT ![p] = point]

(* Whether a lock file may be left behind now; see FaultKinds.                        *)
MayLeaveLock == Alone \/ "leftover" \in Faults
------------------------------------------------------------------------------------
(* Starting and the operations: check in memory, change memory, call save_sync.       *)
Save(p, c) ==
    /\ mem' = [mem EXCEPT ![p] = c]
    /\ tries' = [tries EXCEPT ![p] = 0]
    /\ Goto(p, "opening")
    /\ UNCHANGED <<crew, file, tmp, lock, fd>>

(* load_sync: no file, write a new one; a file that does not parse, go on with an     *)
(* empty configuration; otherwise its contents.                                       *)
Start(p) ==
    /\ pc[p] = "down" /\ p \in crew
    /\ IF file = None
       THEN Save(p, S!Empty) /\ UNCHANGED prev
       ELSE LET c == IF file \in Config THEN file ELSE S!Empty
            IN  /\ mem' = [mem EXCEPT ![p] = c]
                /\ prev' = [prev EXCEPT ![p] = c]
                /\ Goto(p, "idle")
                /\ UNCHANGED <<crew, file, tmp, lock, tries, fd>>

UpdateServer(p, s) ==
    /\ pc[p] = "idle"
    /\ Save(p, [mem[p] EXCEPT !.server = s])
    /\ UNCHANGED prev

AddProvider(p, i) ==
    /\ pc[p] = "idle"
    /\ i \notin mem[p].providers
    /\ Save(p, [mem[p] EXCEPT !.providers = @ \cup {i}])
    /\ UNCHANGED prev

ReplaceProvider(p, i, j) ==
    /\ pc[p] = "idle"
    /\ i \in mem[p].providers
    /\ j = i \/ j \notin mem[p].providers
    /\ Save(p, [mem[p] EXCEPT !.providers = (@ \ {i}) \cup {j}])
    /\ UNCHANGED prev

RemoveProvider(p, i) ==
    /\ pc[p] = "idle"
    /\ i \in mem[p].providers
    /\ Save(p, [mem[p] EXCEPT !.providers = @ \ {i}])
    /\ UNCHANGED prev
------------------------------------------------------------------------------------
(* A variant of Rollback, like `update`, that leaves the new value in memory.         *)
RollbackForgotten(p) ==
    /\ mem' = mem
    /\ Goto(p, IF prev[p] = None THEN "down" ELSE "idle")
    /\ prev' = [prev EXCEPT ![p] = IF @ = None THEN None ELSE mem[p]]

(* save_sync raised: the operation puts the old value back and passes the exception   *)
(* on; in the constructor there is no old value and the process does not start.       *)
Rollback(p) ==
    /\ mem' = [mem EXCEPT ![p] = prev[p]]
    /\ Goto(p, IF prev[p] = None THEN "down" ELSE "idle")
    /\ UNCHANGED prev

(* A variant of Again with one iteration more.                                        *)
AgainOnceMore(p) ==
    IF tries[p] <= Tries
    THEN Goto(p, "opening") /\ UNCHANGED <<mem, prev>>
    ELSE Rollback(p)

(* The next iteration of the lock loop, or RuntimeError after the last.               *)
Again(p) ==
    IF tries[p] < Tries
    THEN Goto(p, "opening") /\ UNCHANGED <<mem, prev>>
    ELSE Rollback(p)

(* A variant of OpenLock that waits for the lock file to go.                          *)
OpenLockWaits(p) ==
    /\ pc[p] = "opening" /\ lock = None
    /\ lock' = 0
    /\ Goto(p, "truncating")
    /\ UNCHANGED <<crew, file, tmp, mem, prev, tries, fd>>

(* open("x"): exclusive creation.                                                     *)
OpenLock(p) ==
    /\ pc[p] = "opening"
    /\ tries' = [tries EXCEPT ![p] = @ + 1]
    /\ IF lock = None THEN lock' = 0 /\ Goto(p, "truncating")
                      ELSE lock' = lock /\ Goto(p, "judging")
    /\ UNCHANGED <<crew, file, tmp, mem, prev, fd>>

(* The lock file is created but writing the pid into it fails: `acquired` is still    *)
(* False, so nobody removes the file.                                                 *)
LockWriteFails(p) ==
    /\ "io_error" \in Faults /\ MayLeaveLock
    /\ pc[p] = "opening" /\ lock = None
    /\ lock' = 0
    /\ Rollback(p)
    /\ UNCHANGED <<crew, file, tmp, tries, fd>>

(* Variants of Judge: every lock file counts as left over; none does.                 *)
JudgeAnyAge(p) ==
    /\ pc[p] = "judging"
    /\ IF lock # None THEN Goto(p, "removing") /\ UNCHANGED <<mem, prev>>
                      ELSE Again(p)
    /\ UNCHANGED <<crew, file, tmp, lock, tries, fd>>

JudgeNever(p) ==
    /\ pc[p] = "judging"
    /\ Again(p)
    /\ UNCHANGED <<crew, file, tmp, lock, tries, fd>>

(* stat: older than ten seconds counts as left over; gone by now is an OSError, which *)
(* is ignored like a lock in use.                                                     *)
Judge(p) ==
    /\ pc[p] = "judging"
    /\ IF lock = Stale THEN Goto(p, "removing") /\ UNCHANGED <<mem, prev>>
                       ELSE Again(p)
    /\ UNCHANGED <<crew, file, tmp, lock, tries, fd>>

(* unlink removes whatever lock file is there by now.                                 *)
RemoveStale(p) ==
    /\ pc[p] = "removing"
    /\ lock' = None
    /\ Again(p)
    /\ UNCHANGED <<crew, file, tmp, tries, fd>>

(* A variant of Truncate that opens config.json itself.                               *)
TruncateInPlace(p) ==
    /\ pc[p] = "truncating"
    /\ file' = Blank
    /\ fd' = [fd EXCEPT ![p] = "file"]
    /\ Goto(p, "filling")
    /\ UNCHANGED <<crew, tmp, lock, mem, prev, tries>>

(* write_text: open for writing truncates, the text is written, the file closed.      *)
Truncate(p) ==
    /\ pc[p] = "truncating"
    /\ tmp' = Blank
    /\ fd' = [fd EXCEPT ![p] = "tmp"]
    /\ Goto(p, "filling")
    /\ UNCHANGED <<crew, file, lock, mem, prev, tries>>

(* What writing c from the start makes of a file that holds old.                      *)
Written(old, c) == IF old = Blank THEN {c} ELSE {c, Torn}

Fill(p) ==
    /\ pc[p] = "filling"
    /\ \/ fd[p] = "tmp" /\ tmp' \in Written(tmp, mem[p]) /\ file' = file
       \/ fd[p] = "file" /\ file' \in Written(file, mem[p]) /\ tmp' = tmp
       \/ fd[p] = "gone" /\ UNCHANGED <<file, tmp>>
    /\ fd' = [fd EXCEPT ![p] = "none"]
    /\ Goto(p, "installing")
    /\ UNCHANGED <<crew, lock, mem, prev, tries>>

(* tmp.replace(path): a rename; whoever has config.tmp open now writes config.json.   *)
Install(p) ==
    /\ pc[p] = "installing"
    /\ IF tmp = None
       THEN Goto(p, "failing") /\ UNCHANGED <<file, tmp, fd>>
       ELSE /\ file' = tmp
            /\ tmp' = None
            /\ fd' = [q \in Processes |-> CASE fd[q] = "tmp"  -> "file"
                                           [] fd[q] = "file" -> "gone"
                                           [] OTHER -> fd[q]]
            /\ Goto(p, "releasing")
    /\ UNCHANGED <<crew, lock, mem, prev, tries>>

WriteFails(p) ==
    /\ "io_error" \in Faults
    /\ pc[p] \in {"truncating", "filling", "installing"}
    /\ fd' = [fd EXCEPT ![p] = "none"]
    /\ Goto(p, "failing")
    /\ UNCHANGED <<crew, file, tmp, lock, mem, prev, tries>>

(* The finally block unlinks the lock file, whoever created it.                       *)
Release(p) ==
    /\ pc[p] = "releasing"
    /\ lock' = None
    /\ prev' = [prev EXCEPT ![p] = mem[p]]
    /\ Goto(p, "idle")
    /\ UNCHANGED <<crew, file, tmp, mem, tries, fd>>

Fail(p) ==
    /\ pc[p] = "failing"
    /\ lock' = None
    /\ Rollback(p)
    /\ UNCHANGED <<crew, file, tmp, tries, fd>>
(* unlink fails: the finally block swallows it, the lock loop goes on.                *)
UnlinkFails(p) ==
    /\ "io_error" \in Faults /\ MayLeaveLock
    /\ lock # None
    /\ \/ pc[p] = "removing" /\ Again(p)
       \/ /\ pc[p] = "releasing"
          /\ prev' = [prev EXCEPT ![p] = mem[p]]
          /\ Goto(p, "idle")
          /\ UNCHANGED mem
       \/ pc[p] = "failing" /\ Rollback(p)
    /\ UNCHANGED <<crew, file, tmp, lock, tries, fd>>
------------------------------------------------------------------------------------
Crash(p) ==
    /\ pc[p] # "down"
    /\ pc[p] \in Writing => MayLeaveLock
    /\ Goto(p, "down")
    /\ mem' = [mem EXCEPT ![p] = None]
    /\ prev' = [prev EXCEPT ![p] = None]
    /\ fd' = [fd EXCEPT ![p] = "none"]
    /\ UNCHANGED <<crew, file, tmp, lock, tries>>

(* Without "slow", a save is over before its lock file counts as left over.           *)
Tick ==
    /\ lock \in 0..(Stale - 1)
    /\ lock + 1 = Stale /\ "slow" \notin Faults => \A p \in Processes : pc[p] \notin Writing
    /\ lock' = lock + 1
    /\ UNCHANGED <<crew, file, tmp, pc, mem, prev, tries, fd>>

Step(p) ==
    \/ OpenLock(p)
    \/ Judge(p)
    \/ RemoveStale(p)
    \/ Truncate(p)
    \/ Fill(p)
    \/ Install(p)
    \/ Release(p)
    \/ Fail(p)

Operate(p) ==
    \/ \E s \in Settings : UpdateServer(p, s)
    \/ \E i \in Ids : AddProvider(p, i)
    \/ \E i, j \in Ids : ReplaceProvider(p, i, j)
    \/ \E i \in Ids : RemoveProvider(p, i)

Next ==
    \/ \E p \in Processes :
          \/ Start(p)
          \/ Operate(p)
          \/ Step(p)
          \/ LockWriteFails(p)
          \/ WriteFails(p)
          \/ UnlinkFails(p)
          \/ Crash(p)
    \/ Tick

Spec == Init /\ [][Next]_vars

(* save_sync goes on (it only sleeps), a process that died is started again, the      *)
(* administrator keeps changing something, time passes.                               *)
FairSpec ==
    /\ Spec
    /\ WF_vars(Tick)
    /\ \A p \in Processes : WF_vars(Step(p)) /\ WF_vars(Start(p)) /\ WF_vars(Operate(p))
------------------------------------------------------------------------------------
(* "Cross-process file lock prevents concurrent writes" (README.en.md): no two         *)
(* processes are between creating the lock file and removing it.                      *)
WritersExclude == \A p, q \in Processes : pc[p] \in Writing /\ pc[q] \in Writing => p = q

(* The store is atomic: config.json goes from one complete configuration to the next, *)
(* each the result of one operation of the process that saved it, and an operation    *)
(* that fails anywhere leaves file and memory as they were.                           *)
ImplementsAtomicStore == S!Spec

(* A lone process at rest holds exactly what the file holds, through failed writes    *)
(* and crashes.  (Another process may write in between, and is not read again.)       *)
LoneMemoryIsFile ==
    \A p \in crew : crew = {p} /\ pc[p] = "idle" => file = mem[p]

(* save_sync never blocks for ever: every save succeeds, fails, or dies.              *)
SaveEnds ==
    \A p \in Processes : pc[p] \notin {"idle", "down"} ~> pc[p] \in {"idle", "down"}

(* A lock file whose owner died does not keep the configuration from being saved: if  *)
(* processes stop dying and disks stop failing, it goes away.                         *)
LeftoverLockGoes ==
    <>[][\A p \in Processes : ~Crash(p) /\ ~LockWriteFails(p) /\ ~UnlinkFails(p)]_vars
        => []<>(lock = None)
====================================================================================
