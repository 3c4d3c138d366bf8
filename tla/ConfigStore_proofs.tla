---------------------------- MODULE ConfigStore_proofs ----------------------------
(* Safety of the configuration store for any number of processes and providers, as    *)
(* long as no lock file stays behind while several processes run and no save outlives *)
(* the age at which its lock counts as left over.                                     *)
EXTENDS ConfigStore, TLAPS

NoStaleOwner == Faults \subseteq {"io_error"}

Known(p) == IF pc[p] = "releasing" THEN mem[p] ELSE prev[p]

(* What a process has in memory, and what it would go back to.                        *)
Memory(p) ==
    /\ pc[p] = "down" => mem[p] = None /\ prev[p] = None
    /\ pc[p] # "down" => mem[p] \in Config /\ p \in crew
    /\ pc[p] = "idle" => prev[p] = mem[p]
    /\ pc[p] \notin {"down", "idle"} =>
          \/ prev[p] # None /\ mem[p] \in S!Changes(prev[p])
          \/ prev[p] = None /\ mem[p] = S!Empty /\ Alone /\ (pc[p] = "releasing" \/ file = None)
    /\ pc[p] = "opening" => tries[p] < Tries

(* What the writer has done to the temporary file.                                    *)
Temporary(p) ==
    /\ fd[p] = IF pc[p] = "filling" THEN "tmp" ELSE "none"
    /\ pc[p] = "filling" => tmp = Blank
    /\ pc[p] = "installing" => tmp = mem[p]

(* Among several processes the lock file belongs to a living writer and is young.     *)
LockOwned ==
    ~Alone =>
        /\ lock # None => \E p \in Processes : pc[p] \in Writing
        /\ \A p \in Processes : pc[p] \in Writing => lock # None /\ lock # Stale
        /\ \A p \in Processes : pc[p] # "removing"

FileSafe ==
    /\ file \in Config \cup {None}
    /\ file = None => Alone
    /\ \A p \in Processes : crew = {p} /\ Known(p) # None => file = Known(p)

IInv ==
    /\ TypeOK
    /\ LockOwned
    /\ WritersExclude
    /\ \A p \in Processes : Memory(p) /\ Temporary(p)
    /\ FileSafe
------------------------------------------------------------------------------------
(* An operation makes a configuration of a configuration.                             *)
LEMMA ChangesTyped ==
    ASSUME NEW c \in Config
    PROVE  S!Changes(c) \subseteq Config
  BY DEF Config, S!Changes, S!Updated, S!Added, S!Replaced, S!Removed

LEMMA EmptyTyped == S!Empty \in Config
  BY StoreAssumption DEF Config, S!Empty

(* The four operations differ only in the configuration they save.                    *)
LEMMA OperateSaves ==
    ASSUME IInv, NEW p \in Processes, Operate(p)
    PROVE  /\ pc[p] = "idle" /\ prev' = prev
           /\ \E c \in S!Changes(mem[p]) : Save(p, c)
  <1>1. mem[p] \in Config /\ pc[p] = "idle" /\ prev' = prev
    BY DEF IInv, Memory, Operate, UpdateServer, AddProvider, ReplaceProvider, RemoveProvider
  <1>2. CASE \E s \in Settings : UpdateServer(p, s)
    BY <1>1, <1>2 DEF UpdateServer, S!Changes, S!Updated
  <1>3. CASE \E i \in Ids : AddProvider(p, i)
    BY <1>1, <1>3 DEF AddProvider, S!Changes, S!Added
  <1>4. CASE \E i, j \in Ids : ReplaceProvider(p, i, j)
    <2>1. PICK i \in Ids, j \in Ids : ReplaceProvider(p, i, j)
      BY <1>4
    <2> DEFINE ij == <<i, j>>
    <2>2. ij \in {x \in mem[p].providers \X Ids : x[2] = x[1] \/ x[2] \notin mem[p].providers}
      BY <2>1 DEF ReplaceProvider
    <2>3. [mem[p] EXCEPT !.providers = (@ \ {ij[1]}) \cup {ij[2]}] \in S!Changes(mem[p])
      BY <2>2 DEF S!Changes, S!Replaced
    <2> QED BY <1>1, <2>1, <2>3 DEF ReplaceProvider
  <1>5. CASE \E i \in Ids : RemoveProvider(p, i)
    BY <1>1, <1>5 DEF RemoveProvider, S!Changes, S!Removed
  <1> QED BY <1>2, <1>3, <1>4, <1>5 DEF Operate
------------------------------------------------------------------------------------
LEMMA InitInv == ASSUME Init PROVE IInv
  <1>1. TypeOK
    BY StoreAssumption, EmptyTyped DEF Init, TypeOK, Points, Writing
  <1>2. LockOwned /\ WritersExclude
    BY DEF Init, LockOwned, WritersExclude, Writing
  <1>3. \A p \in Processes : Memory(p) /\ Temporary(p)
    BY DEF Init, Memory, Temporary
  <1>4. FileSafe
    BY StoreAssumption, EmptyTyped DEF Init, FileSafe, Known
  <1> QED BY <1>1, <1>2, <1>3, <1>4 DEF IInv

(* What an action of p has to establish, and what it leaves alone.                    *)
OthersKeep(p) ==
    \A q \in Processes \ {p} :
        /\ pc'[q] = pc[q] /\ mem'[q] = mem[q] /\ prev'[q] = prev[q]
        /\ tries'[q] = tries[q] /\ fd'[q] = fd[q]

(* A step that ends outside the critical section and leaves both files alone.         *)
LEMMA OutsideStep ==
    ASSUME IInv, NEW p \in Processes, OthersKeep(p), TypeOK', Memory(p)',
           crew' = crew, file' = file, tmp' = tmp, fd'[p] = "none",
           pc'[p] \notin Writing,
           \/ Alone
           \/ pc[p] \notin Writing /\ lock' = lock /\ pc'[p] # "removing"
           \/ pc[p] \in Writing /\ lock' = None /\ pc'[p] # "removing",
           pc'[p] = "down" \/ Known(p)' = Known(p) \/ Known(p)' = file
    PROVE  IInv'
  <1>1. Alone' = Alone
    BY DEF Alone
  <1>2. WritersExclude'
    BY DEF IInv, WritersExclude, OthersKeep
  <1>3. LockOwned'
    BY <1>1 DEF IInv, LockOwned, WritersExclude, OthersKeep
  <1>4. \A q \in Processes : Memory(q)' /\ Temporary(q)'
    BY <1>1 DEF IInv, Memory, Temporary, OthersKeep, Writing
  <1>5. FileSafe'
    BY <1>1 DEF IInv, FileSafe, Known, OthersKeep, Memory
  <1> QED BY <1>2, <1>3, <1>4, <1>5 DEF IInv

(* A step that enters the critical section or stays in it.                            *)
LEMMA InsideStep ==
    ASSUME IInv, NEW p \in Processes, OthersKeep(p), TypeOK', Memory(p)', Temporary(p)',
           crew' = crew, pc'[p] \in Writing,
           \/ pc[p] \in Writing /\ lock' = lock
           \/ lock = None /\ lock' = 0,
           \/ file' = file /\ Known(p)' = Known(p)
           \/ file' \in Config /\ Known(p)' = file'
    PROVE  IInv'
  <1>1. Alone' = Alone
    BY DEF Alone
  <1>2. \A q \in Processes \ {p} : Alone => pc[q] = "down"
    <2>1. p \in crew
      BY DEF Memory, Writing
    <2> QED BY <2>1 DEF IInv, Memory, Alone
  <1>3. \A q \in Processes \ {p} : pc[q] \notin Writing
    <2>1. CASE Alone
      BY <2>1, <1>2 DEF Writing
    <2>2. CASE ~Alone
      BY <2>2, StoreAssumption DEF IInv, LockOwned, WritersExclude
    <2> QED BY <2>1, <2>2
  <1>4. LockOwned' /\ WritersExclude'
    BY <1>1, <1>3, StoreAssumption DEF IInv, LockOwned, WritersExclude, OthersKeep, Writing
  <1>5. \A q \in Processes : Memory(q)' /\ Temporary(q)'
    <2> SUFFICES ASSUME NEW q \in Processes \ {p} PROVE Memory(q)' /\ Temporary(q)'
      OBVIOUS
    <2>1. CASE pc[q] = "down"
      BY <1>1, <2>1 DEF IInv, Memory, Temporary, OthersKeep
    <2>2. CASE pc[q] # "down"
      BY <1>1, <1>2, <1>3, <2>2 DEF IInv, Memory, Temporary, OthersKeep, Writing
    <2> QED BY <2>1, <2>2
  <1>6. FileSafe'
    BY <1>1, StoreAssumption DEF IInv, FileSafe, Known, OthersKeep, Memory
  <1> QED BY <1>4, <1>5, <1>6 DEF IInv
------------------------------------------------------------------------------------
(* Rolling back gives a process what it knew before, or stops it.                     *)
LEMMA RollbackGood ==
    ASSUME IInv, NEW p \in Processes, pc[p] \notin {"down", "idle", "releasing"},
           crew' = crew, Rollback(p)
    PROVE  /\ Memory(p)' /\ Known(p)' = Known(p)
           /\ pc' \in [Processes -> Points] /\ mem' \in [Processes -> Config \cup {None}]
           /\ pc'[p] \in {"down", "idle"}
           /\ \A q \in Processes \ {p} : pc'[q] = pc[q] /\ mem'[q] = mem[q]
  <1>1. pc[p] \in Points /\ prev[p] \in Config \cup {None} /\ p \in crew
    BY DEF IInv, TypeOK, Memory
  <1> QED BY <1>1 DEF IInv, TypeOK, Rollback, Goto, Memory, Known, Points, Writing

(* So does the lock loop, unless it goes on.                                          *)
LEMMA AgainGood ==
    ASSUME IInv, NEW p \in Processes, pc[p] \in {"judging", "removing"},
           crew' = crew, file' = file, tries' = tries, Again(p)
    PROVE  /\ Memory(p)' /\ Known(p)' = Known(p)
           /\ pc' \in [Processes -> Points] /\ mem' \in [Processes -> Config \cup {None}]
           /\ pc'[p] \in {"down", "idle", "opening"} /\ prev' = prev
           /\ \A q \in Processes \ {p} : pc'[q] = pc[q] /\ mem'[q] = mem[q]
  <1>1. CASE tries[p] < Tries
    BY <1>1 DEF IInv, TypeOK, Again, Goto, Memory, Known, Points, Writing, Alone
  <1>2. CASE ~(tries[p] < Tries)
    BY <1>2, RollbackGood DEF Again, Rollback
  <1> QED BY <1>1, <1>2

(* Saving starts from a configuration one operation away, or from nothing at all.     *)
LEMMA SaveGood ==
    ASSUME IInv, NEW p \in Processes, NEW c \in Config, Save(p, c), prev' = prev, p \in crew,
           \/ prev[p] # None /\ c \in S!Changes(prev[p])
           \/ prev[p] = None /\ c = S!Empty /\ Alone /\ file = None,
           pc[p] \in {"down", "idle"}
    PROVE  IInv'
  <1>1. TypeOK'
    BY StoreAssumption DEF IInv, TypeOK, Save, Goto, Points, Writing
  <1>2. Memory(p)'
    BY StoreAssumption DEF IInv, TypeOK, Save, Goto, Memory, Alone
  <1>3. OthersKeep(p)
    BY DEF IInv, TypeOK, Save, Goto, OthersKeep
  <1>4. /\ pc'[p] = "opening" /\ Known(p)' = Known(p) /\ fd'[p] = "none"
        /\ crew' = crew /\ file' = file /\ tmp' = tmp /\ lock' = lock
    BY DEF IInv, TypeOK, Save, Goto, Known, Temporary
  <1> QED BY <1>1, <1>2, <1>3, <1>4, OutsideStep DEF Writing
------------------------------------------------------------------------------------
(* One lemma per group of actions.                                                    *)
LEMMA StartGood == ASSUME IInv, NEW p \in Processes, Start(p) PROVE IInv'
  <1>1. prev[p] = None /\ mem[p] = None /\ pc[p] = "down" /\ p \in crew
    BY DEF IInv, Memory, Start
  <1>2. CASE file = None
    <2>1. Alone
      BY <1>2 DEF IInv, FileSafe
    <2> QED BY <1>1, <1>2, <2>1, EmptyTyped, SaveGood DEF Start
  <1>3. CASE file # None
    <2>1. file \in Config
      BY <1>3 DEF IInv, FileSafe
    <2>2. /\ mem' = [mem EXCEPT ![p] = file] /\ prev' = [prev EXCEPT ![p] = file]
          /\ pc' = [pc EXCEPT ![p] = "idle"]
          /\ UNCHANGED <<crew, file, tmp, lock, tries, fd>>
      BY <1>3, <2>1 DEF Start, Goto
    <2>3. TypeOK'
      BY <2>1, <2>2 DEF IInv, TypeOK, Points
    <2>4. Memory(p)' /\ Known(p)' = file /\ OthersKeep(p) /\ pc'[p] = "idle"
      BY <1>1, <2>1, <2>2 DEF IInv, TypeOK, Memory, Known, OthersKeep
    <2>5. fd'[p] = "none"
      BY <1>1, <2>2 DEF IInv, Temporary
    <2> QED BY <1>1, <2>2, <2>3, <2>4, <2>5, OutsideStep DEF Writing
  <1> QED BY <1>2, <1>3

LEMMA OperateGood == ASSUME IInv, NEW p \in Processes, Operate(p) PROVE IInv'
  <1>1. pc[p] = "idle" /\ prev' = prev
    BY OperateSaves
  <1>2. mem[p] \in Config /\ prev[p] = mem[p] /\ p \in crew
    BY <1>1 DEF IInv, Memory
  <1>3. PICK c \in S!Changes(mem[p]) : Save(p, c)
    BY OperateSaves
  <1>4. c \in Config
    BY <1>2, ChangesTyped
  <1> QED BY <1>1, <1>2, <1>3, <1>4, SaveGood, StoreAssumption

LEMMA OpenLockGood == ASSUME IInv, NEW p \in Processes, OpenLock(p) PROVE IInv'
  <1> USE DEF OpenLock, Goto
  <1>1. TypeOK'
    <2>1. tries[p] \in 0..Tries /\ tries[p] < Tries
      BY DEF IInv, TypeOK, Memory
    <2>2. tries[p] + 1 \in 0..Tries
      BY <2>1, StoreAssumption
    <2> QED BY <2>2, StoreAssumption DEF IInv, TypeOK, Points, Writing
  <1>2. OthersKeep(p) /\ Known(p)' = Known(p)
    BY DEF IInv, TypeOK, OthersKeep, Known
  <1>3. Memory(p)' /\ Temporary(p)' /\ fd'[p] = "none"
    BY DEF IInv, TypeOK, Memory, Temporary, Alone
  <1>4. CASE lock = None
    BY <1>1, <1>2, <1>3, <1>4, InsideStep DEF IInv, TypeOK, Writing
  <1>5. CASE lock # None
    <2>1. pc[p] = "opening" /\ pc'[p] = "judging" /\ lock' = lock
      BY <1>5 DEF IInv, TypeOK
    <2> QED BY <1>1, <1>2, <1>3, <2>1, OutsideStep DEF Writing
  <1> QED BY <1>4, <1>5

LEMMA JudgeGood == ASSUME IInv, NEW p \in Processes, Judge(p) PROVE IInv'
  <1>1. /\ pc[p] = "judging" /\ fd[p] = "none"
        /\ UNCHANGED <<crew, file, tmp, lock, tries, fd>>
    BY DEF Judge, IInv, Temporary
  <1>2. CASE lock = Stale
    <2>1. Alone
      BY <1>2, StoreAssumption DEF IInv, LockOwned, TypeOK
    <2>2. pc' = [pc EXCEPT ![p] = "removing"] /\ mem' = mem /\ prev' = prev
      BY <1>2 DEF Judge, Goto
    <2>3. TypeOK' /\ OthersKeep(p) /\ pc'[p] = "removing"
      BY <1>1, <2>2 DEF IInv, TypeOK, OthersKeep, Points
    <2>4. Memory(p)' /\ Known(p)' = Known(p)
      BY <1>1, <2>2, <2>3 DEF IInv, TypeOK, Memory, Known, Alone
    <2> QED BY <1>1, <2>1, <2>3, <2>4, OutsideStep DEF Writing
  <1>3. CASE lock # Stale
    <2>1. Again(p)
      BY <1>3 DEF Judge
    <2>2. TypeOK' /\ OthersKeep(p)
      BY <1>1, <2>1, AgainGood DEF IInv, TypeOK, OthersKeep
    <2> QED BY <1>1, <2>1, <2>2, AgainGood, OutsideStep DEF Writing
  <1> QED BY <1>2, <1>3
(* Only a lone process ever removes a lock file it did not create.                    *)
LEMMA RemoveStaleGood == ASSUME IInv, NEW p \in Processes, RemoveStale(p) PROVE IInv'
  <1>1. /\ pc[p] = "removing" /\ fd[p] = "none" /\ Again(p) /\ lock' = None
        /\ UNCHANGED <<crew, file, tmp, tries, fd>>
    BY DEF RemoveStale, IInv, Temporary
  <1>2. Alone
    BY <1>1 DEF IInv, LockOwned
  <1>3. TypeOK' /\ OthersKeep(p)
    BY <1>1, AgainGood DEF IInv, TypeOK, OthersKeep
  <1> QED BY <1>1, <1>2, <1>3, AgainGood, OutsideStep DEF Writing

LEMMA TruncateGood == ASSUME IInv, NEW p \in Processes, Truncate(p) PROVE IInv'
  <1> USE DEF Truncate, Goto
  <1>1. TypeOK' /\ OthersKeep(p)
    BY DEF IInv, TypeOK, Points, Writing, OthersKeep
  <1>2. Memory(p)' /\ Temporary(p)' /\ Known(p)' = Known(p)
    BY DEF IInv, TypeOK, Memory, Temporary, Known, Alone
  <1>3. pc[p] \in Writing /\ pc'[p] \in Writing
    BY DEF IInv, TypeOK, Writing
  <1> QED BY <1>1, <1>2, <1>3, InsideStep

LEMMA FillGood == ASSUME IInv, NEW p \in Processes, Fill(p) PROVE IInv'
  <1>1. /\ pc[p] = "filling" /\ fd[p] = "tmp" /\ tmp = Blank /\ mem[p] \in Config
    BY DEF Fill, IInv, Temporary, Memory
  <1>2. /\ pc' = [pc EXCEPT ![p] = "installing"] /\ fd' = [fd EXCEPT ![p] = "none"]
        /\ tmp' = mem[p] /\ UNCHANGED <<crew, file, lock, mem, prev, tries>>
    BY <1>1 DEF Fill, Goto, Written
  <1>3. TypeOK' /\ OthersKeep(p)
    BY <1>1, <1>2 DEF IInv, TypeOK, Points, Writing, OthersKeep
  <1>4. Memory(p)' /\ Temporary(p)' /\ Known(p)' = Known(p)
    BY <1>1, <1>2 DEF IInv, TypeOK, Memory, Temporary, Known, Alone
  <1>5. pc[p] \in Writing /\ pc'[p] \in Writing
    BY <1>1, <1>2 DEF IInv, TypeOK, Writing
  <1> QED BY <1>2, <1>3, <1>4, <1>5, InsideStep

(* The rename: the file becomes what its writer has in memory.                        *)
LEMMA InstallStep ==
    ASSUME IInv, NEW p \in Processes, Install(p)
    PROVE  /\ pc[p] = "installing" /\ mem[p] \in Config /\ file' = mem[p]
           /\ pc' = [pc EXCEPT ![p] = "releasing"] /\ fd' = fd /\ tmp' = None
           /\ UNCHANGED <<crew, lock, mem, prev, tries>>
  <1>1. /\ pc[p] = "installing" /\ mem[p] \in Config /\ tmp = mem[p]
    BY DEF Install, IInv, Temporary, Memory
  <1>2. tmp # None
    BY <1>1, StoreAssumption
  <1>3. \A q \in Processes : fd[q] = "none"
    <2> SUFFICES ASSUME NEW q \in Processes PROVE pc[q] # "filling"
      BY DEF IInv, Temporary
    <2> QED BY <1>1 DEF IInv, WritersExclude, Writing
  <1>4. fd' = [q \in Processes |-> CASE fd[q] = "tmp"  -> "file"
                                     [] fd[q] = "file" -> "gone"
                                     [] OTHER -> fd[q]]
    BY <1>2 DEF Install
  <1>5. fd' = [q \in Processes |-> "none"] /\ fd = [q \in Processes |-> "none"]
    BY <1>3, <1>4 DEF IInv, TypeOK
  <1> QED BY <1>1, <1>2, <1>5 DEF Install, Goto

LEMMA InstallGood == ASSUME IInv, NEW p \in Processes, Install(p) PROVE IInv'
  <1> USE InstallStep
  <1>1. TypeOK' /\ OthersKeep(p)
    BY DEF IInv, TypeOK, Points, Writing, OthersKeep
  <1>2. Memory(p)' /\ Temporary(p)' /\ Known(p)' = file'
    BY DEF IInv, TypeOK, Memory, Temporary, Known, Alone
  <1>3. pc[p] \in Writing /\ pc'[p] \in Writing
    BY DEF IInv, TypeOK, Writing
  <1> QED BY <1>1, <1>2, <1>3, InsideStep

LEMMA WriteFailsGood == ASSUME IInv, NEW p \in Processes, WriteFails(p) PROVE IInv'
  <1>1. /\ pc[p] \in Writing /\ pc[p] # "releasing"
        /\ pc' = [pc EXCEPT ![p] = "failing"] /\ fd' = [fd EXCEPT ![p] = "none"]
        /\ UNCHANGED <<crew, file, tmp, lock, mem, prev, tries>>
    BY DEF WriteFails, Goto, Writing
  <1>2. TypeOK' /\ OthersKeep(p)
    BY <1>1 DEF IInv, TypeOK, Points, Writing, OthersKeep
  <1>3. Memory(p)' /\ Temporary(p)' /\ Known(p)' = Known(p)
    BY <1>1 DEF IInv, TypeOK, Memory, Temporary, Known, Alone, Writing
  <1>4. pc'[p] \in Writing
    BY <1>1 DEF IInv, TypeOK, Writing
  <1> QED BY <1>1, <1>2, <1>3, <1>4, InsideStep
(* The operation has succeeded; its process goes back to rest.                        *)
LEMMA ReleaseStep ==
    ASSUME IInv, NEW p \in Processes, pc[p] = "releasing",
           pc' = [pc EXCEPT ![p] = "idle"], prev' = [prev EXCEPT ![p] = mem[p]],
           lock' \in {None, lock}, lock' = None \/ Alone,
           UNCHANGED <<crew, file, tmp, mem, tries, fd>>
    PROVE  IInv' /\ Known(p)' = Known(p)
  <1>1. mem[p] \in Config /\ p \in crew /\ fd[p] = "none"
    BY DEF IInv, Memory, Temporary
  <1>2. TypeOK' /\ OthersKeep(p) /\ pc'[p] = "idle"
    BY <1>1 DEF IInv, TypeOK, Points, OthersKeep
  <1>3. Memory(p)' /\ Known(p)' = Known(p)
    BY <1>1 DEF IInv, TypeOK, Memory, Known
  <1> QED BY <1>1, <1>2, <1>3, OutsideStep DEF Writing

LEMMA RollbackStep ==
    ASSUME IInv, NEW p \in Processes, pc[p] \notin {"down", "idle", "releasing"}, Rollback(p),
           fd[p] = "none",
           \/ Alone /\ lock' \in (0..Stale) \cup {None}
           \/ pc[p] \in Writing /\ lock' = None,
           UNCHANGED <<crew, file, tmp, tries, fd>>
    PROVE  IInv' /\ Known(p)' = Known(p)
  <1>1. TypeOK' /\ OthersKeep(p)
    BY RollbackGood DEF IInv, TypeOK, OthersKeep, Rollback
  <1> QED BY <1>1, RollbackGood, OutsideStep DEF Writing

LEMMA ReleaseGood == ASSUME IInv, NEW p \in Processes, Release(p) PROVE IInv'
  <1>1. /\ pc[p] = "releasing" /\ lock' = None
        /\ pc' = [pc EXCEPT ![p] = "idle"] /\ prev' = [prev EXCEPT ![p] = mem[p]]
        /\ UNCHANGED <<crew, file, tmp, mem, tries, fd>>
    BY DEF Release, Goto
  <1> QED BY <1>1, ReleaseStep

LEMMA FailGood == ASSUME IInv, NEW p \in Processes, Fail(p) PROVE IInv'
  BY RollbackStep DEF Fail, IInv, Temporary, Writing

LEMMA LockWriteFailsGood ==
    ASSUME IInv, NoStaleOwner, NEW p \in Processes, LockWriteFails(p) PROVE IInv'
  <1>1. Alone /\ lock' \in 0..Stale
    BY StoreAssumption DEF LockWriteFails, MayLeaveLock, NoStaleOwner
  <1>2. /\ pc[p] = "opening" /\ fd[p] = "none" /\ Rollback(p)
        /\ UNCHANGED <<crew, file, tmp, tries, fd>>
    BY DEF LockWriteFails, IInv, Temporary
  <1>3. pc[p] \notin {"down", "idle", "releasing"} /\ lock' \in (0..Stale) \cup {None}
    BY <1>1, <1>2
  <1> QED BY <1>1, <1>2, <1>3, RollbackStep

LEMMA UnlinkFailsGood ==
    ASSUME IInv, NoStaleOwner, NEW p \in Processes, UnlinkFails(p) PROVE IInv'
  <1>1. Alone /\ lock' = lock /\ UNCHANGED <<crew, file, tmp, tries, fd>>
    BY DEF UnlinkFails, MayLeaveLock, NoStaleOwner
  <1>2. CASE pc[p] = "removing"
    <2>1. Again(p) /\ fd[p] = "none"
      BY <1>2 DEF UnlinkFails, IInv, Temporary
    <2>2. TypeOK' /\ OthersKeep(p)
      BY <1>1, <1>2, <2>1, AgainGood DEF IInv, TypeOK, OthersKeep
    <2> QED BY <1>1, <1>2, <2>1, <2>2, AgainGood, OutsideStep DEF Writing
  <1>3. CASE pc[p] = "releasing"
    BY <1>1, <1>3, ReleaseStep DEF UnlinkFails, Goto
  <1>4. CASE pc[p] = "failing"
    BY <1>1, <1>4, RollbackStep DEF UnlinkFails, IInv, TypeOK, Temporary
  <1> QED BY <1>2, <1>3, <1>4 DEF UnlinkFails

(* A process that dies takes its unfinished write with it.                            *)
LEMMA CrashGood ==
    ASSUME IInv, NoStaleOwner, NEW p \in Processes, Crash(p) PROVE IInv'
  <1>1. /\ pc' = [pc EXCEPT ![p] = "down"] /\ mem' = [mem EXCEPT ![p] = None]
        /\ prev' = [prev EXCEPT ![p] = None] /\ fd' = [fd EXCEPT ![p] = "none"]
        /\ UNCHANGED <<crew, file, tmp, lock, tries>>
    BY DEF Crash, Goto
  <1>2. pc[p] \in Writing => Alone
    BY DEF Crash, MayLeaveLock, NoStaleOwner
  <1>3. TypeOK' /\ OthersKeep(p)
    BY <1>1 DEF IInv, TypeOK, Points, OthersKeep
  <1>4. Memory(p)' /\ pc'[p] = "down" /\ fd'[p] = "none"
    BY <1>1 DEF IInv, TypeOK, Memory
  <1> QED BY <1>1, <1>2, <1>3, <1>4, OutsideStep DEF Writing

(* Time alone does not make the lock of a writer stale.                               *)
LEMMA TickGood == ASSUME IInv, NoStaleOwner, Tick PROVE IInv'
  <1>1. UNCHANGED <<crew, file, tmp, pc, mem, prev, tries, fd>>
    BY DEF Tick
  <1>2. Alone' = Alone
    BY <1>1 DEF Alone
  <1>3. lock \in 0..(Stale - 1) /\ lock' = lock + 1
    BY DEF Tick
  <1>4. TypeOK'
    BY <1>1, <1>3, StoreAssumption DEF IInv, TypeOK
  <1>5. WritersExclude'
    BY <1>1 DEF IInv, WritersExclude
  <1>6. LockOwned'
    <2>1. lock # None /\ lock' # None
      BY <1>3, StoreAssumption
    <2>2. lock' = Stale => \A p \in Processes : pc[p] \notin Writing
      BY <1>3 DEF Tick, NoStaleOwner
    <2> QED BY <1>1, <1>2, <2>1, <2>2 DEF IInv, LockOwned
  <1>7. \A p \in Processes : Memory(p)' /\ Temporary(p)'
    BY <1>1, <1>2 DEF IInv, Memory, Temporary
  <1>8. FileSafe'
    BY <1>1, <1>2 DEF IInv, FileSafe, Known
  <1> QED BY <1>4, <1>5, <1>6, <1>7, <1>8 DEF IInv

LEMMA StutterGood == ASSUME IInv, UNCHANGED vars PROVE IInv'
  <1>1. Alone' = Alone
    BY DEF vars, Alone
  <1>2. TypeOK' /\ LockOwned' /\ WritersExclude'
    BY <1>1 DEF IInv, vars, TypeOK, LockOwned, WritersExclude
  <1>3. \A p \in Processes : Memory(p)' /\ Temporary(p)'
    BY <1>1 DEF IInv, vars, Memory, Temporary
  <1>4. FileSafe'
    BY <1>1 DEF IInv, vars, FileSafe, Known
  <1> QED BY <1>2, <1>3, <1>4 DEF IInv

LEMMA NextGood == ASSUME IInv, NoStaleOwner, [Next]_vars PROVE IInv'
  <1>1. ASSUME NEW p \in Processes, Start(p) PROVE IInv'
    BY <1>1, StartGood
  <1>2. ASSUME NEW p \in Processes, Operate(p) PROVE IInv'
    BY <1>2, OperateGood
  <1>3. ASSUME NEW p \in Processes, Step(p) PROVE IInv'
    BY <1>3, OpenLockGood, JudgeGood, RemoveStaleGood, TruncateGood, FillGood, InstallGood,
       ReleaseGood, FailGood, Zenon DEF Step
  <1>4. ASSUME NEW p \in Processes, LockWriteFails(p) \/ UnlinkFails(p) \/ Crash(p) PROVE IInv'
    BY <1>4, LockWriteFailsGood, UnlinkFailsGood, CrashGood
  <1>5. ASSUME NEW p \in Processes, WriteFails(p) PROVE IInv'
    BY <1>5, WriteFailsGood
  <1>6. CASE Tick
    BY <1>6, TickGood
  <1>7. CASE UNCHANGED vars
    BY <1>7, StutterGood
  <1> QED BY <1>1, <1>2, <1>3, <1>4, <1>5, <1>6, <1>7 DEF Next
THEOREM InvariantHolds == ASSUME NoStaleOwner PROVE Spec => []IInv
  <1>1. Init => IInv
    BY InitInv
  <1>2. IInv /\ [Next]_vars => IInv'
    BY NextGood
  <1> QED BY <1>1, <1>2, PTL DEF Spec

(* The type invariant of the store, whatever processes share the file.                *)
THEOREM TypeCorrect == ASSUME NoStaleOwner PROVE Spec => []TypeOK
  <1>1. IInv => TypeOK
    BY DEF IInv
  <1> QED BY <1>1, InvariantHolds, PTL

(* The lock file of save_sync does exclude writers as long as it is never judged left *)
(* over while its owner, or another process, is alive.                                *)
THEOREM LockExcludes == ASSUME NoStaleOwner PROVE Spec => []WritersExclude
  <1>1. IInv => WritersExclude
    BY DEF IInv
  <1> QED BY <1>1, InvariantHolds, PTL

(* Failed saves and crashes leave a lone process with what the file holds.            *)
THEOREM RollbackExact == ASSUME NoStaleOwner PROVE Spec => []LoneMemoryIsFile
  <1>1. IInv => LoneMemoryIsFile
    <2> SUFFICES ASSUME IInv, NEW p \in crew, crew = {p}, pc[p] = "idle" PROVE file = mem[p]
      BY DEF LoneMemoryIsFile
    <2>1. p \in Processes
      BY StoreAssumption DEF IInv, TypeOK
    <2> QED BY <2>1, StoreAssumption DEF IInv, FileSafe, Memory, Known
  <1> QED BY <1>1, InvariantHolds, PTL
------------------------------------------------------------------------------------
(* Refinement.  Only two kinds of step are visible: a process starting or stopping,   *)
(* and the rename.                                                                    *)
LEMMA Invisible ==
    ASSUME file' = file, \A q \in Processes : Known(q)' = Known(q)
    PROVE  UNCHANGED S!vars
  BY DEF S!vars, Known

LEMMA OnlyKnown ==
    ASSUME NEW p \in Processes, NEW c, \A q \in Processes \ {p} : Known(q)' = Known(q),
           Known(p)' = c
    PROVE  [q \in Processes |-> IF pc[q] = "releasing" THEN mem[q] ELSE prev[q]]'
             = [[q \in Processes |-> IF pc[q] = "releasing" THEN mem[q] ELSE prev[q]] EXCEPT ![p] = c]
  BY DEF Known
LEMMA StepRefines ==
    ASSUME IInv, IInv', [Next]_vars
    PROVE  [S!Next]_(S!vars)
  <1> DEFINE K == [q \in Processes |-> IF pc[q] = "releasing" THEN mem[q] ELSE prev[q]]
  <1>1. ASSUME NEW p \in Processes, Start(p) PROVE [S!Next]_(S!vars)
    <2>1. prev[p] = None /\ pc[p] = "down" /\ K[p] = None
      BY <1>1 DEF IInv, Memory, Start
    <2>2. CASE file = None
      <3>1. file' = file /\ prev' = prev /\ pc' = [pc EXCEPT ![p] = "opening"]
            /\ \A q \in Processes \ {p} : mem'[q] = mem[q]
        BY <1>1, <2>2 DEF Start, Save, Goto, IInv, TypeOK
      <3> QED BY <2>1, <3>1, Invisible DEF Known, IInv, TypeOK
    <2>3. CASE file # None
      <3>1. /\ file \in Config /\ file' = file
            /\ prev' = [prev EXCEPT ![p] = file] /\ pc' = [pc EXCEPT ![p] = "idle"]
            /\ mem' = [mem EXCEPT ![p] = file]
        BY <1>1, <2>3 DEF Start, Goto, IInv, FileSafe
      <3>2. K' = [K EXCEPT ![p] = file]
        BY <2>1, <3>1, OnlyKnown DEF Known, IInv, TypeOK
      <3> QED BY <2>1, <2>3, <3>1, <3>2 DEF S!Next, S!Load
    <2> QED BY <2>2, <2>3
  <1>2. ASSUME NEW p \in Processes, Operate(p) PROVE [S!Next]_(S!vars)
    <2>1. pc[p] = "idle" /\ prev' = prev /\ file' = file /\ pc' = [pc EXCEPT ![p] = "opening"]
          /\ \A q \in Processes \ {p} : mem'[q] = mem[q]
      BY <1>2, OperateSaves DEF Save, Goto, IInv, TypeOK
    <2> QED BY <2>1, Invisible DEF Known, IInv, TypeOK
  <1>3. ASSUME NEW p \in Processes, Install(p) PROVE [S!Next]_(S!vars)
    <2>1. /\ pc[p] = "installing" /\ mem[p] \in Config /\ file' = mem[p]
          /\ pc' = [pc EXCEPT ![p] = "releasing"] /\ mem' = mem /\ prev' = prev
      BY <1>3, InstallStep
    <2>2. K' = [K EXCEPT ![p] = mem[p]] /\ K[p] = prev[p]
      BY <2>1, OnlyKnown DEF Known, IInv, TypeOK
    <2>3. CASE prev[p] # None
      <3>1. mem[p] \in S!Changes(K[p])
        BY <2>1, <2>2, <2>3 DEF IInv, Memory
      <3> QED BY <2>1, <2>2, <2>3, <3>1 DEF S!Next, S!Commit
    <2>4. CASE prev[p] = None
      <3>1. mem[p] = S!Empty /\ file = None
        BY <2>1, <2>4 DEF IInv, Memory
      <3> QED BY <2>1, <2>2, <2>4, <3>1 DEF S!Next, S!Create
    <2> QED BY <2>3, <2>4
  <1>4. ASSUME NEW p \in Processes, Crash(p) PROVE [S!Next]_(S!vars)
    <2>1. /\ pc' = [pc EXCEPT ![p] = "down"] /\ mem' = [mem EXCEPT ![p] = None]
          /\ prev' = [prev EXCEPT ![p] = None] /\ file' = file
      BY <1>4 DEF Crash, Goto
    <2>2. K' = [K EXCEPT ![p] = None]
      BY <2>1, OnlyKnown DEF Known, IInv, TypeOK
    <2>3. CASE K[p] # None
      BY <2>1, <2>2, <2>3 DEF S!Next, S!Stop
    <2>4. CASE K[p] = None
      BY <2>1, <2>2, <2>4 DEF S!vars
    <2> QED BY <2>3, <2>4
  <1>5. ASSUME NEW p \in Processes, OpenLock(p) \/ Truncate(p) \/ Fill(p) \/ WriteFails(p)
        PROVE  [S!Next]_(S!vars)
    <2>1. pc[p] = "filling" => fd[p] = "tmp"
      BY DEF IInv, Temporary
    <2>2. /\ file' = file /\ mem' = mem /\ prev' = prev
          /\ pc[p] # "releasing" /\ pc'[p] # "releasing"
          /\ \A q \in Processes \ {p} : pc'[q] = pc[q]
      BY <1>5, <2>1 DEF OpenLock, Truncate, Fill, WriteFails, Goto, IInv, TypeOK
    <2> QED BY <2>2, Invisible DEF Known
  <1>6. ASSUME NEW p \in Processes, pc[p] # "releasing",
               Judge(p) \/ RemoveStale(p) \/ LockWriteFails(p) \/ Fail(p) \/ UnlinkFails(p)
        PROVE  [S!Next]_(S!vars)
    <2>1. file' = file
      BY <1>6 DEF Judge, RemoveStale, LockWriteFails, Fail, UnlinkFails
    <2> DEFINE Outside == /\ prev' = prev /\ pc'[p] # "releasing"
                          /\ \A q \in Processes \ {p} : pc'[q] = pc[q] /\ mem'[q] = mem[q]
    <2>2. Rollback(p) => Outside
      BY DEF Rollback, Goto, IInv, TypeOK
    <2>3. Again(p) => Outside
      BY <2>2 DEF Again, Goto, IInv, TypeOK
    <2>4. Judge(p) => Outside
      BY <2>3 DEF Judge, Goto, IInv, TypeOK
    <2>5. Outside
      BY <1>6, <2>2, <2>3, <2>4 DEF RemoveStale, LockWriteFails, Fail, UnlinkFails
    <2> QED BY <1>6, <2>1, <2>5, Invisible DEF Known
  <1>7. ASSUME NEW p \in Processes, pc[p] = "releasing", Release(p) \/ UnlinkFails(p)
        PROVE  [S!Next]_(S!vars)
    <2>1. /\ file' = file /\ mem' = mem /\ pc' = [pc EXCEPT ![p] = "idle"]
          /\ prev' = [prev EXCEPT ![p] = mem[p]]
      BY <1>7 DEF Release, UnlinkFails, Goto
    <2> QED BY <1>7, <2>1, Invisible DEF Known, IInv, TypeOK
  <1>8. CASE Tick \/ UNCHANGED vars
    BY <1>8, Invisible DEF Tick, vars, Known
  <1> QED BY <1>1, <1>2, <1>3, <1>4, <1>5, <1>6, <1>7, <1>8
          DEF Next, Step, Judge, RemoveStale, LockWriteFails, Fail, Release

(* The file protocol implements the store that changes file and memory at once.       *)
THEOREM StoreAtomic == ASSUME NoStaleOwner PROVE Spec => ImplementsAtomicStore
  <1>1. Init => S!Init
    BY DEF Init, S!Init
  <1>2. IInv /\ IInv' /\ [Next]_vars => [S!Next]_(S!vars)
    BY StepRefines
  <1> QED BY <1>1, <1>2, InvariantHolds, PTL DEF Spec, ImplementsAtomicStore, S!Spec
===================================================================================
