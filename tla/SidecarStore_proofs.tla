------------------------- MODULE SidecarStore_proofs -------------------------
(***************************************************************************)
(* The store, for any number of callers, processes, updates and faults.    *)
(***************************************************************************)
EXTENDS SidecarStore, TLAPS

(***************************************************************************)
(* Whole files, whoever shares the directory                               *)
(***************************************************************************)

LEMMA TornIsNoContent == Torn \notin Contents
  BY BoundsAssumption DEF Torn, Contents, Updates

\* What a caller has put together so far is a content, and is on the disk before
\* the rename.
CallerIsWhole(t) ==
    /\ loaded[t] \in Contents
    /\ pc[t] # "idle" => adds[t] \in Updates
    /\ pc[t] \in {"written", "flushed"} => temp[t] \in Contents
    /\ pc[t] = "flushed" => flushed[t]

WholeInv ==
    /\ TypeOK
    /\ file \in Contents /\ durable \in Contents /\ synced
    /\ \A t \in Threads : CallerIsWhole(t)

LEMMA InitEstablishesWhole == Init => WholeInv
  <1> SUFFICES ASSUME Init PROVE WholeInv
    OBVIOUS
  <1>1. {} \in Contents
    BY DEF Contents
  <1>2. mutex \in [Processes -> Threads \union {Free}] /\ pc \in [Threads -> Steps]
    BY DEF Init, Steps
  <1>3. TypeOK
    BY <1>1, <1>2, BoundsAssumption DEF Init, TypeOK, Files
  <1> QED
    BY <1>1, <1>3 DEF Init, WholeInv, CallerIsWhole

\* What a caller's step may do without disturbing the other callers.
OnlyMoves(t) ==
    \A u \in Threads \ {t} :
       /\ pc'[u] \in {pc[u], "idle"} /\ loaded'[u] = loaded[u] /\ adds'[u] = adds[u]
       /\ temp'[u] = temp[u] /\ flushed'[u] = flushed[u]

LEMMA WholeStep ==
    ASSUME WholeInv, NEW t \in Threads, OnlyMoves(t), TypeOK', CallerIsWhole(t)',
           file' \in Contents, durable' \in Contents, synced'
    PROVE  WholeInv'
  BY DEF WholeInv, CallerIsWhole, OnlyMoves

LEMMA StepTypes ==
    ASSUME WholeInv, NEW t \in Threads, Load(t) \/ CallSave(t) \/ Save(t) \/ CallFails(t)
    PROVE  TypeOK' /\ OnlyMoves(t)
  <1> USE ProcessAssumption, BoundsAssumption
  <1>1. TypeOK /\ ProcessOf[t] \in Processes
    BY DEF WholeInv
  <1>2. CASE Load(t)
    BY <1>1, <1>2 DEF Load, Go, disk, TypeOK, OnlyMoves, Steps, Updates
  <1>3. CASE CallSave(t)
    BY <1>1, <1>3 DEF CallSave, Go, disk, TypeOK, OnlyMoves, Steps
  <1>4. CASE Lock(t)
    BY <1>1, <1>4 DEF Lock, Go, disk, TypeOK, OnlyMoves, Steps
  <1>5. CASE CheckRevision(t)
    BY <1>1, <1>5 DEF CheckRevision, Go, disk, TypeOK, OnlyMoves, Steps, Files
  <1>6. CASE RejectStale(t)
    BY <1>1, <1>6 DEF RejectStale, Release, disk, TypeOK, OnlyMoves, Steps
  <1>7. CASE WriteTemp(t)
    <2>1. loaded[t] \union {adds[t]} \in Files
      BY <1>7 DEF WholeInv, CallerIsWhole, WriteTemp, Go, Files, Contents
    <2> QED
      BY <1>1, <1>7, <2>1 DEF WriteTemp, Go, disk, TypeOK, OnlyMoves, Steps
  <1>8. CASE SyncTemp(t)
    BY <1>1, <1>8 DEF SyncTemp, Go, disk, TypeOK, OnlyMoves, Steps
  <1>9. CASE Rename(t)
    BY <1>1, <1>9 DEF Rename, Go, TypeOK, OnlyMoves, Steps
  <1>10. CASE SyncDirectory(t)
    <2>1. acked \union {adds[t]} \in Contents
      BY <1>1, <1>10 DEF WholeInv, CallerIsWhole, SyncDirectory, TypeOK, Contents
    <2> QED
      BY <1>1, <1>10, <2>1 DEF SyncDirectory, Release, TypeOK, OnlyMoves, Steps
  <1>11. CASE CallFails(t)
    BY <1>1, <1>11 DEF CallFails, Fault, Release, disk, TypeOK, OnlyMoves, Steps
  <1> QED
    BY <1>2, <1>3, <1>4, <1>5, <1>6, <1>7, <1>8, <1>9, <1>10, <1>11 DEF Save

LEMMA ThreadKeepsWhole ==
    ASSUME WholeInv, NEW t \in Threads, Load(t) \/ CallSave(t) \/ Save(t) \/ CallFails(t)
    PROVE  WholeInv'
  <1>1. TypeOK' /\ OnlyMoves(t)
    BY StepTypes
  <1>2. TypeOK /\ CallerIsWhole(t) /\ file \in Contents /\ durable \in Contents /\ synced
    BY DEF WholeInv
  <1> USE DEF CallerIsWhole, TypeOK
  <1>3. CallerIsWhole(t)'
    <2>1. CASE Load(t)
      BY <1>2, <2>1, BoundsAssumption DEF Load, Go, Updates
    <2>2. CASE CallSave(t) \/ Lock(t) \/ CheckRevision(t) \/ Rename(t)
      BY <1>2, <2>2 DEF CallSave, Lock, CheckRevision, Rename, Go
    <2>3. CASE WriteTemp(t)
      <3>1. loaded[t] \union {adds[t]} \in Contents
        BY <1>2, <2>3 DEF WriteTemp, Go, Contents
      <3> QED
        BY <1>2, <2>3, <3>1 DEF WriteTemp, Go
    <2>4. CASE SyncTemp(t)
      BY <1>2, <2>4 DEF SyncTemp, Go
    <2>5. CASE RejectStale(t) \/ SyncDirectory(t) \/ CallFails(t)
      BY <1>2, <2>5 DEF RejectStale, SyncDirectory, CallFails, Release
    <2> QED
      BY <2>1, <2>2, <2>3, <2>4, <2>5 DEF Save
  <1>4. file' \in Contents /\ durable' \in Contents /\ synced'
    BY <1>2 DEF Load, CallSave, Save, Lock, CheckRevision, RejectStale, WriteTemp, SyncTemp,
                Rename, SyncDirectory, CallFails, Go, Release, disk
  <1> QED
    BY <1>1, <1>3, <1>4, WholeStep

LEMMA FaultKeepsWhole ==
    ASSUME WholeInv, (\E p \in Processes : Kill(p)) \/ Writeback \/ PowerLoss
    PROVE  WholeInv'
  <1> USE BoundsAssumption
  <1>1. /\ TypeOK /\ file \in Contents /\ durable \in Contents /\ synced
        /\ \A t \in Threads : CallerIsWhole(t)
    BY DEF WholeInv
  <1>2. UNCHANGED <<loaded, adds, temp, flushed, updates, acked>>
    BY DEF Kill, Writeback, PowerLoss
  <1>3. pc' \in [Threads -> Steps] /\ \A t \in Threads : pc'[t] \in {pc[t], "idle"}
    BY <1>1 DEF Kill, Writeback, PowerLoss, Reset, TypeOK, Steps
  <1>4. file' \in Contents /\ durable' \in Contents /\ synced'
    BY <1>1 DEF Kill, Writeback, PowerLoss, disk
  <1>5. mutex' \in [Processes -> Threads \union {Free}]
    BY <1>1 DEF Kill, Writeback, PowerLoss, TypeOK
  <1>6. faults' \in 0..MaxFaults
    <2>1. faults \in 0..MaxFaults
      BY <1>1 DEF TypeOK
    <2>2. faults' = faults \/ Fault
      BY DEF Kill, Writeback, PowerLoss
    <2> QED
      BY <2>1, <2>2 DEF Fault
  <1>7. TypeOK'
    BY <1>1, <1>2, <1>3, <1>4, <1>5, <1>6 DEF TypeOK, Files
  <1> QED
    BY <1>1, <1>2, <1>3, <1>4, <1>7 DEF WholeInv, CallerIsWhole

LEMMA NextPreservesWhole == WholeInv /\ [Next]_vars => WholeInv'
  <1> SUFFICES ASSUME WholeInv, [Next]_vars PROVE WholeInv'
    OBVIOUS
  <1>1. CASE UNCHANGED vars
    BY <1>1 DEF vars, WholeInv, TypeOK, CallerIsWhole
  <1> QED
    BY <1>1, ThreadKeepsWhole, FaultKeepsWhole DEF Next

LEMMA AlwaysWhole == Spec => []WholeInv
  BY InitEstablishesWhole, NextPreservesWhole, PTL DEF Spec

\* Callers, mutexes and files keep their types, in any number of processes.
THEOREM TypeCorrect == Spec => []TypeOK
  <1>1. WholeInv => TypeOK
    BY DEF WholeInv
  <1> QED
    BY <1>1, AlwaysWhole, PTL

\* atomicWrite never shows a partially written sidecar, nor leaves one after a
\* power loss: not even to processes that do not share its Store's mutex.
THEOREM ReadersSeeWholeFiles == Spec => []FileIsWhole
  <1>1. WholeInv => FileIsWhole
    BY TornIsNoContent DEF WholeInv, FileIsWhole
  <1> QED
    BY <1>1, AlwaysWhole, PTL

(***************************************************************************)
(* Compare-and-swap, when all callers are threads of one process           *)
(***************************************************************************)

OneProcess == \A t, u \in Threads : ProcessOf[t] = ProcessOf[u]

Saving(t) == pc[t] \in {"locked", "created", "written", "flushed", "renamed"}

\* Whoever is past the revision check builds on the content the file still has.
CallerIsCurrent(t) ==
    /\ Saving(t) => mutex[ProcessOf[t]] = t
    /\ pc[t] # "idle" => adds[t] \in 1..updates /\ adds[t] \notin loaded[t]
    /\ pc[t] \in {"created", "written", "flushed"} => file = loaded[t]
    /\ pc[t] \in {"written", "flushed"} => temp[t] = loaded[t] \union {adds[t]}
    /\ pc[t] = "renamed" => adds[t] \in file

SwapInv ==
    /\ WholeInv
    /\ file \subseteq 1..updates /\ durable \subseteq 1..updates
    /\ \A t \in Threads : CallerIsCurrent(t)
    /\ AckedIsDurable

LEMMA InitEstablishesSwap == Init => SwapInv
  BY InitEstablishesWhole DEF Init, SwapInv, CallerIsCurrent, Saving, AckedIsDurable

\* The other callers are not past the revision check while one holds the mutex.
LEMMA OthersWait ==
    ASSUME OneProcess, SwapInv, NEW t \in Threads, NEW u \in Threads \ {t}, Saving(t)
    PROVE  ~Saving(u)
  <1>1. mutex[ProcessOf[t]] = t /\ (Saving(u) => mutex[ProcessOf[u]] = u)
    BY DEF SwapInv, CallerIsCurrent
  <1> QED
    BY <1>1 DEF OneProcess

LEMMA LoadKeepsSwap ==
    ASSUME SwapInv, WholeInv', NEW t \in Threads, Load(t)
    PROVE  SwapInv'
  <1>1. TypeOK /\ updates \in Nat /\ file \subseteq 1..updates /\ durable \subseteq 1..updates
    BY DEF SwapInv, WholeInv, TypeOK
  <1>2. /\ updates' = updates + 1 /\ UNCHANGED <<disk, mutex, temp, flushed, acked>>
        /\ pc' = [pc EXCEPT ![t] = "loaded"] /\ loaded' = [loaded EXCEPT ![t] = file]
        /\ adds' = [adds EXCEPT ![t] = updates + 1]
    BY DEF Load, Go
  <1>3. file' \subseteq 1..updates' /\ durable' \subseteq 1..updates'
    BY <1>1, <1>2 DEF disk
  <1>4. CallerIsCurrent(t)'
    <2>1. pc'[t] = "loaded" /\ loaded'[t] = file /\ adds'[t] = updates + 1
      BY <1>1, <1>2 DEF TypeOK
    <2>2. updates + 1 \in 1..updates' /\ updates + 1 \notin file
      BY <1>1, <1>2
    <2> QED
      BY <2>1, <2>2 DEF CallerIsCurrent, Saving
  <1>5. \A u \in Threads \ {t} : CallerIsCurrent(u)'
    <2>1. \A u \in Threads \ {t} : pc'[u] = pc[u] /\ loaded'[u] = loaded[u] /\ adds'[u] = adds[u]
      BY <1>1, <1>2 DEF TypeOK
    <2>2. 1..updates \subseteq 1..updates'
      BY <1>1, <1>2
    <2> QED
      BY <1>2, <2>1, <2>2 DEF SwapInv, CallerIsCurrent, Saving, disk
  <1>6. AckedIsDurable'
    BY <1>2 DEF SwapInv, AckedIsDurable, disk
  <1> QED
    BY <1>3, <1>4, <1>5, <1>6 DEF SwapInv

\* Steps that leave the file, what others read of it and the numbering alone.
LEMMA LocalKeepsSwap ==
    ASSUME SwapInv, WholeInv', NEW t \in Threads, UNCHANGED <<disk, updates, acked>>,
           OnlyMoves(t), \A u \in Threads \ {t} : Saving(u)' => mutex'[ProcessOf[u]] = u,
           CallerIsCurrent(t)'
    PROVE  SwapInv'
  <1>1. AckedIsDurable' /\ file' \subseteq 1..updates' /\ durable' \subseteq 1..updates'
    BY DEF SwapInv, AckedIsDurable, disk
  <1>2. \A u \in Threads \ {t} : CallerIsCurrent(u)'
    BY DEF SwapInv, CallerIsCurrent, Saving, OnlyMoves, disk
  <1> QED
    BY <1>1, <1>2 DEF SwapInv

LEMMA RenameKeepsSwap ==
    ASSUME OneProcess, SwapInv, WholeInv', NEW t \in Threads, Rename(t)
    PROVE  SwapInv' /\ \E u \in Updates \ file : file' = file \union {u}
  <1>1. TypeOK /\ CallerIsCurrent(t) /\ pc[t] = "flushed" /\ CallerIsWhole(t)
    BY DEF SwapInv, WholeInv, Rename, Go
  <1>2. /\ file = loaded[t] /\ file' = file \union {adds[t]}
        /\ adds[t] \notin file /\ adds[t] \in 1..updates /\ adds[t] \in Updates
    BY <1>1 DEF CallerIsCurrent, Rename, CallerIsWhole
  <1>3. UNCHANGED <<durable, mutex, loaded, adds, temp, flushed, updates, acked>>
    BY DEF Rename
  <1>4. pc'[t] = "renamed" /\ \A u \in Threads \ {t} : pc'[u] = pc[u]
    BY <1>1 DEF Rename, Go, TypeOK
  <1>5. CallerIsCurrent(t)'
    BY <1>1, <1>2, <1>3, <1>4 DEF CallerIsCurrent, Saving
  <1>6. \A u \in Threads \ {t} : CallerIsCurrent(u)'
    <2>1. \A u \in Threads \ {t} : ~Saving(u)
      BY <1>1, OthersWait DEF Saving
    <2> QED
      BY <1>3, <1>4, <2>1 DEF SwapInv, CallerIsCurrent, Saving
  <1>7. file' \subseteq 1..updates' /\ durable' \subseteq 1..updates' /\ AckedIsDurable'
    BY <1>2, <1>3 DEF SwapInv, AckedIsDurable
  <1> QED
    BY <1>2, <1>5, <1>6, <1>7 DEF SwapInv

LEMMA SyncKeepsSwap ==
    ASSUME OneProcess, SwapInv, WholeInv', NEW t \in Threads, SyncDirectory(t)
    PROVE  SwapInv'
  <1>1. TypeOK /\ CallerIsCurrent(t) /\ pc[t] = "renamed"
    BY DEF SwapInv, WholeInv, SyncDirectory
  <1>2. /\ UNCHANGED <<file, loaded, adds, temp, updates>> /\ durable' = file
        /\ acked' = acked \union {adds[t]} /\ adds[t] \in file
    BY <1>1 DEF SyncDirectory, CallerIsCurrent
  <1>3. pc'[t] = "idle" /\ \A u \in Threads \ {t} : pc'[u] = pc[u]
    BY <1>1 DEF SyncDirectory, Release, TypeOK
  <1>4. \A u \in Threads \ {t} : CallerIsCurrent(u)'
    <2>1. \A u \in Threads \ {t} : ~Saving(u)
      BY <1>1, OthersWait DEF Saving
    <2> QED
      BY <1>2, <1>3, <2>1 DEF SwapInv, CallerIsCurrent, Saving
  <1>5. CallerIsCurrent(t)'
    BY <1>3 DEF CallerIsCurrent, Saving
  <1>6. file' \subseteq 1..updates' /\ durable' \subseteq 1..updates' /\ AckedIsDurable'
    BY <1>2 DEF SwapInv, AckedIsDurable
  <1> QED
    BY <1>4, <1>5, <1>6 DEF SwapInv

LEMMA CallKeepsSwap ==
    ASSUME OneProcess, SwapInv, WholeInv', NEW t \in Threads,
           \/ CallSave(t) \/ Lock(t) \/ CheckRevision(t) \/ RejectStale(t)
           \/ WriteTemp(t) \/ SyncTemp(t) \/ CallFails(t)
    PROVE  SwapInv'
  <1>1. TypeOK /\ CallerIsCurrent(t) /\ WholeInv /\ ProcessOf[t] \in Processes
    BY ProcessAssumption DEF SwapInv, WholeInv
  <1>2. UNCHANGED <<disk, updates, acked, loaded, adds>>
    BY DEF CallSave, Lock, CheckRevision, RejectStale, WriteTemp, SyncTemp, CallFails
  <1>3. OnlyMoves(t) /\ \A u \in Threads \ {t} : pc'[u] = pc[u]
    <2>1. OnlyMoves(t)
      BY <1>1, StepTypes DEF Save
    <2> QED
      BY <1>1, <2>1 DEF CallSave, Lock, CheckRevision, RejectStale, WriteTemp, SyncTemp, CallFails,
                        Go, Release, TypeOK
  <1>4. ASSUME NEW u \in Threads \ {t}, Saving(u)'
        PROVE  mutex'[ProcessOf[u]] = u
    <2>1. Saving(u) /\ mutex[ProcessOf[u]] = u
      BY <1>3, <1>4 DEF SwapInv, CallerIsCurrent, Saving
    <2>2. ~Saving(t)
      BY <2>1, OthersWait
    <2>3. mutex[ProcessOf[t]] # Free
      BY <2>1, ProcessAssumption DEF OneProcess
    <2>4. mutex' = mutex
      BY <2>2, <2>3 DEF CallSave, Lock, CheckRevision, RejectStale, WriteTemp, SyncTemp, CallFails,
                        Go, Saving
    <2> QED
      BY <2>1, <2>4
  <1>5. CallerIsCurrent(t)'
    <2>1. CASE CallSave(t)
      BY <1>1, <1>2, <2>1 DEF CallSave, Go, TypeOK, CallerIsCurrent, Saving
    <2>2. CASE Lock(t)
      BY <1>1, <1>2, <2>2 DEF Lock, Go, TypeOK, CallerIsCurrent, Saving
    <2>3. CASE CheckRevision(t)
      BY <1>1, <1>2, <2>3 DEF CheckRevision, Go, TypeOK, CallerIsCurrent, Saving, disk
    <2>4. CASE WriteTemp(t)
      BY <1>1, <1>2, <2>4 DEF WriteTemp, Go, TypeOK, CallerIsCurrent, Saving, disk
    <2>5. CASE SyncTemp(t)
      BY <1>1, <1>2, <2>5 DEF SyncTemp, Go, TypeOK, CallerIsCurrent, Saving, disk
    <2>6. CASE RejectStale(t) \/ CallFails(t)
      BY <1>1, <1>2, <2>6 DEF RejectStale, CallFails, Release, TypeOK, CallerIsCurrent, Saving
    <2> QED
      BY <2>1, <2>2, <2>3, <2>4, <2>5, <2>6
  <1> QED
    BY <1>2, <1>3, <1>4, <1>5, LocalKeepsSwap

LEMMA FaultKeepsSwap ==
    ASSUME SwapInv, WholeInv', (\E p \in Processes : Kill(p)) \/ Writeback \/ PowerLoss
    PROVE  SwapInv' /\ file' \in {file, durable}
  <1>1. TypeOK /\ synced /\ \A t \in Threads : CallerIsCurrent(t)
    BY DEF SwapInv, WholeInv
  <1>2. UNCHANGED <<loaded, adds, temp, updates, acked>>
    BY DEF Kill, Writeback, PowerLoss
  <1>3. CASE \E p \in Processes : Kill(p)
    <2>1. PICK p \in Processes : Kill(p)
      BY <1>3
    <2>2. \A t \in Threads : CallerIsCurrent(t)'
      BY <1>1, <1>2, <2>1 DEF Kill, Reset, TypeOK, CallerIsCurrent, Saving, disk
    <2> QED
      BY <1>2, <2>1, <2>2 DEF Kill, SwapInv, AckedIsDurable, disk
  <1>4. CASE Writeback
    BY <1>1, <1>2, <1>4 DEF Writeback, SwapInv, CallerIsCurrent, Saving, AckedIsDurable
  <1>5. CASE PowerLoss
    <2>1. \A t \in Threads : pc'[t] = "idle"
      BY <1>5 DEF PowerLoss, Reset
    <2>2. file' \in {file, durable} /\ durable' = file'
      BY <1>1, <1>5 DEF PowerLoss
    <2> QED
      BY <1>2, <2>1, <2>2 DEF SwapInv, CallerIsCurrent, Saving, AckedIsDurable
  <1> QED
    BY <1>3, <1>4, <1>5

LEMMA NextPreservesSwap == OneProcess /\ SwapInv /\ [Next]_vars => SwapInv'
  <1> SUFFICES ASSUME OneProcess, SwapInv, [Next]_vars PROVE SwapInv'
    OBVIOUS
  <1>1. WholeInv'
    BY NextPreservesWhole DEF SwapInv
  <1>2. CASE UNCHANGED vars
    BY <1>1, <1>2 DEF vars, SwapInv, CallerIsCurrent, Saving, AckedIsDurable
  <1>3. ASSUME NEW t \in Threads, Load(t) \/ CallSave(t) \/ Save(t) \/ CallFails(t)
        PROVE  SwapInv'
    BY <1>1, <1>3, LoadKeepsSwap, CallKeepsSwap, RenameKeepsSwap, SyncKeepsSwap DEF Save
  <1> QED
    BY <1>1, <1>2, <1>3, FaultKeepsSwap DEF Next

LEMMA AlwaysSwap ==
    ASSUME OneProcess
    PROVE  Spec => []SwapInv
  <1>1. SwapInv /\ [Next]_vars => SwapInv'
    BY NextPreservesSwap
  <1> QED
    BY <1>1, InitEstablishesSwap, PTL DEF Spec

\* Within one process, an update whose Save returned without an error is in the
\* file for good, and survives a power loss.
THEOREM AckedStays ==
    ASSUME OneProcess
    PROVE  Spec => []AckedIsDurable
  <1>1. SwapInv => AckedIsDurable
    BY DEF SwapInv
  <1>2. Spec => []SwapInv
    BY AlwaysSwap
  <1> QED
    BY <1>1, <1>2, PTL

LEMMA StepAdds ==
    ASSUME OneProcess, SwapInv, [Next]_vars
    PROVE  [ \/ file' \in {durable, Torn}
             \/ \E u \in Updates \ file : file' = file \union {u} ]_file
  <1> SUFFICES ASSUME Next, file' # file
               PROVE  \/ file' \in {durable, Torn}
                      \/ \E u \in Updates \ file : file' = file \union {u}
    BY DEF vars
  <1>1. WholeInv'
    BY NextPreservesWhole DEF SwapInv
  <1>2. \/ \E t \in Threads : Rename(t)
        \/ (\E p \in Processes : Kill(p)) \/ Writeback \/ PowerLoss
    BY DEF Next, Save, Load, CallSave, Lock, CheckRevision, RejectStale, WriteTemp, SyncTemp,
           SyncDirectory, CallFails, disk
  <1> QED
    BY <1>1, <1>2, RenameKeepsSwap, FaultKeepsSwap

\* Within one process, Save is a compare-and-swap: the file only changes by one
\* update added to the content it has at that moment, or by a power loss that
\* undoes the last rename.
THEOREM SaveSwaps ==
    ASSUME OneProcess
    PROVE  Spec => AddsToCurrent
  <1>1. SwapInv /\ [Next]_vars =>
           [ \/ file' \in {durable, Torn}
             \/ \E u \in Updates \ file : file' = file \union {u} ]_file
    BY StepAdds
  <1>2. Spec => []SwapInv
    BY AlwaysSwap
  <1> QED
    BY <1>1, <1>2, PTL DEF Spec, AddsToCurrent

(***************************************************************************)
(* The atomic store, when all callers are threads of one process           *)
(***************************************************************************)

LEMMA StartsAsPromised == Init => AS!Init
  BY DEF Init, AS!Init, AS!NonePending, Unconfirmed

\* Another caller's save is neither begun nor ended by a step of t.
LEMMA OthersUnconfirmed ==
    ASSUME NEW t \in Threads, \A u \in Threads \ {t} : pc'[u] = pc[u] /\ adds'[u] = adds[u],
           NEW S, (IF pc'[t] = "renamed" THEN {adds'[t]} ELSE {}) = S
    PROVE  Unconfirmed' = [Unconfirmed EXCEPT ![t] = S]
  BY DEF Unconfirmed

LEMMA UnconfirmedStays ==
    ASSUME NEW t \in Threads, \A u \in Threads \ {t} : pc'[u] = pc[u] /\ adds'[u] = adds[u],
           pc[t] # "renamed", pc'[t] # "renamed"
    PROVE  Unconfirmed' = Unconfirmed
  BY DEF Unconfirmed

\* Of the calls of Load and Save only three are seen: the read of the file, its
\* replacement and the return.
LEMMA CallsArePromised ==
    ASSUME OneProcess, SwapInv, NEW t \in Threads, Load(t) \/ CallSave(t) \/ Save(t)
    PROVE  [AS!Next]_AS!store
  <1>1. TypeOK /\ CallerIsCurrent(t) /\ CallerIsWhole(t)
    BY DEF SwapInv, WholeInv
  <1>2. OnlyMoves(t) /\ \A u \in Threads \ {t} : pc'[u] = pc[u]
    <2>1. OnlyMoves(t)
      BY StepTypes DEF SwapInv
    <2> QED
      BY <1>1, <2>1 DEF Load, CallSave, Save, Lock, CheckRevision, RejectStale, WriteTemp, SyncTemp,
                        Rename, SyncDirectory, Go, Release, TypeOK
  <1>3. \A u \in Threads \ {t} : pc'[u] = pc[u] /\ adds'[u] = adds[u]
    BY <1>2 DEF OnlyMoves
  <1>4. CASE Load(t)
    <2>1. pc[t] # "renamed" /\ pc'[t] # "renamed"
      BY <1>1, <1>4 DEF Load, Go, TypeOK
    <2>2. AS!Read(t)
      BY <1>3, <1>4, <2>1, UnconfirmedStays DEF Load, disk, AS!Read
    <2> QED
      BY <2>2 DEF AS!Next
  <1>5. CASE CallSave(t) \/ Lock(t) \/ CheckRevision(t) \/ RejectStale(t) \/ WriteTemp(t) \/ SyncTemp(t)
    <2>1. pc[t] # "renamed" /\ pc'[t] # "renamed"
      BY <1>1, <1>5 DEF CallSave, Lock, CheckRevision, RejectStale, WriteTemp, SyncTemp, Go, Release, TypeOK
    <2>2. Unconfirmed' = Unconfirmed
      BY <1>3, <2>1, UnconfirmedStays
    <2> QED
      BY <1>5, <2>2 DEF CallSave, Lock, CheckRevision, RejectStale, WriteTemp, SyncTemp, disk, AS!store
  <1>6. CASE Rename(t)
    <2>1. /\ file = loaded[t] /\ file' = file \union {adds[t]}
          /\ adds[t] \notin file /\ adds[t] \in Updates
      BY <1>1, <1>6 DEF CallerIsCurrent, CallerIsWhole, Rename, Go
    <2>2. pc'[t] = "renamed" /\ adds'[t] = adds[t]
      BY <1>1, <1>6 DEF Rename, Go, TypeOK
    <2>3. Unconfirmed' = [Unconfirmed EXCEPT ![t] = {adds[t]}]
      BY <1>3, <2>2, OthersUnconfirmed
    <2>4. AS!Swap(t)
      BY <1>6, <2>1, <2>3 DEF Rename, AS!Swap
    <2> QED
      BY <2>4 DEF AS!Next
  <1>7. CASE SyncDirectory(t)
    <2>1. pc[t] = "renamed" /\ pc'[t] = "idle"
      BY <1>1, <1>7 DEF SyncDirectory, Release, TypeOK
    <2>2. Unconfirmed[t] = {adds[t]}
      BY <2>1 DEF Unconfirmed
    <2>3. Unconfirmed' = [Unconfirmed EXCEPT ![t] = {}]
      BY <1>3, <2>1, OthersUnconfirmed
    <2>4. AS!Confirm(t)
      BY <1>7, <2>2, <2>3 DEF SyncDirectory, AS!Confirm
    <2> QED
      BY <2>4 DEF AS!Next
  <1> QED
    BY <1>4, <1>5, <1>6, <1>7 DEF Save

\* Whoever is sent back to the start without an answer fails.
LEMMA ThoseSentBackFail ==
    ASSUME NEW S \in SUBSET Threads, UNCHANGED <<disk, loaded, adds, acked>>,
           \A t \in Threads : pc'[t] = IF t \in S THEN "idle" ELSE pc[t]
    PROVE  AS!Next
  <1>1. AS!Fail(S)
    BY DEF disk, Unconfirmed, AS!Fail
  <1> QED
    BY <1>1 DEF AS!Next

LEMMA FaultsArePromised ==
    ASSUME SwapInv,
           \/ \E t \in Threads : CallFails(t)
           \/ \E p \in Processes : Kill(p)
           \/ Writeback \/ PowerLoss
    PROVE  [AS!Next]_AS!store
  <1>1. TypeOK /\ synced
    BY DEF SwapInv, WholeInv
  <1>2. CASE \E t \in Threads : CallFails(t)
    <2>1. PICK t \in Threads : CallFails(t)
      BY <1>2
    <2>2. \A u \in Threads : pc'[u] = IF u \in {t} THEN "idle" ELSE pc[u]
      BY <1>1, <2>1 DEF CallFails, Release, TypeOK
    <2> QED
      BY <2>1, <2>2, ThoseSentBackFail DEF CallFails
  <1>3. CASE \E p \in Processes : Kill(p)
    <2>1. PICK p \in Processes : Kill(p)
      BY <1>3
    <2> QED
      BY <2>1, ThoseSentBackFail DEF Kill, Reset
  <1>4. CASE Writeback
    <2>1. AS!Settle
      BY <1>4 DEF Writeback, Unconfirmed, AS!Settle
    <2> QED
      BY <2>1 DEF AS!Next
  <1>5. CASE PowerLoss
    <2>1. Unconfirmed' = AS!NonePending
      BY <1>5 DEF PowerLoss, Reset, Unconfirmed, AS!NonePending
    <2>2. AS!Crash
      BY <1>1, <1>5, <2>1 DEF PowerLoss, AS!Crash
    <2> QED
      BY <2>2 DEF AS!Next
  <1> QED
    BY <1>2, <1>3, <1>4, <1>5

LEMMA StepIsPromised ==
    ASSUME OneProcess, SwapInv, [Next]_vars
    PROVE  [AS!Next]_AS!store
  <1>1. CASE UNCHANGED vars
    BY <1>1 DEF vars, Unconfirmed, AS!store
  <1>2. ASSUME NEW t \in Threads, Load(t) \/ CallSave(t) \/ Save(t)
        PROVE  [AS!Next]_AS!store
    BY <1>2, CallsArePromised
  <1> QED
    BY <1>1, <1>2, FaultsArePromised DEF Next

\* Within one process, whatever calls overlap, fail or are cut off, Load and Save
\* are the register with compare-and-swap: the check of the revision and the
\* rename that it guards act as one step, and a save is confirmed to its own
\* caller alone, once a crash can no longer undo it.
THEOREM SaveIsAtomic ==
    ASSUME OneProcess
    PROVE  Spec => ImplementsAtomicStore
  <1>1. SwapInv /\ [Next]_vars => [AS!Next]_AS!store
    BY StepIsPromised
  <1>2. Spec => []SwapInv
    BY AlwaysSwap
  <1> QED
    BY <1>1, <1>2, StartsAsPromised, PTL DEF Spec, ImplementsAtomicStore, AS!Spec
=============================================================================
