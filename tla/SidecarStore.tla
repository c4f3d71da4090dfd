---------------------------- MODULE SidecarStore ----------------------------
(***************************************************************************)
(* internal/annotation/store on one sidecar, at the grain of its system    *)
(* calls: Save holds its Store's mutex over the revision check and the     *)
(* atomicWrite (temporary file, fsync, rename, directory fsync).           *)
(*                                                                         *)
(* A Store, and so its mutex, belongs to a process.  The review server is  *)
(* one process with a thread per request; every offline command            *)
(* (annotations reply, annotations resolve) is a process of its own on the *)
(* same files.  Any process can be killed, the machine can lose power, and *)
(* any system call on the way can fail.                                    *)
(*                                                                         *)
(* A content is the set of updates it includes; each update is the work of *)
(* one caller, who loads the sidecar, adds to it and saves it against the  *)
(* revision of what it loaded.                                             *)
(***************************************************************************)
EXTENDS Naturals, FiniteSets

CONSTANTS
    Processes,      \* the processes that hold a Store of this directory
    Threads,        \* the callers
    ProcessOf,      \* ProcessOf[t]: the process that caller t runs in
    Free,           \* a mutex nobody holds
    MaxUpdates,     \* bound: updates attempted
    MaxFaults       \* bound: failed calls, kills and power losses

ASSUME ProcessAssumption == ProcessOf \in [Threads -> Processes] /\ Free \notin Threads
ASSUME BoundsAssumption == MaxUpdates \in Nat /\ MaxFaults \in Nat

VARIABLES
    file,       \* what the sidecar's path holds
    synced,     \* whether the bytes at that path are on the disk
    durable,    \* what the path would hold if the last rename were lost
    mutex,      \* mutex[p]: the holder of the mutex of process p's Store
    pc,         \* pc[t]: how far caller t is
    loaded,     \* loaded[t]: the content caller t builds on
    adds,       \* adds[t]: the update caller t adds to it
    temp,       \* temp[t]: the temporary file of caller t
    flushed,    \* flushed[t]: whether its bytes are on the disk
    updates,    \* how many updates have been attempted
    acked,      \* ghost: the updates whose Save returned without an error
    faults      \* how many faults there were

vars == <<file, synced, durable, mutex, pc, loaded, adds, temp, flushed, updates, acked, faults>>
disk == <<file, synced, durable>>

Updates == 1..MaxUpdates
Torn == {0}     \* a file with only part of its bytes; updates are numbered from 1
Steps == {"idle", "loaded", "waiting", "locked", "created", "written", "flushed", "renamed"}

Init ==
    /\ file = {} /\ synced = TRUE /\ durable = {}
    /\ mutex = [p \in Processes |-> Free]
    /\ pc = [t \in Threads |-> "idle"]
    /\ loaded = [t \in Threads |-> {}]
    /\ adds = [t \in Threads |-> 0]
    /\ temp = [t \in Threads |-> {}]
    /\ flushed = [t \in Threads |-> FALSE]
    /\ updates = 0
    /\ acked = {}
    /\ faults = 0

Go(t, from, to) == pc[t] = from /\ pc' = [pc EXCEPT ![t] = to]

\* Load: under the mutex, so never while a Save of the same process runs.
Load(t) ==
    /\ Go(t, "idle", "loaded")
    /\ mutex[ProcessOf[t]] = Free
    /\ updates < MaxUpdates
    /\ updates' = updates + 1
    /\ loaded' = [loaded EXCEPT ![t] = file]
    /\ adds' = [adds EXCEPT ![t] = updates + 1]
    /\ UNCHANGED <<disk, mutex, temp, flushed, acked, faults>>

\* The caller calls Save.
CallSave(t) ==
    /\ Go(t, "loaded", "waiting")
    /\ UNCHANGED <<disk, mutex, loaded, adds, temp, flushed, updates, acked, faults>>

\* Save returns, releasing the mutex.
Release(t) ==
    /\ mutex' = [mutex EXCEPT ![ProcessOf[t]] = Free]
    /\ pc' = [pc EXCEPT ![t] = "idle"]

Lock(t) ==
    /\ Go(t, "waiting", "locked")
    /\ mutex[ProcessOf[t]] = Free
    /\ mutex' = [mutex EXCEPT ![ProcessOf[t]] = t]
    /\ UNCHANGED <<disk, loaded, adds, temp, flushed, updates, acked, faults>>

\* Mutant of CheckRevision: the revision is not compared.
OverwriteRevision(t) ==
    /\ Go(t, "locked", "created")
    /\ temp' = [temp EXCEPT ![t] = Torn]
    /\ flushed' = [flushed EXCEPT ![t] = FALSE]
    /\ UNCHANGED <<disk, mutex, loaded, adds, updates, acked, faults>>

\* The revision of the bytes at the path is still the caller's.
CheckRevision(t) ==
    /\ Go(t, "locked", "created")
    /\ file = loaded[t]
    /\ temp' = [temp EXCEPT ![t] = Torn]
    /\ flushed' = [flushed EXCEPT ![t] = FALSE]
    /\ UNCHANGED <<disk, mutex, loaded, adds, updates, acked, faults>>

\* Mutant of RejectStale: it returns without releasing the mutex.
RejectHolding(t) ==
    /\ Go(t, "locked", "idle")
    /\ file # loaded[t]
    /\ UNCHANGED <<disk, mutex, loaded, adds, temp, flushed, updates, acked, faults>>

RejectStale(t) ==
    /\ pc[t] = "locked"
    /\ file # loaded[t]
    /\ Release(t)
    /\ UNCHANGED <<disk, loaded, adds, temp, flushed, updates, acked, faults>>

\* Mutants of WriteTemp: the content is appended to what is there; the bytes are
\* never flushed.
AppendTemp(t) ==
    /\ Go(t, "created", "written")
    /\ temp' = [temp EXCEPT ![t] = @ \union loaded[t] \union {adds[t]}]
    /\ UNCHANGED <<disk, mutex, loaded, adds, flushed, updates, acked, faults>>

WriteUnsynced(t) ==
    /\ Go(t, "created", "flushed")
    /\ temp' = [temp EXCEPT ![t] = loaded[t] \union {adds[t]}]
    /\ UNCHANGED <<disk, mutex, loaded, adds, flushed, updates, acked, faults>>

WriteTemp(t) ==
    /\ Go(t, "created", "written")
    /\ temp' = [temp EXCEPT ![t] = loaded[t] \union {adds[t]}]
    /\ UNCHANGED <<disk, mutex, loaded, adds, flushed, updates, acked, faults>>

SyncTemp(t) ==
    /\ Go(t, "written", "flushed")
    /\ flushed' = [flushed EXCEPT ![t] = TRUE]
    /\ UNCHANGED <<disk, mutex, loaded, adds, temp, updates, acked, faults>>

\* The rename makes the new file visible; a power loss may still undo it, and
\* would tear a file whose bytes were never flushed.
Rename(t) ==
    /\ Go(t, "flushed", "renamed")
    /\ file' = temp[t]
    /\ synced' = flushed[t]
    /\ UNCHANGED <<durable, mutex, loaded, adds, temp, flushed, updates, acked, faults>>

\* Mutant of SyncDirectory: Save returns right after the rename.
SkipDirectory(t) ==
    /\ pc[t] = "renamed"
    /\ acked' = acked \union {adds[t]}
    /\ Release(t)
    /\ UNCHANGED <<disk, loaded, adds, temp, flushed, updates, faults>>

SyncDirectory(t) ==
    /\ pc[t] = "renamed"
    /\ durable' = file
    /\ acked' = acked \union {adds[t]}
    /\ Release(t)
    /\ UNCHANGED <<file, synced, loaded, adds, temp, flushed, updates, faults>>

-----------------------------------------------------------------------------

Fault == faults < MaxFaults /\ faults' = faults + 1

\* A call fails: Save removes the temporary file and returns the error.  Once the
\* rename is done, the new content stays in place.
CallFails(t) ==
    /\ Fault
    /\ pc[t] \in {"locked", "created", "written", "flushed", "renamed"}
    /\ Release(t)
    /\ UNCHANGED <<disk, loaded, adds, temp, flushed, updates, acked>>

Reset(threads) == pc' = [t \in Threads |-> IF t \in threads THEN "idle" ELSE pc[t]]

Kill(p) ==
    /\ Fault
    /\ \E t \in Threads : ProcessOf[t] = p /\ pc[t] # "idle"
    /\ Reset({t \in Threads : ProcessOf[t] = p})
    /\ mutex' = [mutex EXCEPT ![p] = Free]
    /\ UNCHANGED <<disk, loaded, adds, temp, flushed, updates, acked>>

\* The operating system writes its caches back when it likes.
Writeback ==
    /\ durable # file \/ ~synced
    /\ durable' = file
    /\ synced' = TRUE
    /\ UNCHANGED <<file, mutex, pc, loaded, adds, temp, flushed, updates, acked, faults>>

PowerLoss ==
    /\ Fault
    /\ Reset(Threads)
    /\ mutex' = [p \in Processes |-> Free]
    /\ \/ file' = IF synced THEN file ELSE Torn
       \/ file' = durable
    /\ durable' = file'
    /\ synced' = TRUE
    /\ UNCHANGED <<loaded, adds, temp, flushed, updates, acked>>

Save(t) ==
    \/ Lock(t) \/ CheckRevision(t) \/ RejectStale(t)
    \/ WriteTemp(t) \/ SyncTemp(t) \/ Rename(t) \/ SyncDirectory(t)

Next ==
    \/ \E t \in Threads : Load(t) \/ CallSave(t) \/ Save(t) \/ CallFails(t)
    \/ \E p \in Processes : Kill(p)
    \/ Writeback
    \/ PowerLoss

\* A thread whose next system call can be made makes it; the mutex of package
\* sync does not let a waiting goroutine starve.
Fairness ==
    \A t \in Threads :
       /\ SF_vars(Lock(t))
       /\ WF_vars(CheckRevision(t) \/ RejectStale(t) \/ WriteTemp(t)
                  \/ SyncTemp(t) \/ Rename(t) \/ SyncDirectory(t))

Spec == Init /\ [][Next]_vars /\ Fairness

-----------------------------------------------------------------------------
(***************************************************************************)
(* Properties                                                              *)
(***************************************************************************)

Contents == SUBSET Updates
Files == Contents \union {Torn}

\* Every variable has its type.
TypeOK ==
    /\ file \in Files /\ synced \in BOOLEAN /\ durable \in Files
    /\ mutex \in [Processes -> Threads \union {Free}]
    /\ pc \in [Threads -> Steps]
    /\ loaded \in [Threads -> Files]
    /\ adds \in [Threads -> Updates \union {0}]
    /\ temp \in [Threads -> Files]
    /\ flushed \in [Threads -> BOOLEAN]
    /\ updates \in 0..MaxUpdates
    /\ acked \in Contents
    /\ faults \in 0..MaxFaults

\* Readers never observe a partially written document: whatever is killed, fails
\* or loses power at whatever moment, the path holds a complete sidecar, and so
\* would the disk (atomicWrite).
FileIsWhole == file # Torn /\ durable # Torn

\* A save that returned without an error is there to stay: its update is in the
\* file, and still is after a power loss.
AckedIsDurable == acked \subseteq file /\ acked \subseteq durable

\* No update that Save confirmed is ever gone from the file: "a concurrent
\* sidecar edit is rejected rather than overwritten" (docs/designs/annotations.md).
ConfirmedStays == acked \subseteq file

\* Compare-and-swap: as long as no power is lost, the file only ever changes by
\* one update added to the content it has at that moment.
AddsToCurrent ==
    [][ \/ file' \in {durable, Torn}
        \/ \E u \in Updates \ file : file' = file \union {u} ]_file

\* What a caller has renamed into place and not returned from yet.
Unconfirmed == [t \in Threads |-> IF pc[t] = "renamed" THEN {adds[t]} ELSE {}]

AS == INSTANCE AtomicStore WITH
    Callers <- Threads, content <- file, known <- loaded, pending <- Unconfirmed, confirmed <- acked

\* The system calls of Load and Save add up to the register with compare-and-swap
\* that callers rely on (module AtomicStore): each save takes effect at its
\* rename, on exactly the content its caller loaded, and its caller is told so
\* only once the disk has it.
ImplementsAtomicStore == AS!Spec

\* Whoever called Save gets an answer, even if others keep calling it and calls
\* fail or processes die while they hold the mutex.
SaveReturns == \A t \in Threads : pc[t] = "waiting" ~> pc[t] = "idle"
=============================================================================
