----------------------------- MODULE FileLease -----------------------------
(* One FileLease (src/llm_harness/coordination.py): an operating-system     *)
(* file lock shared by processes, guarded inside each process by a          *)
(* reentrant thread lock, with an owner record in a metadata file beside    *)
(* the lock.  The state lease, the repository execution lease and the named *)
(* operation leases are all instances of it.  A process may crash between   *)
(* any two steps; every metadata write may fail before or after the rename. *)

EXTENDS Naturals

CONSTANTS Procs,      \* processes that open the lock file
          Threads,    \* all their threads
          ProcOf,     \* the process a thread belongs to
          MaxDepth,   \* bound on nested hold() calls of one thread
          None        \* no thread

ASSUME ProcOfAssumption == ProcOf \in [Threads -> Procs]
ASSUME MaxDepthAssumption == MaxDepth \in Nat \ {0}
ASSUME NoneAssumption == None \notin Threads

VARIABLES
  kernel,   \* the thread whose open handle has the OS lock, or None
  rlock,    \* _thread_lock of each process: its owner and recursion count
  handle,   \* _handle/_owner_payload of each process: who stored them
  depth,    \* _local.depth of each thread
  meta,     \* the .owner.json file
  pc,       \* where a thread is inside FileLease; "out": in caller's code
  seen,     \* the status in the metadata a thread has read, until it returns
  abrupt    \* history: the record on disk lost its chance of a marker

vars == <<kernel, rlock, handle, depth, meta, pc, seen, abrupt>>

PCs == {"out", "threadWait", "polling", "locked", "read", "marked",
        "unlocked", "probe", "probed"}

Statuses == {"absent", "active", "released"}

Meta == [status : Statuses,
         by : Threads \cup {None},
         recovered : BOOLEAN]

NoMeta == [status |-> "absent", by |-> None, recovered |-> FALSE]
Free == [owner |-> None, count |-> 0]

Init == /\ kernel = None
        /\ rlock = [p \in Procs |-> Free]
        /\ handle = [p \in Procs |-> None]
        /\ depth = [t \in Threads |-> 0]
        /\ meta = NoMeta
        /\ pc = [t \in Threads |-> "out"]
        /\ seen = [t \in Threads |-> "absent"]
        /\ abrupt = FALSE

Goto(t, where) == pc' = [pc EXCEPT ![t] = where]

Forget(t) == seen' = [seen EXCEPT ![t] = "absent"]

(* threading.RLock.release by its owner.                                    *)
ReleaseRLock(p) ==
  rlock' = [rlock EXCEPT ![p] =
              IF @.count = 1 THEN Free
              ELSE [owner |-> @.owner, count |-> @.count - 1]]

-----------------------------------------------------------------------------
(* acquire                                                                  *)

BeginAcquire(t) ==
  /\ pc[t] = "out"
  /\ depth[t] < MaxDepth
  /\ Goto(t, "threadWait")
  /\ UNCHANGED <<kernel, rlock, handle, depth, meta, seen, abrupt>>

(* The RLock is taken: a nested call only counts, the first goes on to the  *)
(* file lock.                                                               *)
TakeThreadLock(t) ==
  LET p == ProcOf[t] IN
  /\ pc[t] = "threadWait"
  /\ rlock[p].owner \in {None, t}
  /\ rlock' = [rlock EXCEPT ![p] = [owner |-> t, count |-> @.count + 1]]
  /\ IF depth[t] > 0
       THEN /\ depth' = [depth EXCEPT ![t] = @ + 1]
            /\ Goto(t, "out")
       ELSE /\ Goto(t, "polling")
            /\ UNCHANGED depth
  /\ UNCHANGED <<kernel, handle, meta, seen, abrupt>>

(* LockContendedError before the file was ever opened.                      *)
ThreadLockTimeout(t) ==
  /\ pc[t] = "threadWait"
  /\ rlock[ProcOf[t]].owner \notin {None, t}
  /\ Goto(t, "out")
  /\ UNCHANGED <<kernel, rlock, handle, depth, meta, seen, abrupt>>

(* Slip: a shared instead of an exclusive file lock.                        *)
SharedTryLock(t) ==
  /\ pc[t] = "polling"
  /\ kernel' = t
  /\ Goto(t, "locked")
  /\ UNCHANGED <<rlock, handle, depth, meta, seen, abrupt>>

(* One successful _try_lock of the polling loop.                            *)
TryLock(t) ==
  /\ pc[t] = "polling"
  /\ kernel = None
  /\ kernel' = t
  /\ Goto(t, "locked")
  /\ UNCHANGED <<rlock, handle, depth, meta, seen, abrupt>>

(* Slip: the poll loop never looks at its deadline.                         *)
PollForever(t) == pc[t] = "polling" /\ kernel # None /\ UNCHANGED vars

(* A failed poll past the deadline: close the handle, release the RLock and *)
(* raise LockContendedError.  A failed poll before it changes nothing.      *)
PollDeadline(t) ==
  /\ pc[t] = "polling"
  /\ kernel # None
  /\ ReleaseRLock(ProcOf[t])
  /\ Goto(t, "out")
  /\ UNCHANGED <<kernel, handle, depth, meta, seen, abrupt>>

(* The lock is ours; what did the previous owner leave?                     *)
ReadPrevious(t) ==
  /\ pc[t] = "locked"
  /\ seen' = [seen EXCEPT ![t] = meta.status]
  /\ Goto(t, "read")
  /\ UNCHANGED <<kernel, rlock, handle, depth, meta, abrupt>>

(* Slip: any earlier record counts as a lost owner.                         *)
OwnerRecordOfAny(t) == [status |-> "active", by |-> t,
                        recovered |-> seen[t] # "absent"]

OwnerRecord(t) == [status |-> "active", by |-> t,
                   recovered |-> seen[t] = "active"]

WriteOwner(t) ==
  /\ pc[t] = "read"
  /\ meta' = OwnerRecord(t)
  /\ abrupt' = FALSE
  /\ handle' = [handle EXCEPT ![ProcOf[t]] = t]
  /\ depth' = [depth EXCEPT ![t] = 1]
  /\ Goto(t, "out")
  /\ Forget(t)
  /\ UNCHANGED <<kernel, rlock>>

(* Slip: the error path forgets the RLock.                                  *)
WriteOwnerFailsLeaking(t) ==
  /\ pc[t] = "read"
  /\ kernel' = None
  /\ Goto(t, "out")
  /\ Forget(t)
  /\ UNCHANGED <<rlock, handle, depth, meta, abrupt>>

(* The owner record cannot be written durably (before the rename, or at the *)
(* directory sync after it): close the handle, release the RLock, raise.    *)
WriteOwnerFails(t) ==
  /\ pc[t] = "read"
  /\ \/ UNCHANGED <<meta, abrupt>>
     \/ /\ meta' = OwnerRecord(t)
        /\ abrupt' = TRUE
  /\ kernel' = None
  /\ ReleaseRLock(ProcOf[t])
  /\ Goto(t, "out")
  /\ Forget(t)
  /\ UNCHANGED <<handle, depth>>

-----------------------------------------------------------------------------
(* release                                                                  *)

ReleaseNested(t) ==
  /\ pc[t] = "out"
  /\ depth[t] > 1
  /\ depth' = [depth EXCEPT ![t] = @ - 1]
  /\ ReleaseRLock(ProcOf[t])
  /\ UNCHANGED <<kernel, handle, meta, pc, seen, abrupt>>

(* Slip: the marker repeats the owner record.                               *)
ReleaseRecordActive(t) == meta

ReleaseRecord(t) == [meta EXCEPT !.status = "released"]

(* The outermost release writes the marker while the lock is still held; a  *)
(* failed write is ignored.                                                 *)
MarkReleased(t) ==
  /\ pc[t] = "out"
  /\ depth[t] = 1
  /\ \/ /\ meta' = ReleaseRecord(t)
        /\ UNCHANGED abrupt
     \/ /\ abrupt' = TRUE
        /\ UNCHANGED meta
  /\ Goto(t, "marked")
  /\ UNCHANGED <<kernel, rlock, handle, depth, seen>>

(* Slip: the RLock is given back before the handle is cleared.              *)
UnlockBoth(t) ==
  /\ pc[t] = "marked"
  /\ kernel' = None
  /\ ReleaseRLock(ProcOf[t])
  /\ Goto(t, "unlocked")
  /\ UNCHANGED <<handle, depth, meta, seen, abrupt>>

Unlock(t) ==
  /\ pc[t] = "marked"
  /\ kernel' = None
  /\ Goto(t, "unlocked")
  /\ UNCHANGED <<rlock, handle, depth, meta, seen, abrupt>>

(* Slip: the marker is written after the file lock is gone.                 *)
FinishReleaseMarking(t) ==
  /\ pc[t] = "unlocked"
  /\ handle' = [handle EXCEPT ![ProcOf[t]] = None]
  /\ depth' = [depth EXCEPT ![t] = 0]
  /\ ReleaseRLock(ProcOf[t])
  /\ meta' = [status |-> "released", by |-> t, recovered |-> FALSE]
  /\ Goto(t, "out")
  /\ UNCHANGED <<kernel, seen, abrupt>>

FinishRelease(t) ==
  /\ pc[t] = "unlocked"
  /\ handle' = [handle EXCEPT ![ProcOf[t]] = None]
  /\ depth' = [depth EXCEPT ![t] = 0]
  /\ ReleaseRLock(ProcOf[t])
  /\ Goto(t, "out")
  /\ UNCHANGED <<kernel, meta, seen, abrupt>>

-----------------------------------------------------------------------------
(* status: reads the metadata first, then probes the file lock, without     *)
(* taking the RLock.                                                        *)

StatusRead(t) ==
  /\ pc[t] = "out"
  /\ seen' = [seen EXCEPT ![t] = meta.status]
  /\ Goto(t, "probe")
  /\ UNCHANGED <<kernel, rlock, handle, depth, meta, abrupt>>

StatusProbe(t) ==
  /\ pc[t] = "probe"
  /\ IF kernel = None
       THEN kernel' = t /\ Goto(t, "probed") /\ UNCHANGED seen
       ELSE Goto(t, "out") /\ Forget(t) /\ UNCHANGED kernel
  /\ UNCHANGED <<rlock, handle, depth, meta, abrupt>>

(* The probe was granted (available); stale_owner is reported when the      *)
(* record read before the probe was active.                                 *)
StaleOwner(t) == seen[t] = "active"

StatusUnlock(t) ==
  /\ pc[t] = "probed"
  /\ kernel' = None
  /\ Goto(t, "out")
  /\ Forget(t)
  /\ UNCHANGED <<rlock, handle, depth, meta, abrupt>>

-----------------------------------------------------------------------------
(* Process p dies: the kernel closes its handles, its memory is gone and    *)
(* its threads start over; the metadata file stays as it is.                *)
Crash(p) ==
  LET dead == {t \in Threads : ProcOf[t] = p} IN
  /\ kernel' = IF kernel \in dead THEN None ELSE kernel
  /\ abrupt' = \/ abrupt
               \/ \E t \in dead : /\ depth[t] > 0
                                  /\ kernel = t
                                  /\ meta.status = "active"
  /\ rlock' = [rlock EXCEPT ![p] = Free]
  /\ handle' = [handle EXCEPT ![p] = None]
  /\ depth' = [t \in Threads |-> IF t \in dead THEN 0 ELSE depth[t]]
  /\ pc' = [t \in Threads |-> IF t \in dead THEN "out" ELSE pc[t]]
  /\ seen' = [t \in Threads |-> IF t \in dead THEN "absent" ELSE seen[t]]
  /\ UNCHANGED meta

(* The steps of a call that has begun; they need no further decision of the *)
(* caller.                                                                  *)
Continue(t) == \/ TakeThreadLock(t) \/ ThreadLockTimeout(t)
               \/ TryLock(t) \/ PollDeadline(t)
               \/ ReadPrevious(t) \/ WriteOwner(t) \/ WriteOwnerFails(t)
               \/ Unlock(t) \/ FinishRelease(t)
               \/ StatusProbe(t) \/ StatusUnlock(t)

Call(t) == \/ BeginAcquire(t)
           \/ ReleaseNested(t)
           \/ MarkReleased(t)
           \/ StatusRead(t)

Next == \/ \E t \in Threads : Call(t) \/ Continue(t)
        \/ \E p \in Procs : Crash(p)

Spec == Init /\ [][Next]_vars

(* A thread inside FileLease keeps running: the poll loop sleeps for a      *)
(* bounded time and the deadline comes from a monotonic clock.              *)
FairSpec == Spec /\ \A t \in Threads : WF_vars(Continue(t))

-----------------------------------------------------------------------------
(* t is inside hold(): the lease was returned to it and it has not yet      *)
(* given up the file lock.                                                  *)
Holds(t) == depth[t] > 0 /\ pc[t] # "unlocked"

(* t is in acquire(), past the RLock.                                       *)
Acquiring(t) == pc[t] \in {"polling", "locked", "read"}

TypeOK ==
  /\ kernel \in Threads \cup {None}
  /\ rlock \in [Procs -> [owner : Threads \cup {None}, count : Nat]]
  /\ handle \in [Procs -> Threads \cup {None}]
  /\ depth \in [Threads -> 0..MaxDepth]
  /\ meta \in Meta
  /\ pc \in [Threads -> PCs]
  /\ seen \in [Threads -> Statuses]
  /\ abrupt \in BOOLEAN

(* Two callers never hold the lease together, whether they are threads of   *)
(* one process or of two, whatever crashes, times out or is probed.         *)
MutualExclusion ==
  \A t, u \in Threads : Holds(t) /\ Holds(u) => t = u

(* While a caller is inside hold(), the metadata file names it as the       *)
(* active owner (the owner shown by lock-status and by a                    *)
(* LockContendedError) until release() has written its marker.              *)
MetadataNamesHolder ==
  \A t \in Threads :
    Holds(t) /\ pc[t] # "marked" => meta.status = "active" /\ meta.by = t

(* The two assertions of acquire() and release(): a thread with a depth     *)
(* finds its own handle and owner payload in the shared FileLease object.   *)
HandleOfHolder ==
  \A t \in Threads : depth[t] > 0 => handle[ProcOf[t]] = t

(* The process-wide RLock is owned by the thread that holds or is acquiring *)
(* the lease, as often as that thread took it: every error path of          *)
(* acquire() and every release() gives back exactly what was taken, so no   *)
(* path leaks the lock or frees it early.                                   *)
RLockBalanced ==
  \A t \in Threads :
    LET lock == rlock[ProcOf[t]] IN
    /\ lock.owner = t <=> depth[t] > 0 \/ Acquiring(t)
    /\ lock.owner = t =>
         lock.count = depth[t] + (IF Acquiring(t) THEN 1 ELSE 0)

(* recovered_from is exact: the owner record names a lost predecessor if    *)
(* and only if that predecessor never got its release marker on disk.       *)
RecoveryEvidenceExact ==
  \A t \in Threads : pc[t] = "read" => (seen[t] = "active" <=> abrupt)

(* docs/daily-ops.md:404 of lock-status: available with stale_owner means   *)
(* the process died without updating metadata.                              *)
StaleOwnerMeansDeadOwner ==
  \A t \in Threads : pc[t] = "probed" /\ StaleOwner(t) => abrupt

(* Every call of acquire, release and status comes back to its caller: with *)
(* the lease, with LockContendedError, or because the process died.         *)
CallsReturn ==
  \A t \in Threads : pc[t] # "out" ~> pc[t] = "out"

-----------------------------------------------------------------------------
(* The inductive invariant behind all of these.                             *)

HasKernel(t) == \/ pc[t] \in {"locked", "read", "marked", "probed"}
                \/ Holds(t)

(* The OS lock is held by the one thread whose position says so.            *)
KernelOwner == \A t \in Threads : kernel = t <=> HasKernel(t)

DepthAt ==
  \A t \in Threads :
    /\ pc[t] \in {"polling", "locked", "read", "probed"} => depth[t] = 0
    /\ pc[t] \in {"marked", "unlocked"} => depth[t] = 1
    /\ pc[t] = "threadWait" => depth[t] < MaxDepth

(* A free RLock has the count zero and an owner of its own process.         *)
RLockSane ==
  \A p \in Procs :
    IF rlock[p].owner = None THEN rlock[p].count = 0
                             ELSE ProcOf[rlock[p].owner] = p

SeenIsCurrent == \A t \in Threads : pc[t] = "read" => seen[t] = meta.status

(* No owner whose record is still unmarked.                                 *)
Settled == \A t \in Threads : Holds(t) => pc[t] = "marked"

EvidenceOnDisk ==
  IF Settled THEN meta.status = "active" <=> abrupt ELSE ~abrupt

(* The file lock, the RLock, the shared handle, the depths and the metadata *)
(* file agree at every step of every call.                                  *)
LeaseInvariant == /\ TypeOK
                  /\ KernelOwner
                  /\ DepthAt
                  /\ RLockBalanced
                  /\ RLockSane
                  /\ HandleOfHolder
                  /\ MetadataNamesHolder
                  /\ SeenIsCurrent
                  /\ EvidenceOnDisk

-----------------------------------------------------------------------------
(* Refinement: the lease's owner is the holder, its crash evidence the      *)
(* recovered_from of the record on disk.                                    *)
LeaseOwner == IF \E t \in Threads : Holds(t)
                THEN CHOOSE t \in Threads : Holds(t)
                ELSE None

Abstract == INSTANCE AbstractLease
              WITH owner <- LeaseOwner,
                   abrupt <- LeaseOwner = None /\ abrupt,
                   reported <- meta.recovered

(* Every step of the file lease is a grant, a drop or invisible to its      *)
(* callers: ownership never passes from one thread to another directly and  *)
(* every grant carries exact crash evidence.                                *)
ImplementsLease == Abstract!ASpec
=============================================================================
