-------------------------- MODULE FileLeaseProofs --------------------------
(***************************************************************************)
(* Proofs about FileLease, for any processes, threads and nesting bound:   *)
(* the lease excludes, its recovery evidence is exact, and AbstractLease   *)
(* is implemented.  The inductive invariant is LeaseInvariant; one lemma   *)
(* per action shows that the action keeps it, one step per conjunct.       *)
(***************************************************************************)
EXTENDS FileLease, TLAPS

\* One release of an RLock: its count drops, and the owner goes with the last.
LEMMA ReleaseRLockEffect ==
  ASSUME TypeOK, NEW p \in Procs, rlock[p].count > 0, ReleaseRLock(p)
  PROVE  /\ rlock' \in [Procs -> [owner : Threads \cup {None}, count : Nat]]
         /\ rlock'[p].owner = IF rlock[p].count = 1 THEN None
                                                    ELSE rlock[p].owner
         /\ rlock'[p].count = rlock[p].count - 1
         /\ \A q \in Procs \ {p} : rlock'[q] = rlock[q]
<1> DEFINE new == IF rlock[p].count = 1 THEN Free
                  ELSE [owner |-> rlock[p].owner, count |-> rlock[p].count - 1]
<1>1. rlock[p] \in [owner : Threads \cup {None}, count : Nat]
  BY DEF TypeOK
<1>2. /\ new \in [owner : Threads \cup {None}, count : Nat]
      /\ new.owner = IF rlock[p].count = 1 THEN None ELSE rlock[p].owner
      /\ new.count = rlock[p].count - 1
  BY <1>1 DEF Free
<1>3. rlock' = [rlock EXCEPT ![p] = new]
  BY DEF ReleaseRLock
<1> HIDE DEF new
<1>4. QED
  BY <1>2, <1>3 DEF TypeOK

-----------------------------------------------------------------------------
\* The invariant is kept by acquire(): the thread lock, the polls, the record.
LEMMA BeginAcquireStep ==
  ASSUME LeaseInvariant, NEW t \in Threads, BeginAcquire(t)
  PROVE  LeaseInvariant'
<1> USE ProcOfAssumption, MaxDepthAssumption, NoneAssumption
<1> USE DEF LeaseInvariant, BeginAcquire, Goto
<1>1. TypeOK'
  BY DEF TypeOK, PCs, Meta, Statuses, RLockBalanced, Acquiring, DepthAt
<1>2. KernelOwner'
  BY DEF TypeOK, KernelOwner, HasKernel, Holds, DepthAt, RLockBalanced, Acquiring
<1>3. DepthAt'
  BY DEF TypeOK, DepthAt, KernelOwner, HasKernel, Holds, RLockBalanced, Acquiring
<1>4. RLockBalanced'
  BY DEF TypeOK, RLockBalanced, RLockSane, Acquiring, DepthAt
<1>s. RLockSane'
  BY DEF TypeOK, RLockBalanced, RLockSane, Acquiring, DepthAt
<1>5. HandleOfHolder'
  BY DEF TypeOK, HandleOfHolder, RLockBalanced, Acquiring, DepthAt
<1>6. MetadataNamesHolder'
  BY DEF TypeOK, MetadataNamesHolder, Holds, KernelOwner, HasKernel, DepthAt
<1>7. SeenIsCurrent'
  BY DEF TypeOK, SeenIsCurrent, KernelOwner, HasKernel, Holds, DepthAt
<1>8. EvidenceOnDisk'
  BY DEF TypeOK, EvidenceOnDisk, Settled, Holds, KernelOwner, HasKernel, DepthAt,
         MetadataNamesHolder
<1>9. QED
  BY <1>1, <1>2, <1>3, <1>4, <1>5, <1>6, <1>7, <1>8, <1>s

LEMMA TakeThreadLockStep ==
  ASSUME LeaseInvariant, NEW t \in Threads, TakeThreadLock(t)
  PROVE  LeaseInvariant'
<1> USE ProcOfAssumption, MaxDepthAssumption, NoneAssumption
<1> USE DEF LeaseInvariant, TakeThreadLock, Goto
<1>0. /\ rlock' \in [Procs -> [owner : Threads \cup {None}, count : Nat]]
      /\ rlock'[ProcOf[t]].owner = t
      /\ rlock'[ProcOf[t]].count = rlock[ProcOf[t]].count + 1
      /\ \A q \in Procs \ {ProcOf[t]} : rlock'[q] = rlock[q]
  BY DEF TypeOK
<1>1. TypeOK'
  <2>1. rlock' \in [Procs -> [owner : Threads \cup {None}, count : Nat]]
    BY <1>0 DEF TypeOK
  <2>2. kernel' \in Threads \cup {None} /\ abrupt' \in BOOLEAN
    BY DEF TypeOK
  <2>3. handle' \in [Procs -> Threads \cup {None}]
    BY DEF TypeOK
  <2>4. depth' \in [Threads -> 0..MaxDepth]
    BY DEF TypeOK, DepthAt, RLockBalanced, Acquiring
  <2>5. meta' \in Meta
    BY DEF TypeOK
  <2>6. pc' \in [Threads -> PCs] /\ seen' \in [Threads -> Statuses]
    BY DEF TypeOK, PCs, Statuses
  <2>7. QED
    BY <2>1, <2>2, <2>3, <2>4, <2>5, <2>6 DEF TypeOK
<1>2. KernelOwner'
  BY DEF TypeOK, KernelOwner, HasKernel, Holds, DepthAt, RLockBalanced, Acquiring
<1>3. DepthAt'
  BY DEF TypeOK, DepthAt, KernelOwner, HasKernel, Holds, RLockBalanced, Acquiring
<1>4. RLockBalanced'
  BY <1>0 DEF TypeOK, RLockBalanced, RLockSane, Acquiring, DepthAt
<1>s. RLockSane'
  BY <1>0 DEF TypeOK, RLockBalanced, RLockSane, Acquiring, DepthAt
<1>5. HandleOfHolder'
  BY DEF TypeOK, HandleOfHolder, RLockBalanced, Acquiring, DepthAt
<1>6. MetadataNamesHolder'
  BY DEF TypeOK, MetadataNamesHolder, Holds, KernelOwner, HasKernel, DepthAt
<1>7. SeenIsCurrent'
  BY DEF TypeOK, SeenIsCurrent, KernelOwner, HasKernel, Holds, DepthAt
<1>8. EvidenceOnDisk'
  BY DEF TypeOK, EvidenceOnDisk, Settled, Holds, KernelOwner, HasKernel, DepthAt,
         MetadataNamesHolder
<1>9. QED
  BY <1>1, <1>2, <1>3, <1>4, <1>5, <1>6, <1>7, <1>8, <1>s

LEMMA ThreadLockTimeoutStep ==
  ASSUME LeaseInvariant, NEW t \in Threads, ThreadLockTimeout(t)
  PROVE  LeaseInvariant'
<1> USE ProcOfAssumption, MaxDepthAssumption, NoneAssumption
<1> USE DEF LeaseInvariant, ThreadLockTimeout, Goto
<1>1. TypeOK'
  BY DEF TypeOK, PCs, Meta, Statuses, RLockBalanced, Acquiring, DepthAt
<1>2. KernelOwner'
  BY DEF TypeOK, KernelOwner, HasKernel, Holds, DepthAt, RLockBalanced, Acquiring
<1>3. DepthAt'
  BY DEF TypeOK, DepthAt, KernelOwner, HasKernel, Holds, RLockBalanced, Acquiring
<1>4. RLockBalanced'
  BY DEF TypeOK, RLockBalanced, RLockSane, Acquiring, DepthAt
<1>s. RLockSane'
  BY DEF TypeOK, RLockBalanced, RLockSane, Acquiring, DepthAt
<1>5. HandleOfHolder'
  BY DEF TypeOK, HandleOfHolder, RLockBalanced, Acquiring, DepthAt
<1>6. MetadataNamesHolder'
  BY DEF TypeOK, MetadataNamesHolder, Holds, KernelOwner, HasKernel, DepthAt
<1>7. SeenIsCurrent'
  BY DEF TypeOK, SeenIsCurrent, KernelOwner, HasKernel, Holds, DepthAt
<1>8. EvidenceOnDisk'
  BY DEF TypeOK, EvidenceOnDisk, Settled, Holds, KernelOwner, HasKernel, DepthAt,
         MetadataNamesHolder
<1>9. QED
  BY <1>1, <1>2, <1>3, <1>4, <1>5, <1>6, <1>7, <1>8, <1>s

LEMMA TryLockStep ==
  ASSUME LeaseInvariant, NEW t \in Threads, TryLock(t)
  PROVE  LeaseInvariant'
<1> USE ProcOfAssumption, MaxDepthAssumption, NoneAssumption
<1> USE DEF LeaseInvariant, TryLock, Goto
<1>1. TypeOK'
  BY DEF TypeOK, PCs, Meta, Statuses, RLockBalanced, Acquiring, DepthAt
<1>2. KernelOwner'
  BY DEF TypeOK, KernelOwner, HasKernel, Holds, DepthAt, RLockBalanced, Acquiring
<1>3. DepthAt'
  BY DEF TypeOK, DepthAt, KernelOwner, HasKernel, Holds, RLockBalanced, Acquiring
<1>4. RLockBalanced'
  BY DEF TypeOK, RLockBalanced, RLockSane, Acquiring, DepthAt
<1>s. RLockSane'
  BY DEF TypeOK, RLockBalanced, RLockSane, Acquiring, DepthAt
<1>5. HandleOfHolder'
  BY DEF TypeOK, HandleOfHolder, RLockBalanced, Acquiring, DepthAt
<1>6. MetadataNamesHolder'
  BY DEF TypeOK, MetadataNamesHolder, Holds, KernelOwner, HasKernel, DepthAt
<1>7. SeenIsCurrent'
  BY DEF TypeOK, SeenIsCurrent, KernelOwner, HasKernel, Holds, DepthAt
<1>8. EvidenceOnDisk'
  BY DEF TypeOK, EvidenceOnDisk, Settled, Holds, KernelOwner, HasKernel, DepthAt,
         MetadataNamesHolder
<1>9. QED
  BY <1>1, <1>2, <1>3, <1>4, <1>5, <1>6, <1>7, <1>8, <1>s

LEMMA PollDeadlineStep ==
  ASSUME LeaseInvariant, NEW t \in Threads, PollDeadline(t)
  PROVE  LeaseInvariant'
<1> USE ProcOfAssumption, MaxDepthAssumption, NoneAssumption
<1> USE DEF LeaseInvariant, PollDeadline, Goto
<1>0. /\ rlock' \in [Procs -> [owner : Threads \cup {None}, count : Nat]]
      /\ rlock'[ProcOf[t]].owner =
           IF rlock[ProcOf[t]].count = 1 THEN None ELSE rlock[ProcOf[t]].owner
      /\ rlock'[ProcOf[t]].count = rlock[ProcOf[t]].count - 1
      /\ \A q \in Procs \ {ProcOf[t]} : rlock'[q] = rlock[q]
  <2>1. rlock[ProcOf[t]].owner = t /\ rlock[ProcOf[t]].count > 0
    BY DEF TypeOK, RLockBalanced, Acquiring, DepthAt
  <2>2. QED
    BY <2>1, ReleaseRLockEffect
<1>1. TypeOK'
  <2>1. rlock' \in [Procs -> [owner : Threads \cup {None}, count : Nat]]
    BY <1>0 DEF TypeOK
  <2>2. kernel' \in Threads \cup {None} /\ abrupt' \in BOOLEAN
    BY DEF TypeOK
  <2>3. handle' \in [Procs -> Threads \cup {None}]
    BY DEF TypeOK
  <2>4. depth' \in [Threads -> 0..MaxDepth]
    BY DEF TypeOK, DepthAt, RLockBalanced, Acquiring
  <2>5. meta' \in Meta
    BY DEF TypeOK
  <2>6. pc' \in [Threads -> PCs] /\ seen' \in [Threads -> Statuses]
    BY DEF TypeOK, PCs, Statuses
  <2>7. QED
    BY <2>1, <2>2, <2>3, <2>4, <2>5, <2>6 DEF TypeOK
<1>2. KernelOwner'
  BY DEF TypeOK, KernelOwner, HasKernel, Holds, DepthAt, RLockBalanced, Acquiring
<1>3. DepthAt'
  BY DEF TypeOK, DepthAt, KernelOwner, HasKernel, Holds, RLockBalanced, Acquiring
<1>4. RLockBalanced'
  <2> SUFFICES ASSUME NEW u \in Threads
               PROVE  LET lock == rlock'[ProcOf[u]] IN
                      /\ lock.owner = u <=> depth'[u] > 0 \/ Acquiring(u)'
                      /\ lock.owner = u =>
                           lock.count = depth'[u] + (IF Acquiring(u)' THEN 1 ELSE 0)
    BY DEF RLockBalanced, Acquiring
  <2>1. CASE ProcOf[u] # ProcOf[t]
    <3>1. /\ rlock'[ProcOf[u]] = rlock[ProcOf[u]]
          /\ depth'[u] = depth[u]
          /\ pc'[u] = pc[u]
      BY <2>1, <1>0 DEF TypeOK
    <3>2. QED
      BY <3>1 DEF RLockBalanced, Acquiring
  <2>2. CASE ProcOf[u] = ProcOf[t] /\ u # t
    BY <2>2, <1>0 DEF TypeOK, RLockBalanced, RLockSane, Acquiring, DepthAt
  <2>3. CASE u = t
    BY <2>3, <1>0 DEF TypeOK, RLockBalanced, RLockSane, Acquiring, DepthAt
  <2>4. QED
    BY <2>1, <2>2, <2>3
<1>s. RLockSane'
  BY <1>0 DEF TypeOK, RLockBalanced, RLockSane, Acquiring, DepthAt
<1>5. HandleOfHolder'
  BY DEF TypeOK, HandleOfHolder, RLockBalanced, Acquiring, DepthAt
<1>6. MetadataNamesHolder'
  BY DEF TypeOK, MetadataNamesHolder, Holds, KernelOwner, HasKernel, DepthAt
<1>7. SeenIsCurrent'
  BY DEF TypeOK, SeenIsCurrent, KernelOwner, HasKernel, Holds, DepthAt
<1>8. EvidenceOnDisk'
  BY DEF TypeOK, EvidenceOnDisk, Settled, Holds, KernelOwner, HasKernel, DepthAt,
         MetadataNamesHolder
<1>9. QED
  BY <1>1, <1>2, <1>3, <1>4, <1>5, <1>6, <1>7, <1>8, <1>s

LEMMA ReadPreviousStep ==
  ASSUME LeaseInvariant, NEW t \in Threads, ReadPrevious(t)
  PROVE  LeaseInvariant'
<1> USE ProcOfAssumption, MaxDepthAssumption, NoneAssumption
<1> USE DEF LeaseInvariant, ReadPrevious, Goto
<1>1. TypeOK'
  BY DEF TypeOK, PCs, Meta, Statuses, RLockBalanced, Acquiring, DepthAt
<1>2. KernelOwner'
  BY DEF TypeOK, KernelOwner, HasKernel, Holds, DepthAt, RLockBalanced, Acquiring
<1>3. DepthAt'
  BY DEF TypeOK, DepthAt, KernelOwner, HasKernel, Holds, RLockBalanced, Acquiring
<1>4. RLockBalanced'
  BY DEF TypeOK, RLockBalanced, RLockSane, Acquiring, DepthAt
<1>s. RLockSane'
  BY DEF TypeOK, RLockBalanced, RLockSane, Acquiring, DepthAt
<1>5. HandleOfHolder'
  BY DEF TypeOK, HandleOfHolder, RLockBalanced, Acquiring, DepthAt
<1>6. MetadataNamesHolder'
  BY DEF TypeOK, MetadataNamesHolder, Holds, KernelOwner, HasKernel, DepthAt
<1>7. SeenIsCurrent'
  BY DEF TypeOK, SeenIsCurrent, KernelOwner, HasKernel, Holds, DepthAt
<1>8. EvidenceOnDisk'
  BY DEF TypeOK, EvidenceOnDisk, Settled, Holds, KernelOwner, HasKernel, DepthAt,
         MetadataNamesHolder
<1>9. QED
  BY <1>1, <1>2, <1>3, <1>4, <1>5, <1>6, <1>7, <1>8, <1>s

LEMMA WriteOwnerStep ==
  ASSUME LeaseInvariant, NEW t \in Threads, WriteOwner(t)
  PROVE  LeaseInvariant'
<1> USE ProcOfAssumption, MaxDepthAssumption, NoneAssumption
<1> USE DEF LeaseInvariant, WriteOwner, Goto, Forget
<1>m. /\ OwnerRecord(t) \in Meta
      /\ OwnerRecord(t).status = "active"
      /\ OwnerRecord(t).by = t
  BY DEF OwnerRecord, Meta, Statuses, TypeOK
<1>1. TypeOK'
  <2>1. rlock' \in [Procs -> [owner : Threads \cup {None}, count : Nat]]
    BY DEF TypeOK
  <2>2. kernel' \in Threads \cup {None} /\ abrupt' \in BOOLEAN
    BY DEF TypeOK
  <2>3. handle' \in [Procs -> Threads \cup {None}]
    BY DEF TypeOK
  <2>4. depth' \in [Threads -> 0..MaxDepth]
    BY DEF TypeOK, DepthAt, RLockBalanced, Acquiring
  <2>5. meta' \in Meta
    BY <1>m DEF TypeOK
  <2>6. pc' \in [Threads -> PCs] /\ seen' \in [Threads -> Statuses]
    BY DEF TypeOK, PCs, Statuses
  <2>7. QED
    BY <2>1, <2>2, <2>3, <2>4, <2>5, <2>6 DEF TypeOK
<1>2. KernelOwner'
  BY DEF TypeOK, KernelOwner, HasKernel, Holds, DepthAt, RLockBalanced, Acquiring
<1>3. DepthAt'
  BY DEF TypeOK, DepthAt, KernelOwner, HasKernel, Holds, RLockBalanced, Acquiring
<1>4. RLockBalanced'
  BY DEF TypeOK, RLockBalanced, RLockSane, Acquiring, DepthAt
<1>s. RLockSane'
  BY DEF TypeOK, RLockBalanced, RLockSane, Acquiring, DepthAt
<1>5. HandleOfHolder'
  <2> SUFFICES ASSUME NEW u \in Threads, depth'[u] > 0
               PROVE  handle'[ProcOf[u]] = u
    BY DEF HandleOfHolder
  <2>1. u # t => depth[u] > 0 /\ rlock[ProcOf[u]].owner = u
    BY DEF TypeOK, RLockBalanced
  <2>2. rlock[ProcOf[t]].owner = t
    BY DEF RLockBalanced, Acquiring
  <2>3. QED
    BY <2>1, <2>2 DEF TypeOK, HandleOfHolder
<1>6. MetadataNamesHolder'
  BY <1>m DEF TypeOK, MetadataNamesHolder, Holds, KernelOwner, HasKernel, DepthAt
<1>7. SeenIsCurrent'
  BY DEF TypeOK, SeenIsCurrent, KernelOwner, HasKernel, Holds, DepthAt
<1>8. EvidenceOnDisk'
  BY <1>m DEF TypeOK, EvidenceOnDisk, Settled, Holds, KernelOwner, HasKernel, DepthAt,
         MetadataNamesHolder
<1>9. QED
  BY <1>1, <1>2, <1>3, <1>4, <1>5, <1>6, <1>7, <1>8, <1>s

LEMMA WriteOwnerFailsStep ==
  ASSUME LeaseInvariant, NEW t \in Threads, WriteOwnerFails(t)
  PROVE  LeaseInvariant'
<1> USE ProcOfAssumption, MaxDepthAssumption, NoneAssumption
<1> USE DEF LeaseInvariant, WriteOwnerFails, Goto, Forget
<1>0. /\ rlock' \in [Procs -> [owner : Threads \cup {None}, count : Nat]]
      /\ rlock'[ProcOf[t]].owner =
           IF rlock[ProcOf[t]].count = 1 THEN None ELSE rlock[ProcOf[t]].owner
      /\ rlock'[ProcOf[t]].count = rlock[ProcOf[t]].count - 1
      /\ \A q \in Procs \ {ProcOf[t]} : rlock'[q] = rlock[q]
  <2>1. rlock[ProcOf[t]].owner = t /\ rlock[ProcOf[t]].count > 0
    BY DEF TypeOK, RLockBalanced, Acquiring, DepthAt
  <2>2. QED
    BY <2>1, ReleaseRLockEffect
<1>m. /\ OwnerRecord(t) \in Meta
      /\ OwnerRecord(t).status = "active"
      /\ OwnerRecord(t).by = t
  BY DEF OwnerRecord, Meta, Statuses, TypeOK
<1>1. TypeOK'
  <2>1. rlock' \in [Procs -> [owner : Threads \cup {None}, count : Nat]]
    BY <1>0 DEF TypeOK
  <2>2. kernel' \in Threads \cup {None} /\ abrupt' \in BOOLEAN
    BY DEF TypeOK
  <2>3. handle' \in [Procs -> Threads \cup {None}]
    BY DEF TypeOK
  <2>4. depth' \in [Threads -> 0..MaxDepth]
    BY DEF TypeOK, DepthAt, RLockBalanced, Acquiring
  <2>5. meta' \in Meta
    BY <1>m DEF TypeOK
  <2>6. pc' \in [Threads -> PCs] /\ seen' \in [Threads -> Statuses]
    BY DEF TypeOK, PCs, Statuses
  <2>7. QED
    BY <2>1, <2>2, <2>3, <2>4, <2>5, <2>6 DEF TypeOK
<1>2. KernelOwner'
  BY DEF TypeOK, KernelOwner, HasKernel, Holds, DepthAt, RLockBalanced, Acquiring
<1>3. DepthAt'
  BY DEF TypeOK, DepthAt, KernelOwner, HasKernel, Holds, RLockBalanced, Acquiring
<1>4. RLockBalanced'
  <2> SUFFICES ASSUME NEW u \in Threads
               PROVE  LET lock == rlock'[ProcOf[u]] IN
                      /\ lock.owner = u <=> depth'[u] > 0 \/ Acquiring(u)'
                      /\ lock.owner = u =>
                           lock.count = depth'[u] + (IF Acquiring(u)' THEN 1 ELSE 0)
    BY DEF RLockBalanced, Acquiring
  <2>1. CASE ProcOf[u] # ProcOf[t]
    <3>1. /\ rlock'[ProcOf[u]] = rlock[ProcOf[u]]
          /\ depth'[u] = depth[u]
          /\ pc'[u] = pc[u]
      BY <2>1, <1>0 DEF TypeOK
    <3>2. QED
      BY <3>1 DEF RLockBalanced, Acquiring
  <2>2. CASE ProcOf[u] = ProcOf[t] /\ u # t
    BY <2>2, <1>0 DEF TypeOK, RLockBalanced, RLockSane, Acquiring, DepthAt
  <2>3. CASE u = t
    BY <2>3, <1>0 DEF TypeOK, RLockBalanced, RLockSane, Acquiring, DepthAt
  <2>4. QED
    BY <2>1, <2>2, <2>3
<1>s. RLockSane'
  BY <1>0 DEF TypeOK, RLockBalanced, RLockSane, Acquiring, DepthAt
<1>5. HandleOfHolder'
  BY DEF TypeOK, HandleOfHolder, RLockBalanced, Acquiring, DepthAt
<1>6. MetadataNamesHolder'
  BY <1>m DEF TypeOK, MetadataNamesHolder, Holds, KernelOwner, HasKernel, DepthAt
<1>7. SeenIsCurrent'
  BY DEF TypeOK, SeenIsCurrent, KernelOwner, HasKernel, Holds, DepthAt
<1>8. EvidenceOnDisk'
  BY <1>m DEF TypeOK, EvidenceOnDisk, Settled, Holds, KernelOwner, HasKernel, DepthAt,
         MetadataNamesHolder
<1>9. QED
  BY <1>1, <1>2, <1>3, <1>4, <1>5, <1>6, <1>7, <1>8, <1>s

-----------------------------------------------------------------------------
\* The invariant is kept by release(), nested and last.
LEMMA ReleaseNestedStep ==
  ASSUME LeaseInvariant, NEW t \in Threads, ReleaseNested(t)
  PROVE  LeaseInvariant'
<1> USE ProcOfAssumption, MaxDepthAssumption, NoneAssumption
<1> USE DEF LeaseInvariant, ReleaseNested, Goto
<1>0. /\ rlock' \in [Procs -> [owner : Threads \cup {None}, count : Nat]]
      /\ rlock'[ProcOf[t]].owner =
           IF rlock[ProcOf[t]].count = 1 THEN None ELSE rlock[ProcOf[t]].owner
      /\ rlock'[ProcOf[t]].count = rlock[ProcOf[t]].count - 1
      /\ \A q \in Procs \ {ProcOf[t]} : rlock'[q] = rlock[q]
  <2>1. rlock[ProcOf[t]].owner = t /\ rlock[ProcOf[t]].count > 0
    BY DEF TypeOK, RLockBalanced, Acquiring, DepthAt
  <2>2. QED
    BY <2>1, ReleaseRLockEffect
<1>1. TypeOK'
  <2>1. rlock' \in [Procs -> [owner : Threads \cup {None}, count : Nat]]
    BY <1>0 DEF TypeOK
  <2>2. kernel' \in Threads \cup {None} /\ abrupt' \in BOOLEAN
    BY DEF TypeOK
  <2>3. handle' \in [Procs -> Threads \cup {None}]
    BY DEF TypeOK
  <2>4. depth' \in [Threads -> 0..MaxDepth]
    BY DEF TypeOK, DepthAt, RLockBalanced, Acquiring
  <2>5. meta' \in Meta
    BY DEF TypeOK
  <2>6. pc' \in [Threads -> PCs] /\ seen' \in [Threads -> Statuses]
    BY DEF TypeOK, PCs, Statuses
  <2>7. QED
    BY <2>1, <2>2, <2>3, <2>4, <2>5, <2>6 DEF TypeOK
<1>2. KernelOwner'
  BY DEF TypeOK, KernelOwner, HasKernel, Holds, DepthAt, RLockBalanced, Acquiring
<1>3. DepthAt'
  BY DEF TypeOK, DepthAt, KernelOwner, HasKernel, Holds, RLockBalanced, Acquiring
<1>4. RLockBalanced'
  <2> SUFFICES ASSUME NEW u \in Threads
               PROVE  LET lock == rlock'[ProcOf[u]] IN
                      /\ lock.owner = u <=> depth'[u] > 0 \/ Acquiring(u)'
                      /\ lock.owner = u =>
                           lock.count = depth'[u] + (IF Acquiring(u)' THEN 1 ELSE 0)
    BY DEF RLockBalanced, Acquiring
  <2>1. CASE ProcOf[u] # ProcOf[t]
    <3>1. /\ rlock'[ProcOf[u]] = rlock[ProcOf[u]]
          /\ depth'[u] = depth[u]
          /\ pc'[u] = pc[u]
      BY <2>1, <1>0 DEF TypeOK
    <3>2. QED
      BY <3>1 DEF RLockBalanced, Acquiring
  <2>2. CASE ProcOf[u] = ProcOf[t] /\ u # t
    BY <2>2, <1>0 DEF TypeOK, RLockBalanced, RLockSane, Acquiring, DepthAt
  <2>3. CASE u = t
    BY <2>3, <1>0 DEF TypeOK, RLockBalanced, RLockSane, Acquiring, DepthAt
  <2>4. QED
    BY <2>1, <2>2, <2>3
<1>s. RLockSane'
  BY <1>0 DEF TypeOK, RLockBalanced, RLockSane, Acquiring, DepthAt
<1>5. HandleOfHolder'
  BY DEF TypeOK, HandleOfHolder, RLockBalanced, Acquiring, DepthAt
<1>6. MetadataNamesHolder'
  BY DEF TypeOK, MetadataNamesHolder, Holds, KernelOwner, HasKernel, DepthAt
<1>7. SeenIsCurrent'
  BY DEF TypeOK, SeenIsCurrent, KernelOwner, HasKernel, Holds, DepthAt
<1>8. EvidenceOnDisk'
  BY DEF TypeOK, EvidenceOnDisk, Settled, Holds, KernelOwner, HasKernel, DepthAt,
         MetadataNamesHolder
<1>9. QED
  BY <1>1, <1>2, <1>3, <1>4, <1>5, <1>6, <1>7, <1>8, <1>s

LEMMA MarkReleasedStep ==
  ASSUME LeaseInvariant, NEW t \in Threads, MarkReleased(t)
  PROVE  LeaseInvariant'
<1> USE ProcOfAssumption, MaxDepthAssumption, NoneAssumption
<1> USE DEF LeaseInvariant, MarkReleased, Goto
<1>m. ReleaseRecord(t) \in Meta /\ ReleaseRecord(t).status = "released"
  BY DEF ReleaseRecord, Meta, Statuses, TypeOK
<1>1. TypeOK'
  <2>1. rlock' \in [Procs -> [owner : Threads \cup {None}, count : Nat]]
    BY DEF TypeOK
  <2>2. kernel' \in Threads \cup {None} /\ abrupt' \in BOOLEAN
    BY DEF TypeOK
  <2>3. handle' \in [Procs -> Threads \cup {None}]
    BY DEF TypeOK
  <2>4. depth' \in [Threads -> 0..MaxDepth]
    BY DEF TypeOK, DepthAt, RLockBalanced, Acquiring
  <2>5. meta' \in Meta
    BY <1>m DEF TypeOK
  <2>6. pc' \in [Threads -> PCs] /\ seen' \in [Threads -> Statuses]
    BY DEF TypeOK, PCs, Statuses
  <2>7. QED
    BY <2>1, <2>2, <2>3, <2>4, <2>5, <2>6 DEF TypeOK
<1>2. KernelOwner'
  BY DEF TypeOK, KernelOwner, HasKernel, Holds, DepthAt, RLockBalanced, Acquiring
<1>3. DepthAt'
  BY DEF TypeOK, DepthAt, KernelOwner, HasKernel, Holds, RLockBalanced, Acquiring
<1>4. RLockBalanced'
  BY DEF TypeOK, RLockBalanced, RLockSane, Acquiring, DepthAt
<1>s. RLockSane'
  BY DEF TypeOK, RLockBalanced, RLockSane, Acquiring, DepthAt
<1>5. HandleOfHolder'
  BY DEF TypeOK, HandleOfHolder, RLockBalanced, Acquiring, DepthAt
<1>6. MetadataNamesHolder'
  BY <1>m DEF TypeOK, MetadataNamesHolder, Holds, KernelOwner, HasKernel, DepthAt
<1>7. SeenIsCurrent'
  BY DEF TypeOK, SeenIsCurrent, KernelOwner, HasKernel, Holds, DepthAt
<1>8. EvidenceOnDisk'
  BY <1>m DEF TypeOK, EvidenceOnDisk, Settled, Holds, KernelOwner, HasKernel, DepthAt,
         MetadataNamesHolder
<1>9. QED
  BY <1>1, <1>2, <1>3, <1>4, <1>5, <1>6, <1>7, <1>8, <1>s

LEMMA UnlockStep ==
  ASSUME LeaseInvariant, NEW t \in Threads, Unlock(t)
  PROVE  LeaseInvariant'
<1> USE ProcOfAssumption, MaxDepthAssumption, NoneAssumption
<1> USE DEF LeaseInvariant, Unlock, Goto
<1>1. TypeOK'
  BY DEF TypeOK, PCs, Meta, Statuses, RLockBalanced, Acquiring, DepthAt
<1>2. KernelOwner'
  BY DEF TypeOK, KernelOwner, HasKernel, Holds, DepthAt, RLockBalanced, Acquiring
<1>3. DepthAt'
  BY DEF TypeOK, DepthAt, KernelOwner, HasKernel, Holds, RLockBalanced, Acquiring
<1>4. RLockBalanced'
  BY DEF TypeOK, RLockBalanced, RLockSane, Acquiring, DepthAt
<1>s. RLockSane'
  BY DEF TypeOK, RLockBalanced, RLockSane, Acquiring, DepthAt
<1>5. HandleOfHolder'
  BY DEF TypeOK, HandleOfHolder, RLockBalanced, Acquiring, DepthAt
<1>6. MetadataNamesHolder'
  BY DEF TypeOK, MetadataNamesHolder, Holds, KernelOwner, HasKernel, DepthAt
<1>7. SeenIsCurrent'
  BY DEF TypeOK, SeenIsCurrent, KernelOwner, HasKernel, Holds, DepthAt
<1>8. EvidenceOnDisk'
  BY DEF TypeOK, EvidenceOnDisk, Settled, Holds, KernelOwner, HasKernel, DepthAt,
         MetadataNamesHolder
<1>9. QED
  BY <1>1, <1>2, <1>3, <1>4, <1>5, <1>6, <1>7, <1>8, <1>s

LEMMA FinishReleaseStep ==
  ASSUME LeaseInvariant, NEW t \in Threads, FinishRelease(t)
  PROVE  LeaseInvariant'
<1> USE ProcOfAssumption, MaxDepthAssumption, NoneAssumption
<1> USE DEF LeaseInvariant, FinishRelease, Goto
<1>0. /\ rlock' \in [Procs -> [owner : Threads \cup {None}, count : Nat]]
      /\ rlock'[ProcOf[t]].owner =
           IF rlock[ProcOf[t]].count = 1 THEN None ELSE rlock[ProcOf[t]].owner
      /\ rlock'[ProcOf[t]].count = rlock[ProcOf[t]].count - 1
      /\ \A q \in Procs \ {ProcOf[t]} : rlock'[q] = rlock[q]
  <2>1. rlock[ProcOf[t]].owner = t /\ rlock[ProcOf[t]].count > 0
    BY DEF TypeOK, RLockBalanced, Acquiring, DepthAt
  <2>2. QED
    BY <2>1, ReleaseRLockEffect
<1>1. TypeOK'
  <2>1. rlock' \in [Procs -> [owner : Threads \cup {None}, count : Nat]]
    BY <1>0 DEF TypeOK
  <2>2. kernel' \in Threads \cup {None} /\ abrupt' \in BOOLEAN
    BY DEF TypeOK
  <2>3. handle' \in [Procs -> Threads \cup {None}]
    BY DEF TypeOK
  <2>4. depth' \in [Threads -> 0..MaxDepth]
    BY DEF TypeOK, DepthAt, RLockBalanced, Acquiring
  <2>5. meta' \in Meta
    BY DEF TypeOK
  <2>6. pc' \in [Threads -> PCs] /\ seen' \in [Threads -> Statuses]
    BY DEF TypeOK, PCs, Statuses
  <2>7. QED
    BY <2>1, <2>2, <2>3, <2>4, <2>5, <2>6 DEF TypeOK
<1>2. KernelOwner'
  BY DEF TypeOK, KernelOwner, HasKernel, Holds, DepthAt, RLockBalanced, Acquiring
<1>3. DepthAt'
  BY DEF TypeOK, DepthAt, KernelOwner, HasKernel, Holds, RLockBalanced, Acquiring
<1>4. RLockBalanced'
  <2> SUFFICES ASSUME NEW u \in Threads
               PROVE  LET lock == rlock'[ProcOf[u]] IN
                      /\ lock.owner = u <=> depth'[u] > 0 \/ Acquiring(u)'
                      /\ lock.owner = u =>
                           lock.count = depth'[u] + (IF Acquiring(u)' THEN 1 ELSE 0)
    BY DEF RLockBalanced, Acquiring
  <2>1. CASE ProcOf[u] # ProcOf[t]
    <3>1. /\ rlock'[ProcOf[u]] = rlock[ProcOf[u]]
          /\ depth'[u] = depth[u]
          /\ pc'[u] = pc[u]
      BY <2>1, <1>0 DEF TypeOK
    <3>2. QED
      BY <3>1 DEF RLockBalanced, Acquiring
  <2>2. CASE ProcOf[u] = ProcOf[t] /\ u # t
    BY <2>2, <1>0 DEF TypeOK, RLockBalanced, RLockSane, Acquiring, DepthAt
  <2>3. CASE u = t
    BY <2>3, <1>0 DEF TypeOK, RLockBalanced, RLockSane, Acquiring, DepthAt
  <2>4. QED
    BY <2>1, <2>2, <2>3
<1>s. RLockSane'
  BY <1>0 DEF TypeOK, RLockBalanced, RLockSane, Acquiring, DepthAt
<1>5. HandleOfHolder'
  BY DEF TypeOK, HandleOfHolder, RLockBalanced, Acquiring, DepthAt
<1>6. MetadataNamesHolder'
  BY DEF TypeOK, MetadataNamesHolder, Holds, KernelOwner, HasKernel, DepthAt
<1>7. SeenIsCurrent'
  BY DEF TypeOK, SeenIsCurrent, KernelOwner, HasKernel, Holds, DepthAt
<1>8. EvidenceOnDisk'
  BY DEF TypeOK, EvidenceOnDisk, Settled, Holds, KernelOwner, HasKernel, DepthAt,
         MetadataNamesHolder
<1>9. QED
  BY <1>1, <1>2, <1>3, <1>4, <1>5, <1>6, <1>7, <1>8, <1>s

-----------------------------------------------------------------------------
\* The invariant is kept by status(), and by a crash of a process.
LEMMA StatusReadStep ==
  ASSUME LeaseInvariant, NEW t \in Threads, StatusRead(t)
  PROVE  LeaseInvariant'
<1> USE ProcOfAssumption, MaxDepthAssumption, NoneAssumption
<1> USE DEF LeaseInvariant, StatusRead, Goto
<1>1. TypeOK'
  BY DEF TypeOK, PCs, Meta, Statuses, RLockBalanced, Acquiring, DepthAt
<1>2. KernelOwner'
  BY DEF TypeOK, KernelOwner, HasKernel, Holds, DepthAt, RLockBalanced, Acquiring
<1>3. DepthAt'
  BY DEF TypeOK, DepthAt, KernelOwner, HasKernel, Holds, RLockBalanced, Acquiring
<1>4. RLockBalanced'
  BY DEF TypeOK, RLockBalanced, RLockSane, Acquiring, DepthAt
<1>s. RLockSane'
  BY DEF TypeOK, RLockBalanced, RLockSane, Acquiring, DepthAt
<1>5. HandleOfHolder'
  BY DEF TypeOK, HandleOfHolder, RLockBalanced, Acquiring, DepthAt
<1>6. MetadataNamesHolder'
  BY DEF TypeOK, MetadataNamesHolder, Holds, KernelOwner, HasKernel, DepthAt
<1>7. SeenIsCurrent'
  BY DEF TypeOK, SeenIsCurrent, KernelOwner, HasKernel, Holds, DepthAt
<1>8. EvidenceOnDisk'
  BY DEF TypeOK, EvidenceOnDisk, Settled, Holds, KernelOwner, HasKernel, DepthAt,
         MetadataNamesHolder
<1>9. QED
  BY <1>1, <1>2, <1>3, <1>4, <1>5, <1>6, <1>7, <1>8, <1>s

LEMMA StatusProbeStep ==
  ASSUME LeaseInvariant, NEW t \in Threads, StatusProbe(t)
  PROVE  LeaseInvariant'
<1> USE ProcOfAssumption, MaxDepthAssumption, NoneAssumption
<1> USE DEF LeaseInvariant, StatusProbe, Goto, Forget
<1>1. TypeOK'
  <2>1. rlock' \in [Procs -> [owner : Threads \cup {None}, count : Nat]]
    BY DEF TypeOK
  <2>2. kernel' \in Threads \cup {None} /\ abrupt' \in BOOLEAN
    BY DEF TypeOK
  <2>3. handle' \in [Procs -> Threads \cup {None}]
    BY DEF TypeOK
  <2>4. depth' \in [Threads -> 0..MaxDepth]
    BY DEF TypeOK, DepthAt, RLockBalanced, Acquiring
  <2>5. meta' \in Meta
    BY DEF TypeOK
  <2>6. pc' \in [Threads -> PCs] /\ seen' \in [Threads -> Statuses]
    BY DEF TypeOK, PCs, Statuses
  <2>7. QED
    BY <2>1, <2>2, <2>3, <2>4, <2>5, <2>6 DEF TypeOK
<1>2. KernelOwner'
  BY DEF TypeOK, KernelOwner, HasKernel, Holds, DepthAt, RLockBalanced, Acquiring
<1>3. DepthAt'
  BY DEF TypeOK, DepthAt, KernelOwner, HasKernel, Holds, RLockBalanced, Acquiring
<1>4. RLockBalanced'
  BY DEF TypeOK, RLockBalanced, RLockSane, Acquiring, DepthAt
<1>s. RLockSane'
  BY DEF TypeOK, RLockBalanced, RLockSane, Acquiring, DepthAt
<1>5. HandleOfHolder'
  BY DEF TypeOK, HandleOfHolder, RLockBalanced, Acquiring, DepthAt
<1>6. MetadataNamesHolder'
  BY DEF TypeOK, MetadataNamesHolder, Holds, KernelOwner, HasKernel, DepthAt
<1>7. SeenIsCurrent'
  BY DEF TypeOK, SeenIsCurrent, KernelOwner, HasKernel, Holds, DepthAt
<1>8. EvidenceOnDisk'
  BY DEF TypeOK, EvidenceOnDisk, Settled, Holds, KernelOwner, HasKernel, DepthAt,
         MetadataNamesHolder
<1>9. QED
  BY <1>1, <1>2, <1>3, <1>4, <1>5, <1>6, <1>7, <1>8, <1>s

LEMMA StatusUnlockStep ==
  ASSUME LeaseInvariant, NEW t \in Threads, StatusUnlock(t)
  PROVE  LeaseInvariant'
<1> USE ProcOfAssumption, MaxDepthAssumption, NoneAssumption
<1> USE DEF LeaseInvariant, StatusUnlock, Goto, Forget
<1>1. TypeOK'
  BY DEF TypeOK, PCs, Meta, Statuses, RLockBalanced, Acquiring, DepthAt
<1>2. KernelOwner'
  BY DEF TypeOK, KernelOwner, HasKernel, Holds, DepthAt, RLockBalanced, Acquiring
<1>3. DepthAt'
  BY DEF TypeOK, DepthAt, KernelOwner, HasKernel, Holds, RLockBalanced, Acquiring
<1>4. RLockBalanced'
  BY DEF TypeOK, RLockBalanced, RLockSane, Acquiring, DepthAt
<1>s. RLockSane'
  BY DEF TypeOK, RLockBalanced, RLockSane, Acquiring, DepthAt
<1>5. HandleOfHolder'
  BY DEF TypeOK, HandleOfHolder, RLockBalanced, Acquiring, DepthAt
<1>6. MetadataNamesHolder'
  BY DEF TypeOK, MetadataNamesHolder, Holds, KernelOwner, HasKernel, DepthAt
<1>7. SeenIsCurrent'
  BY DEF TypeOK, SeenIsCurrent, KernelOwner, HasKernel, Holds, DepthAt
<1>8. EvidenceOnDisk'
  BY DEF TypeOK, EvidenceOnDisk, Settled, Holds, KernelOwner, HasKernel, DepthAt,
         MetadataNamesHolder
<1>9. QED
  BY <1>1, <1>2, <1>3, <1>4, <1>5, <1>6, <1>7, <1>8, <1>s

LEMMA CrashStep ==
  ASSUME LeaseInvariant, NEW p \in Procs, Crash(p)
  PROVE  LeaseInvariant'
<1> USE ProcOfAssumption, MaxDepthAssumption, NoneAssumption
<1> USE DEF LeaseInvariant, Crash
<1>1. TypeOK'
  <2>1. rlock' \in [Procs -> [owner : Threads \cup {None}, count : Nat]]
    BY DEF TypeOK, Free
  <2>2. kernel' \in Threads \cup {None}
    BY DEF TypeOK
  <2>3. depth' \in [Threads -> 0..MaxDepth]
    BY DEF TypeOK
  <2>4. pc' \in [Threads -> PCs] /\ seen' \in [Threads -> Statuses]
    BY DEF TypeOK, PCs, Statuses
  <2>5. handle' \in [Procs -> Threads \cup {None}]
    BY DEF TypeOK
  <2>6. abrupt' \in BOOLEAN /\ meta' \in Meta
    BY DEF TypeOK
  <2>7. QED
    BY <2>1, <2>2, <2>3, <2>4, <2>5, <2>6 DEF TypeOK
<1>2. KernelOwner'
  BY DEF TypeOK, KernelOwner, HasKernel, Holds
<1>3. DepthAt'
  BY DEF TypeOK, DepthAt
<1>4. RLockBalanced'
  <2> SUFFICES ASSUME NEW u \in Threads
               PROVE  LET lock == rlock'[ProcOf[u]] IN
                      /\ lock.owner = u <=> depth'[u] > 0 \/ Acquiring(u)'
                      /\ lock.owner = u =>
                           lock.count = depth'[u] + (IF Acquiring(u)' THEN 1 ELSE 0)
    BY DEF RLockBalanced, Acquiring
  <2>1. CASE ProcOf[u] = p
    BY <2>1 DEF TypeOK, Free, Acquiring
  <2>2. CASE ProcOf[u] # p
    BY <2>2 DEF TypeOK, RLockBalanced, Acquiring
  <2>3. QED
    BY <2>1, <2>2
<1>5. RLockSane'
  BY DEF TypeOK, RLockSane, Free
<1>6. HandleOfHolder'
  BY DEF TypeOK, HandleOfHolder
<1>7. MetadataNamesHolder'
  BY DEF TypeOK, MetadataNamesHolder, Holds
<1>8. SeenIsCurrent'
  BY DEF TypeOK, SeenIsCurrent
<1>9. EvidenceOnDisk'
  <2>1. CASE Settled
    <3>1. Settled'
      BY <2>1 DEF Settled, Holds, TypeOK
    <3>2. QED
      BY <2>1, <3>1 DEF EvidenceOnDisk, TypeOK
  <2>2. CASE ~Settled
    <3>1. PICK t \in Threads : Holds(t) /\ pc[t] # "marked"
      BY <2>2 DEF Settled
    <3>2. /\ kernel = t /\ meta.status = "active" /\ ~abrupt
          /\ \A u \in Threads : Holds(u) => u = t
      BY <2>2, <3>1 DEF KernelOwner, HasKernel, MetadataNamesHolder, EvidenceOnDisk
    <3>3. CASE ProcOf[t] = p
      <4>1. abrupt'
        BY <3>1, <3>2, <3>3 DEF Holds
      <4>2. Settled'
        BY <3>2, <3>3 DEF Settled, Holds, TypeOK
      <4>3. QED
        BY <3>2, <4>1, <4>2 DEF EvidenceOnDisk
    <3>4. CASE ProcOf[t] # p
      <4>1. ~abrupt'
        BY <3>2, <3>4
      <4>2. ~Settled'
        BY <3>1, <3>4 DEF Settled, Holds, TypeOK
      <4>3. QED
        BY <4>1, <4>2 DEF EvidenceOnDisk
    <3>5. QED
      BY <3>3, <3>4
  <2>3. QED
    BY <2>1, <2>2
<1>10. QED
  BY <1>1, <1>2, <1>3, <1>4, <1>5, <1>6, <1>7, <1>8, <1>9

-----------------------------------------------------------------------------
\* The invariant holds at the start and along every step.
LEMMA LeaseInit == Init => LeaseInvariant
<1> USE ProcOfAssumption, MaxDepthAssumption, NoneAssumption
<1> SUFFICES ASSUME Init PROVE LeaseInvariant
  OBVIOUS
<1>1. TypeOK
  <2>1. NoMeta \in Meta /\ Free \in [owner : Threads \cup {None}, count : Nat]
    BY DEF NoMeta, Meta, Statuses, Free
  <2>2. rlock \in [Procs -> [owner : Threads \cup {None}, count : Nat]]
    BY <2>1 DEF Init
  <2>3. meta \in Meta
    BY <2>1 DEF Init
  <2>4. depth \in [Threads -> 0..MaxDepth]
    BY DEF Init
  <2>5. QED
    BY <2>2, <2>3, <2>4 DEF Init, TypeOK, Statuses, PCs
<1>2. KernelOwner /\ DepthAt /\ RLockBalanced /\ RLockSane /\ HandleOfHolder
  BY DEF Init, KernelOwner, HasKernel, Holds, DepthAt, RLockBalanced, RLockSane,
         Acquiring, Free, HandleOfHolder
<1>3. MetadataNamesHolder /\ SeenIsCurrent /\ EvidenceOnDisk
  BY DEF Init, MetadataNamesHolder, Holds, SeenIsCurrent, EvidenceOnDisk,
         Settled, NoMeta
<1>4. QED
  BY <1>1, <1>2, <1>3 DEF LeaseInvariant

LEMMA LeaseStutter == LeaseInvariant /\ UNCHANGED vars => LeaseInvariant'
BY DEF vars, LeaseInvariant, TypeOK, KernelOwner, HasKernel, Holds, DepthAt,
       RLockBalanced, RLockSane, Acquiring, HandleOfHolder, MetadataNamesHolder,
       SeenIsCurrent, EvidenceOnDisk, Settled

LEMMA LeaseNext == LeaseInvariant /\ [Next]_vars => LeaseInvariant'
<1> SUFFICES ASSUME LeaseInvariant, [Next]_vars PROVE LeaseInvariant'
  OBVIOUS
<1>1. ASSUME NEW t \in Threads, Call(t) PROVE LeaseInvariant'
  BY <1>1, BeginAcquireStep, ReleaseNestedStep, MarkReleasedStep, StatusReadStep
     DEF Call
<1>2. ASSUME NEW t \in Threads, Continue(t) PROVE LeaseInvariant'
  BY <1>2, TakeThreadLockStep, ThreadLockTimeoutStep, TryLockStep,
     PollDeadlineStep, ReadPreviousStep, WriteOwnerStep, WriteOwnerFailsStep,
     UnlockStep, FinishReleaseStep, StatusProbeStep, StatusUnlockStep
     DEF Continue
<1>3. ASSUME NEW p \in Procs, Crash(p) PROVE LeaseInvariant'
  BY <1>3, CrashStep
<1>4. CASE UNCHANGED vars
  BY <1>4, LeaseStutter
<1>5. QED
  BY <1>1, <1>2, <1>3, <1>4 DEF Next

(* For any processes, threads and nesting bound: the file lock, the RLocks, *)
(* the shared handles, the depths and the metadata file of coordination.py  *)
(* agree at every step of every call, crash and failed write included.      *)
THEOREM LeaseInvariantHolds == Spec => []LeaseInvariant
<1>1. Init => LeaseInvariant
  BY LeaseInit
<1>2. LeaseInvariant /\ [Next]_vars => LeaseInvariant'
  BY LeaseNext
<1>3. QED
  BY <1>1, <1>2, PTL DEF Spec

(* hold() excludes: two threads, of one process or of two, are never inside *)
(* the lease together.                                                      *)
THEOREM LeaseExcludes == Spec => []MutualExclusion
<1>1. LeaseInvariant => MutualExclusion
  BY DEF LeaseInvariant, KernelOwner, HasKernel, MutualExclusion
<1>2. QED
  BY <1>1, LeaseInvariantHolds, PTL

(* recovered_from in a new owner record is exact: it appears if and only if *)
(* the previous record never got its release marker.                        *)
THEOREM EvidenceIsExact == Spec => []RecoveryEvidenceExact
<1>1. LeaseInvariant => RecoveryEvidenceExact
  <2> SUFFICES ASSUME LeaseInvariant, NEW t \in Threads, pc[t] = "read"
               PROVE  seen[t] = "active" <=> abrupt
    BY DEF RecoveryEvidenceExact
  <2>1. Settled
    BY DEF LeaseInvariant, KernelOwner, HasKernel, DepthAt, Settled, Holds
  <2>2. QED
    BY <2>1 DEF LeaseInvariant, EvidenceOnDisk, SeenIsCurrent
<1>2. QED
  BY <1>1, LeaseInvariantHolds, PTL

-----------------------------------------------------------------------------
(* The refinement of AbstractLease.                                         *)

\* The abstract owner is the thread the concrete state says is inside.
LEMMA OwnerIsHolder ==
  ASSUME MutualExclusion
  PROVE  /\ \A t \in Threads : Holds(t) => LeaseOwner = t
         /\ (\A t \in Threads : ~Holds(t)) => LeaseOwner = None
BY DEF MutualExclusion, LeaseOwner

LEMMA SameHolders ==
  ASSUME \A t \in Threads : Holds(t)' <=> Holds(t),
         MutualExclusion, MutualExclusion'
  PROVE  LeaseOwner' = LeaseOwner
BY DEF MutualExclusion, LeaseOwner

Invisible(t) == \/ BeginAcquire(t) \/ TakeThreadLock(t) \/ ThreadLockTimeout(t)
                \/ TryLock(t) \/ PollDeadline(t) \/ ReadPrevious(t)
                \/ ReleaseNested(t) \/ FinishRelease(t)
                \/ StatusRead(t) \/ StatusProbe(t) \/ StatusUnlock(t)

LEMMA InvisibleSteps ==
  ASSUME LeaseInvariant, MutualExclusion, MutualExclusion',
         NEW t \in Threads, Invisible(t)
  PROVE  UNCHANGED <<LeaseOwner, LeaseOwner = None /\ abrupt, meta.recovered>>
<1>1. UNCHANGED <<abrupt, meta>>
  BY DEF Invisible, BeginAcquire, TakeThreadLock, ThreadLockTimeout, TryLock,
         PollDeadline, ReadPrevious, ReleaseNested, FinishRelease, StatusRead,
         StatusProbe, StatusUnlock
<1>2. ASSUME NEW u \in Threads PROVE Holds(u)' <=> Holds(u)
  <2> USE DEF LeaseInvariant, TypeOK, DepthAt, Holds, Goto
  <2>1. CASE BeginAcquire(t)
    BY <2>1 DEF BeginAcquire
  <2>2. CASE TakeThreadLock(t)
    BY <2>2 DEF TakeThreadLock
  <2>3. CASE ThreadLockTimeout(t)
    BY <2>3 DEF ThreadLockTimeout
  <2>4. CASE TryLock(t) \/ PollDeadline(t) \/ ReadPrevious(t)
    BY <2>4 DEF TryLock, PollDeadline, ReadPrevious
  <2>5. CASE ReleaseNested(t)
    BY <2>5 DEF ReleaseNested
  <2>6. CASE FinishRelease(t)
    BY <2>6 DEF FinishRelease
  <2>7. CASE StatusRead(t) \/ StatusProbe(t) \/ StatusUnlock(t)
    BY <2>7 DEF StatusRead, StatusProbe, StatusUnlock
  <2>8. QED
    BY <2>1, <2>2, <2>3, <2>4, <2>5, <2>6, <2>7 DEF Invisible
<1>3. LeaseOwner' = LeaseOwner
  BY <1>2, SameHolders
<1>4. QED
  BY <1>1, <1>3

LEMMA NoHolderBesides ==
  ASSUME LeaseInvariant, NEW t \in Threads, kernel = t, NEW u \in Threads,
         Holds(u)
  PROVE  u = t
BY DEF LeaseInvariant, KernelOwner, HasKernel

(* Every step is a step of AbstractLease or leaves its state alone.         *)
LEMMA LeaseStepRefines ==
  ASSUME LeaseInvariant, LeaseInvariant', MutualExclusion, MutualExclusion',
         [Next]_vars
  PROVE  [Abstract!ANext]_(Abstract!avars)
<1> USE NoneAssumption
<1> USE DEF Abstract!ANext, Abstract!avars
<1>1. ASSUME NEW t \in Threads, Invisible(t)
      PROVE  [Abstract!ANext]_(Abstract!avars)
  BY <1>1, InvisibleSteps
<1>2. ASSUME NEW t \in Threads, WriteOwner(t)
      PROVE  [Abstract!ANext]_(Abstract!avars)
  <2>1. LeaseOwner = None /\ Settled
    BY <1>2, NoHolderBesides, OwnerIsHolder
       DEF WriteOwner, LeaseInvariant, KernelOwner, HasKernel, DepthAt, Holds,
           Settled
  <2>2. LeaseOwner' = t
    <3>1. Holds(t)'
      BY <1>2 DEF WriteOwner, Goto, Holds, LeaseInvariant, TypeOK
    <3>2. QED
      BY <3>1 DEF MutualExclusion, LeaseOwner
  <2>3. meta'.recovered <=> abrupt
    BY <1>2, <2>1 DEF WriteOwner, OwnerRecord, LeaseInvariant, SeenIsCurrent,
                      EvidenceOnDisk
  <2>4. meta'.recovered \in BOOLEAN /\ abrupt \in BOOLEAN
    BY <1>2 DEF WriteOwner, OwnerRecord, LeaseInvariant, TypeOK
  <2>5. Abstract!Grant(t)
    <3>1. meta'.recovered = (LeaseOwner = None /\ abrupt)
      BY <2>1, <2>3, <2>4
    <3>2. (LeaseOwner' = None /\ abrupt') = FALSE
      BY <2>2
    <3>3. QED
      BY <2>1, <2>2, <3>1, <3>2 DEF Abstract!Grant
  <2>6. QED
    BY <2>5
<1>3. ASSUME NEW t \in Threads, WriteOwnerFails(t)
      PROVE  [Abstract!ANext]_(Abstract!avars)
  <2>1. LeaseOwner = None /\ Settled
    BY <1>3, NoHolderBesides, OwnerIsHolder
       DEF WriteOwnerFails, LeaseInvariant, KernelOwner, HasKernel, DepthAt,
           Holds, Settled
  <2>2. LeaseOwner' = LeaseOwner
    <3>1. ASSUME NEW u \in Threads PROVE Holds(u)' <=> Holds(u)
      BY <1>3 DEF WriteOwnerFails, Goto, Holds, LeaseInvariant, TypeOK, DepthAt
    <3>2. QED
      BY <3>1, SameHolders
  <2>3. CASE UNCHANGED <<meta, abrupt>>
    BY <2>2, <2>3
  <2>4. CASE meta' = OwnerRecord(t) /\ abrupt' = TRUE
    <3>1. meta'.recovered <=> abrupt
      BY <1>3, <2>1, <2>4
         DEF WriteOwnerFails, OwnerRecord, LeaseInvariant, SeenIsCurrent,
             EvidenceOnDisk
    <3>2. meta'.recovered \in BOOLEAN /\ abrupt \in BOOLEAN
      BY <2>4 DEF OwnerRecord, LeaseInvariant, TypeOK
    <3>3. meta'.recovered = (LeaseOwner = None /\ abrupt)
      BY <2>1, <3>1, <3>2
    <3>4. (LeaseOwner' = None /\ abrupt') = TRUE
      BY <2>1, <2>2, <2>4
    <3>5. Abstract!AbortGrant
      BY <2>1, <2>2, <3>3, <3>4 DEF Abstract!AbortGrant
    <3>6. QED
      BY <3>5
  <2>5. QED
    BY <1>3, <2>3, <2>4 DEF WriteOwnerFails
<1>4. ASSUME NEW t \in Threads, MarkReleased(t)
      PROVE  [Abstract!ANext]_(Abstract!avars)
  <2>1. LeaseOwner = t
    BY <1>4, OwnerIsHolder DEF MarkReleased, Holds
  <2>2. LeaseOwner' = t
    <3>1. Holds(t)'
      BY <1>4 DEF MarkReleased, Goto, Holds, LeaseInvariant, TypeOK
    <3>2. QED
      BY <3>1 DEF MutualExclusion, LeaseOwner
  <2>3. meta'.recovered = meta.recovered
    BY <1>4 DEF MarkReleased, ReleaseRecord, LeaseInvariant, TypeOK, Meta
  <2>4. QED
    BY <2>1, <2>2, <2>3
<1>5. ASSUME NEW t \in Threads, Unlock(t)
      PROVE  [Abstract!ANext]_(Abstract!avars)
  <2>1. LeaseOwner = t
    BY <1>5, OwnerIsHolder DEF Unlock, Holds, LeaseInvariant, DepthAt
  <2>2. LeaseOwner' = None
    <3>1. \A u \in Threads : ~Holds(u)'
      BY <1>5 DEF Unlock, Holds, LeaseInvariant, KernelOwner, HasKernel
    <3>2. QED
      BY <3>1 DEF LeaseOwner
  <2>3. Abstract!Drop
    BY <1>5, <2>1, <2>2 DEF Abstract!Drop, Unlock
  <2>4. QED
    BY <2>3
<1>6. ASSUME NEW p \in Procs, Crash(p)
      PROVE  [Abstract!ANext]_(Abstract!avars)
  <2>1. ASSUME NEW u \in Threads
        PROVE  Holds(u)' <=> Holds(u) /\ ProcOf[u] # p
    BY <1>6 DEF Crash, Holds, LeaseInvariant, TypeOK
  <2>2. CASE \E t \in Threads : Holds(t) /\ ProcOf[t] = p
    <3>1. PICK t \in Threads : Holds(t) /\ ProcOf[t] = p
      BY <2>2
    <3>2. LeaseOwner = t
      BY <3>1, OwnerIsHolder
    <3>3. LeaseOwner' = None
      <4>1. \A u \in Threads : ~Holds(u)'
        BY <2>1, <3>1 DEF MutualExclusion
      <4>2. QED
        BY <4>1 DEF LeaseOwner
    <3>4. Abstract!Drop
      BY <1>6, <3>2, <3>3 DEF Abstract!Drop, Crash
    <3>5. QED
      BY <3>4
  <2>3. CASE \A t \in Threads : Holds(t) => ProcOf[t] # p
    <3>1. LeaseOwner' = LeaseOwner
      BY <2>1, <2>3, SameHolders
    <3>2. abrupt' <=> abrupt
      <4>1. ASSUME NEW t \in Threads, ProcOf[t] = p, depth[t] > 0, kernel = t
            PROVE  FALSE
        BY <2>3, <4>1 DEF LeaseInvariant, KernelOwner, HasKernel, DepthAt, Holds
      <4>2. QED
        BY <1>6, <4>1 DEF Crash
    <3>3. (LeaseOwner' = None /\ abrupt') = (LeaseOwner = None /\ abrupt)
      BY <3>1, <3>2
    <3>4. meta' = meta
      BY <1>6 DEF Crash
    <3>5. QED
      BY <3>1, <3>3, <3>4
  <2>4. QED
    BY <2>2, <2>3
<1>7. CASE UNCHANGED vars
  BY <1>7, SameHolders DEF vars, Holds
<1>8. QED
  BY <1>1, <1>2, <1>3, <1>4, <1>5, <1>6, <1>7
     DEF Next, Call, Continue, Invisible

LEMMA LeaseInitRefines == Init => Abstract!AInit
BY NoneAssumption DEF Init, Abstract!AInit, LeaseOwner, Holds, NoMeta

(* FileLease implements AbstractLease: for its callers it is a lock that is *)
(* granted, dropped or lost, with exact crash evidence on every grant.      *)
THEOREM LeaseRefines == Spec => ImplementsLease
<1>1. Init => Abstract!AInit
  BY LeaseInitRefines
<1>2. /\ LeaseInvariant /\ LeaseInvariant'
      /\ MutualExclusion /\ MutualExclusion' /\ [Next]_vars
      => [Abstract!ANext]_(Abstract!avars)
  BY LeaseStepRefines
<1>3. QED
  BY <1>1, <1>2, LeaseInvariantHolds, LeaseExcludes, PTL
     DEF Spec, ImplementsLease, Abstract!ASpec
=============================================================================
