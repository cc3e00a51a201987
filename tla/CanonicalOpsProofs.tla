------------------------- MODULE CanonicalOpsProofs -------------------------
(***************************************************************************)
(* Proofs about CanonicalOps, for any number of processes, tasks and       *)
(* operations and any failures: the ledger's outcomes are true, a commit   *)
(* the StateStore does not know of keeps its operation open, canonical     *)
(* changes exclude each other, AbstractLedger is implemented, a patch left *)
(* in the work tree belongs to an open operation, and an outcome stands    *)
(* but for the stale write that opens a complete operation again.          *)
(*                                                                         *)
(* For one command at a time (OneCommand), when the journal takes what is  *)
(* written to it, no task is run again after its commit.                   *)
(*                                                                         *)
(* The invariant is LedgerInvariant.  What one process does to the ledger, *)
(* the branch and the history is summed up in Disturbs(p); OthersKept      *)
(* shows once that no other process loses what it relies on, and each      *)
(* action's lemma only looks at the process that takes it.                 *)
(***************************************************************************)
EXTENDS CanonicalOps, FiniteSetTheorems, TLAPS

\* The types in the form the provers work with.
Records == UNION {[ops -> Recorded] : ops \in SUBSET Ops}

Command ==
    [pc: Points, task: Tasks \cup {None}, op: Ops \cup {None}, ok: BOOLEAN,
     commit: Hashes, todo: Records, item: Ops \cup {None},
     step: {"look", "judge", "write", "finish"}, blocked: BOOLEAN]

Typed ==
    /\ log \in Seq(Ops \cup {Outside})
    /\ tree \subseteq Ops \cup {Litter}
    /\ ledger \in Records
    /\ queue \in [Tasks -> Entry]
    /\ history \in Seq(RunRow)
    /\ lease \in Procs \cup {None}
    /\ proc \in [Procs -> Command]

IInv == Typed /\ LedgerInvariant

\* What a step of p may do to the rest of the system.
LeaseMoves(p) == lease' = lease \/ ({lease, lease'} \subseteq {p, None})

Disturbs(p) ==
    /\ LeaseMoves(p)
    /\ \A q \in Procs \ {p} : proc'[q] = proc[q]
    /\ DOMAIN ledger \subseteq DOMAIN ledger'
    /\ DOMAIN ledger' \subseteq DOMAIN ledger \cup {proc[p].op}
    /\ KnownRuns \subseteq KnownRuns'
    /\ KnownRuns' \subseteq KnownRuns \cup {proc[p].op} \cup CommittedOps
    /\ CommittedOps \subseteq CommittedOps'
    /\ CommittedOps' \subseteq CommittedOps \cup {proc[p].op}
    /\ OpenOps \subseteq OpenOps' \cup KnownRuns \cup {proc[p].op}
    /\ OpenOps' \subseteq OpenOps \cup KnownRuns
                            \cup (IF lease = p THEN {proc[p].op} ELSE {})

-----------------------------------------------------------------------------
LEMMA RecordsType ==
  /\ \A r \in Records : r \in [DOMAIN r -> Recorded] /\ DOMAIN r \subseteq Ops
  /\ \A S \in SUBSET Ops : [S -> Recorded] \subseteq Records
BY DEF Records

LEMMA TypedOps ==
  ASSUME Typed
  PROVE  /\ DOMAIN ledger \subseteq Ops
         /\ OpenOps \subseteq DOMAIN ledger
         /\ CommittedOps \subseteq Ops
         /\ KnownRuns \subseteq Ops
<1>1. DOMAIN ledger \subseteq Ops
  BY RecordsType DEF Typed
<1>2. OpenOps \subseteq DOMAIN ledger /\ CommittedOps \subseteq Ops
  BY DEF OpenOps, CommittedOps
<1>3. KnownRuns \subseteq Ops
  <2> SUFFICES ASSUME NEW i \in DOMAIN history, history[i].run # None
               PROVE  history[i].run \in Ops
    BY DEF KnownRuns
  <2>1. history[i] \in RunRow
    BY DEF Typed
  <2>2. QED
    BY <2>1 DEF RunRow
<1>4. QED
  BY <1>1, <1>2, <1>3

LEMMA RowsKnown ==
  ASSUME Typed, NEW o \in Ops
  PROVE  RowsOf(o) = {} <=> o \notin KnownRuns
BY NamesDiffer DEF Typed, RowsOf, KnownRuns

LEMMA OthersKept ==
  ASSUME IInv, Typed', NEW p \in Procs, Disturbs(p)
  PROVE  \A q \in Procs \ {p} : ProcessAt(q)'
<1> SUFFICES ASSUME NEW q \in Procs \ {p} PROVE ProcessAt(q)'
  OBVIOUS
<1>0. /\ proc'[q] = proc[q]
      /\ ProcessAt(q)
      /\ proc[q].op # None => proc[q].op # proc[p].op
      /\ None \notin Ops /\ None \notin Procs
  BY NamesDiffer DEF IInv, LedgerInvariant, Disturbs, OwnOperations
<1>t. OpenOps \subseteq DOMAIN ledger /\ DOMAIN ledger \subseteq Ops
  BY TypedOps DEF IInv
<1>1. HoldsLease(q)'
  BY <1>0 DEF Disturbs, LeaseMoves, ProcessAt, HoldsLease
<1>2. HasTask(q)'
  BY <1>0 DEF ProcessAt, HasTask
<1>3. OperationAt(q)'
  <2>1. proc[q].pc \in {"work", "checking", "intent"} =>
          proc[q].op \notin DOMAIN ledger' \cup KnownRuns'
    BY <1>0, <1>t DEF Disturbs, ProcessAt, OperationAt, IInv, LedgerInvariant, CommitsAreIntended
  <2>2. proc[q].pc \in Begun \cup {"reverted"} =>
          proc[q].op \in OpenOps' \ (KnownRuns' \cup CommittedOps')
    BY <1>0, <1>t DEF Disturbs, ProcessAt, OperationAt, Begun
  <2>3. QED
    BY <1>0, <1>t, <2>1, <2>2 DEF Disturbs, ProcessAt, OperationAt
<1>4. ItemAt(q)'
  BY <1>0 DEF Disturbs, ProcessAt, ItemAt, InHand
<1>5. OthersRecorded(q)'
  <2> SUFFICES ASSUME proc[q].pc \in {"checking", "intent"} \cup Begun
               PROVE  OthersRecorded(q)'
    BY <1>0 DEF OthersRecorded
  <2>1. lease # p
    BY <1>0 DEF ProcessAt, HoldsLease, UnderLease, Begun
  <2>2. OpenOps' \subseteq OpenOps \cup KnownRuns
    BY <2>1 DEF Disturbs
  <2>3. QED
    BY <1>0, <2>2 DEF Disturbs, ProcessAt, OthersRecorded
<1>6. QED
  BY <1>1, <1>2, <1>3, <1>4, <1>5 DEF ProcessAt

-----------------------------------------------------------------------------
\* What changes when one record of the ledger does.
LEMMA RecordChanged ==
  ASSUME Typed, NEW o \in DOMAIN ledger, NEW rec \in Recorded,
         ledger' = [ledger EXCEPT ![o] = rec]
  PROVE  /\ ledger' \in Records
         /\ DOMAIN ledger' = DOMAIN ledger
         /\ ledger'[o] = rec
         /\ \A q \in DOMAIN ledger \ {o} : ledger'[q] = ledger[q]
         /\ OpenOps' = IF rec.outcome = "open" THEN OpenOps \cup {o}
                                              ELSE OpenOps \ {o}
<1>1. ledger \in [DOMAIN ledger -> Recorded] /\ DOMAIN ledger \in SUBSET Ops
  BY RecordsType DEF Typed
<1>2. ledger' \in [DOMAIN ledger -> Recorded]
  BY <1>1
<1>3. ledger' \in Records
  BY <1>1, <1>2, RecordsType
<1>4. /\ DOMAIN ledger' = DOMAIN ledger
      /\ ledger'[o] = rec
      /\ \A q \in DOMAIN ledger \ {o} : ledger'[q] = ledger[q]
  BY <1>1
<1>5. QED
  BY <1>3, <1>4 DEF OpenOps

LEMMA BecomeEffect ==
  ASSUME Typed, NEW p \in Procs, NEW l \in Command, Become(p, l)
  PROVE  /\ proc' \in [Procs -> Command]
         /\ proc'[p] = l
         /\ \A q \in Procs \ {p} : proc'[q] = proc[q]
BY DEF Typed, Become

LEMMA IdleType == Idle \in Command
<1>1. NoRecords \in Records
  BY RecordsType DEF NoRecords
<1>2. QED
  BY <1>1 DEF Idle, Command, Points, Reconciling, UnderLease, Hashes

LEMMA GotoEffect ==
  ASSUME Typed, NEW p \in Procs, NEW pc \in Points, Goto(p, pc)
  PROVE  /\ proc' \in [Procs -> Command]
         /\ proc'[p] = [proc[p] EXCEPT !.pc = pc]
         /\ proc'[p].pc = pc
         /\ proc'[p].task = proc[p].task
         /\ proc'[p].op = proc[p].op
         /\ proc'[p].commit = proc[p].commit
         /\ proc'[p].todo = proc[p].todo
         /\ proc'[p].item = proc[p].item
         /\ proc'[p].step = proc[p].step
         /\ proc'[p].blocked = proc[p].blocked
         /\ \A q \in Procs \ {p} : proc'[q] = proc[q]
<1>1. proc[p] \in Command
  BY DEF Typed
<1>2. [proc[p] EXCEPT !.pc = pc] \in Command
  BY <1>1 DEF Command
<1>3. proc' \in [Procs -> Command]
      /\ proc'[p] = [proc[p] EXCEPT !.pc = pc]
      /\ \A q \in Procs \ {p} : proc'[q] = proc[q]
  BY <1>2, BecomeEffect DEF Goto
<1>4. QED
  BY <1>1, <1>3 DEF Command

LEMMA SnapshotType ==
  ASSUME Typed, NEW ops \in SUBSET OpenOps
  PROVE  /\ Snapshot(ops) \in Records
         /\ DOMAIN Snapshot(ops) = ops
         /\ \A o \in ops : Snapshot(ops)[o] = ledger[o]
<1>1. ops \subseteq DOMAIN ledger /\ ops \subseteq Ops
  BY TypedOps
<1>2. ledger \in [DOMAIN ledger -> Recorded]
  BY RecordsType DEF Typed
<1>3. Snapshot(ops) \in [ops -> Recorded]
  BY <1>1, <1>2 DEF Snapshot
<1>4. QED
  BY <1>1, <1>3, RecordsType DEF Snapshot

LEMMA ReconcileEffect ==
  ASSUME Typed, NEW p \in Procs, NEW pc \in Points, NEW ops, ops \subseteq OpenOps,
         Reconcile(p, pc, ops)
  PROVE  /\ proc' \in [Procs -> Command]
         /\ proc'[p].pc = pc
         /\ proc'[p].task = proc[p].task
         /\ proc'[p].op = proc[p].op
         /\ DOMAIN proc'[p].todo = ops
         /\ \A o \in ops : proc'[p].todo[o] = ledger[o]
         /\ \A o \in ops : proc'[p].todo[o].outcome = "open"
         /\ proc'[p].item = None
         /\ proc'[p].blocked = FALSE
         /\ \A q \in Procs \ {p} : proc'[q] = proc[q]
<1> DEFINE l == [proc[p] EXCEPT !.pc = pc, !.todo = Snapshot(ops), !.item = None,
                                !.step = "look", !.blocked = FALSE]
<1>1. proc[p] \in Command
  BY DEF Typed
<1>2. Snapshot(ops) \in Records
  BY SnapshotType
<1>3. /\ l \in Command
      /\ l.pc = pc /\ l.task = proc[p].task /\ l.op = proc[p].op
      /\ l.todo = Snapshot(ops) /\ l.item = None /\ l.blocked = FALSE
  BY <1>1, <1>2 DEF Command
<1>4. Become(p, l)
  BY DEF Reconcile
<1> HIDE DEF l
<1>5. /\ proc' \in [Procs -> Command]
      /\ proc'[p] = l
      /\ \A q \in Procs \ {p} : proc'[q] = proc[q]
  BY <1>3, <1>4, BecomeEffect
<1>6. \A o \in ops : Snapshot(ops)[o].outcome = "open"
  BY SnapshotType DEF OpenOps
<1>7. QED
  BY <1>3, <1>5, <1>6, SnapshotType

LEMMA NextItemEffect ==
  ASSUME Typed, NEW p \in Procs, NEW blocked \in BOOLEAN, NextItem(p, blocked)
  PROVE  /\ proc' \in [Procs -> Command]
         /\ proc'[p].pc = proc[p].pc
         /\ proc'[p].task = proc[p].task
         /\ proc'[p].op = proc[p].op
         /\ DOMAIN proc'[p].todo = DOMAIN proc[p].todo \ {proc[p].item}
         /\ \A o \in DOMAIN proc'[p].todo : proc'[p].todo[o] = proc[p].todo[o]
         /\ proc'[p].item = None
         /\ proc'[p].blocked = (proc[p].blocked \/ blocked)
         /\ \A q \in Procs \ {p} : proc'[q] = proc[q]
<1> DEFINE kept == Dropped(proc[p])
           l == [proc[p] EXCEPT !.todo = kept, !.item = None, !.step = "look",
                                !.blocked = proc[p].blocked \/ blocked]
<1>1. proc[p] \in Command
  BY DEF Typed
<1>2. /\ proc[p].todo \in [DOMAIN proc[p].todo -> Recorded]
      /\ DOMAIN proc[p].todo \subseteq Ops
  BY <1>1, RecordsType DEF Command
<1>3. /\ DOMAIN kept = DOMAIN proc[p].todo \ {proc[p].item}
      /\ \A o \in DOMAIN kept : kept[o] = proc[p].todo[o]
  BY DEF Dropped
<1>4. kept \in [DOMAIN proc[p].todo \ {proc[p].item} -> Recorded]
  BY <1>2 DEF Dropped
<1>5. kept \in Records
  BY <1>2, <1>4, RecordsType
<1>6. Become(p, l)
  BY DEF NextItem
<1> HIDE DEF kept
<1>7. /\ l \in Command
      /\ l.pc = proc[p].pc /\ l.task = proc[p].task /\ l.op = proc[p].op
      /\ l.todo = kept /\ l.item = None /\ l.blocked = (proc[p].blocked \/ blocked)
  BY <1>1, <1>5 DEF Command
<1> HIDE DEF l
<1>8. /\ proc' \in [Procs -> Command]
      /\ proc'[p] = l
      /\ \A q \in Procs \ {p} : proc'[q] = proc[q]
  BY <1>6, <1>7, BecomeEffect
<1>9. QED
  BY <1>3, <1>7, <1>8

-----------------------------------------------------------------------------
\* What a process keeps of the ledger is still there.
SnapshotFiled(p) ==
    /\ DOMAIN proc[p].todo \subseteq DOMAIN ledger
    /\ proc[p].item \in DOMAIN proc[p].todo \cup {None}

LEMMA TypesImply ==
  ASSUME Typed, \A p \in Procs : SnapshotFiled(p)
  PROVE  TypeOK
<1>1. RecordsOK(ledger)
  BY RecordsType DEF Typed, RecordsOK
<1>2. ASSUME NEW p \in Procs
      PROVE  CommandOK(proc[p])
  <2>1. proc[p] \in Command
    BY DEF Typed
  <2>2. RecordsOK(proc[p].todo)
    BY <2>1, RecordsType DEF Command, RecordsOK
  <2>3. QED
    BY <2>1, <2>2 DEF Command, CommandOK, SnapshotFiled
<1>3. QED
  BY <1>1, <1>2 DEF Typed, TypeOK

LEMMA TypesImplyNext ==
  ASSUME Typed', \A p \in Procs : SnapshotFiled(p)'
  PROVE  TypeOK'
<1>1. RecordsOK(ledger)'
  BY RecordsType DEF Typed, RecordsOK
<1>2. ASSUME NEW p \in Procs
      PROVE  CommandOK(proc[p])'
  <2>1. proc'[p] \in Command
    BY DEF Typed
  <2>2. RecordsOK(proc[p].todo)'
    BY <2>1, RecordsType DEF Command, RecordsOK
  <2>3. QED
    BY <2>1, <2>2 DEF Command, CommandOK, SnapshotFiled
<1>3. QED
  BY <1>1, <1>2 DEF Typed, TypeOK

LEMMA FiledOf ==
  ASSUME IInv, NEW p \in Procs
  PROVE  SnapshotFiled(p)
BY DEF IInv, LedgerInvariant, TypeOK, CommandOK, SnapshotFiled

\* A step of p keeps the invariant when it keeps p's own part of it.
LEMMA StepKeeps ==
  ASSUME IInv, NEW p \in Procs, Typed', Disturbs(p),
         OutcomesAreTrue', OneRowPerRun', CommitsAreIntended',
         \/ proc'[p].op \in {proc[p].op, None}
         \/ proc'[p].op \notin UsedOps,
         SnapshotFiled(p)', ProcessAt(p)'
  PROVE  IInv'
<1>1. \A q \in Procs : ProcessAt(q)'
  BY OthersKept
<1>2. ASSUME NEW q \in Procs
      PROVE  SnapshotFiled(q)'
  BY FiledOf DEF Disturbs, SnapshotFiled
<1>3. TypeOK'
  BY <1>2, TypesImplyNext
<1>4. OwnOperations'
  BY DEF IInv, LedgerInvariant, OwnOperations, Disturbs, UsedOps
<1>5. QED
  BY <1>1, <1>3, <1>4 DEF IInv, LedgerInvariant

\* A step that writes neither the branch, nor the ledger, nor the history.
LEMMA QuietStep ==
  ASSUME IInv, NEW p \in Procs, UNCHANGED <<log, ledger, history>>, Typed',
         LeaseMoves(p), \A q \in Procs \ {p} : proc'[q] = proc[q],
         \/ proc'[p].op \in {proc[p].op, None}
         \/ proc'[p].op \notin UsedOps,
         SnapshotFiled(p)', ProcessAt(p)'
  PROVE  IInv'
<1>1. KnownRuns' = KnownRuns /\ OpenOps' = OpenOps /\ CommittedOps' = CommittedOps
  BY DEF KnownRuns, OpenOps, CommittedOps
<1>2. Disturbs(p)
  BY <1>1 DEF Disturbs
<1>3. OutcomesAreTrue' /\ OneRowPerRun' /\ CommitsAreIntended'
  BY <1>1 DEF IInv, LedgerInvariant, OutcomesAreTrue, OneRowPerRun,
              CommitsAreIntended, RowsOf
<1>4. QED
  BY <1>2, <1>3, StepKeeps

-----------------------------------------------------------------------------
\* The ways out of a command: it ends, it fails, its reconciliation raises.
LEMMA LeaveStep ==
  ASSUME IInv, NEW p \in Procs, Leave(p), UNCHANGED <<log, ledger, history>>,
         tree' \subseteq Ops \cup {Litter}, queue' \in [Tasks -> Entry]
  PROVE  IInv'
<1>1. /\ proc' \in [Procs -> Command]
      /\ proc'[p] = Idle
      /\ \A q \in Procs \ {p} : proc'[q] = proc[q]
  BY IdleType, BecomeEffect DEF Leave, IInv
<1>2. LeaseMoves(p) /\ lease' \in Procs \cup {None}
  BY DEF Leave, Release, LeaseMoves, IInv, Typed
<1>3. Typed'
  BY <1>1, <1>2 DEF IInv, Typed
<1>4. SnapshotFiled(p)'
  BY <1>1 DEF SnapshotFiled, Idle, NoRecords
<1>5. ProcessAt(p)'
  BY <1>1 DEF ProcessAt, HoldsLease, HasTask, OperationAt, ItemAt, OthersRecorded,
              InHand, RunPoints, UnderLease, Reconciling, Begun, Idle, NoRecords
<1>6. proc'[p].op = None
  BY <1>1 DEF Idle
<1>7. QED
  BY <1>1, <1>2, <1>3, <1>4, <1>5, <1>6, QuietStep

LEMMA RaiseStep ==
  ASSUME IInv, NEW p \in Procs, proc[p].pc \in RunPoints, Raise(p),
         UNCHANGED <<log, ledger, history>>,
         tree' \subseteq Ops \cup {Litter}, queue' \in [Tasks -> Entry]
  PROVE  IInv'
<1>0. Typed /\ "failing" \in Points
  BY DEF IInv, Points, Reconciling
<1>1. /\ proc' \in [Procs -> Command]
      /\ proc'[p].pc = "failing"
      /\ proc'[p].task = proc[p].task
      /\ proc'[p].op = proc[p].op
      /\ DOMAIN proc'[p].todo = OpenOps
      /\ \A o \in OpenOps : proc'[p].todo[o].outcome = "open"
      /\ proc'[p].item = None
      /\ \A q \in Procs \ {p} : proc'[q] = proc[q]
  BY <1>0, ReconcileEffect DEF Raise
<1>2. LeaseMoves(p) /\ lease' \in Procs \cup {None}
  BY DEF Raise, Release, LeaseMoves, IInv, Typed
<1>3. Typed'
  BY <1>1, <1>2 DEF IInv, Typed
<1>4. SnapshotFiled(p)'
  BY <1>0, <1>1, TypedOps DEF SnapshotFiled
<1>5. proc[p].task \in Tasks
  BY DEF IInv, LedgerInvariant, ProcessAt, HasTask
<1>6. ProcessAt(p)'
  BY <1>1, <1>5 DEF ProcessAt, HoldsLease, HasTask, OperationAt, ItemAt, OthersRecorded,
              InHand, UnderLease, Begun
<1>7. QED
  BY <1>1, <1>2, <1>3, <1>4, <1>6, QuietStep

LEMMA ReconcileRaisesStep ==
  ASSUME IInv, NEW p \in Procs, ReconcileRaises(p), UNCHANGED <<log, ledger, history>>,
         tree' \subseteq Ops \cup {Litter}, queue' \in [Tasks -> Entry]
  PROVE  IInv'
<1>1. CASE proc[p].pc = "checking"
  BY <1>1, RaiseStep DEF ReconcileRaises, RunPoints, Points, Reconciling
<1>2. CASE proc[p].pc # "checking"
  BY <1>2, LeaveStep DEF ReconcileRaises
<1>3. QED
  BY <1>1, <1>2

LEMMA UnchangedTypes ==
  ASSUME IInv
  PROVE  /\ UNCHANGED tree => tree' \subseteq Ops \cup {Litter}
         /\ UNCHANGED queue => queue' \in [Tasks -> Entry]
BY DEF IInv, Typed

\* A step to another point of the run, and the end of its canonical part.
LEMMA GotoStep ==
  ASSUME IInv, NEW p \in Procs, NEW pc \in Points \ Reconciling, Goto(p, pc),
         UNCHANGED <<log, ledger, history>>, lease' = lease \/ Release(p),
         tree' \subseteq Ops \cup {Litter}, queue' \in [Tasks -> Entry],
         HoldsLease(p)', HasTask(p)', OperationAt(p)', OthersRecorded(p)'
  PROVE  IInv'
<1>0. Typed
  BY DEF IInv
<1>1. /\ proc' \in [Procs -> Command]
      /\ proc'[p].pc = pc
      /\ proc'[p].op = proc[p].op
      /\ proc'[p].todo = proc[p].todo
      /\ proc'[p].item = proc[p].item
      /\ \A q \in Procs \ {p} : proc'[q] = proc[q]
  BY <1>0, GotoEffect
<1>2. LeaseMoves(p) /\ lease' \in Procs \cup {None}
  BY DEF Release, LeaseMoves, IInv, Typed
<1>3. Typed'
  BY <1>1, <1>2 DEF IInv, Typed
<1>4. SnapshotFiled(p)'
  BY <1>1, FiledOf DEF SnapshotFiled
<1>5. ItemAt(p)'
  BY <1>1 DEF IInv, LedgerInvariant, ProcessAt, ItemAt, InHand
<1>6. QED
  BY <1>1, <1>2, <1>3, <1>4, <1>5, QuietStep DEF ProcessAt

LEMMA ReturnEffect ==
  ASSUME Typed, NEW p \in Procs, NEW ok \in BOOLEAN, NEW hash \in Hashes,
         Return(p, ok, hash)
  PROVE  /\ proc' \in [Procs -> Command]
         /\ proc'[p].pc = "record"
         /\ proc'[p].ok = ok
         /\ proc'[p].task = proc[p].task
         /\ proc'[p].op = proc[p].op
         /\ proc'[p].todo = proc[p].todo
         /\ proc'[p].item = proc[p].item
         /\ \A q \in Procs \ {p} : proc'[q] = proc[q]
<1> DEFINE l == [proc[p] EXCEPT !.pc = "record", !.ok = ok, !.commit = hash]
<1>1. proc[p] \in Command /\ "record" \in Points
  BY DEF Typed, Points
<1>2. l \in Command
  BY <1>1 DEF Command
<1>3. /\ l.pc = "record" /\ l.task = proc[p].task /\ l.op = proc[p].op
      /\ l.ok = ok /\ l.todo = proc[p].todo /\ l.item = proc[p].item
  BY <1>1 DEF Command
<1>4. Become(p, l)
  BY DEF Return
<1> HIDE DEF l
<1>5. QED
  BY <1>2, <1>3, <1>4, BecomeEffect

LEMMA ReturnStep ==
  ASSUME IInv, NEW p \in Procs, NEW ok \in BOOLEAN, NEW hash \in Hashes,
         Return(p, ok, hash), UNCHANGED <<log, tree, ledger, queue, history>>,
         proc[p].op \in Ops, proc[p].task \in Tasks
  PROVE  IInv'
<1>0. Typed
  BY DEF IInv
<1>1. /\ proc' \in [Procs -> Command]
      /\ proc'[p].pc = "record"
      /\ proc'[p].task = proc[p].task
      /\ proc'[p].op = proc[p].op
      /\ proc'[p].todo = proc[p].todo
      /\ proc'[p].item = proc[p].item
      /\ \A q \in Procs \ {p} : proc'[q] = proc[q]
  BY <1>0, ReturnEffect
<1>2. LeaseMoves(p) /\ lease' \in Procs \cup {None}
  BY DEF Return, Release, LeaseMoves, IInv, Typed
<1>3. Typed'
  BY <1>1, <1>2 DEF IInv, Typed
<1>4. SnapshotFiled(p)'
  BY <1>1, FiledOf DEF SnapshotFiled
<1>5. ProcessAt(p)'
  <2>1. ItemAt(p)'
    BY <1>1 DEF IInv, LedgerInvariant, ProcessAt, ItemAt, InHand, Reconciling
  <2>2. HoldsLease(p)' /\ HasTask(p)' /\ OperationAt(p)' /\ OthersRecorded(p)'
    BY <1>1 DEF HoldsLease, HasTask, OperationAt, OthersRecorded, UnderLease,
                Begun
  <2>3. QED
    BY <2>1, <2>2 DEF ProcessAt
<1>6. QED
  BY <1>1, <1>2, <1>3, <1>4, <1>5, QuietStep

-----------------------------------------------------------------------------
\* The steps that only move a process, take or give up the lease, change the
\* worktree or put a task back.
LEMMA TakeItemStep ==
  ASSUME IInv, NEW p \in Procs, TakeItem(p)
  PROVE  IInv'
<1>0. Typed /\ SnapshotFiled(p) /\ ProcessAt(p)
  BY FiledOf DEF IInv, LedgerInvariant
<1>1. PICK o \in DOMAIN proc[p].todo :
         Become(p, [proc[p] EXCEPT !.item = o, !.step = "look"])
  BY DEF TakeItem
<1> DEFINE l == [proc[p] EXCEPT !.item = o, !.step = "look"]
<1>2. proc[p] \in Command /\ o \in Ops
  BY <1>0, TypedOps DEF Typed, SnapshotFiled
<1>3. /\ l \in Command
      /\ l.pc = proc[p].pc /\ l.task = proc[p].task /\ l.op = proc[p].op
      /\ l.todo = proc[p].todo /\ l.item = o /\ l.step = "look"
      /\ l.blocked = proc[p].blocked
  BY <1>2 DEF Command
<1>4. Become(p, l)
  BY <1>1
<1> HIDE DEF l
<1>5. /\ proc' \in [Procs -> Command]
      /\ proc'[p] = l
      /\ \A q \in Procs \ {p} : proc'[q] = proc[q]
  BY <1>0, <1>3, <1>4, BecomeEffect
<1>6. UNCHANGED <<log, tree, ledger, queue, history, lease>>
  BY DEF TakeItem
<1>7. Typed' /\ LeaseMoves(p)
  BY <1>5, <1>6, <1>0 DEF Typed, LeaseMoves
<1>8. SnapshotFiled(p)'
  BY <1>0, <1>3, <1>5, <1>6 DEF SnapshotFiled
<1>9. ProcessAt(p)'
  <2>1. HoldsLease(p)' /\ HasTask(p)'
    BY <1>0, <1>3, <1>5, <1>6 DEF ProcessAt, HoldsLease, HasTask
  <2>2. /\ OpenOps' = OpenOps /\ KnownRuns' = KnownRuns
        /\ CommittedOps' = CommittedOps
    BY <1>6 DEF OpenOps, KnownRuns, CommittedOps
  <2>3. OperationAt(p)'
    BY <1>0, <1>3, <1>5, <1>6, <2>2 DEF ProcessAt, OperationAt
  <2>4. ItemAt(p)'
    BY <1>0, <1>3, <1>5, <1>6, <2>2 DEF ProcessAt, ItemAt, InHand
  <2>5. OthersRecorded(p)'
    BY <1>0, <1>3, <1>5, <1>6, <2>2 DEF ProcessAt, OthersRecorded
  <2>6. QED
    BY <2>1, <2>3, <2>4, <2>5 DEF ProcessAt
<1>10. QED
  BY <1>3, <1>5, <1>6, <1>7, <1>8, <1>9, QuietStep

LEMMA LockedReconcileStep ==
  ASSUME IInv, NEW p \in Procs, NEW pc,
         pc \in {"startup", "resolving", "checking"},
         NEW ops, ops \subseteq OpenOps, lease = None, lease' = p, Reconcile(p, pc, ops),
         pc = "checking" => proc[p].pc = "work" /\ ops = OpenOps,
         UNCHANGED <<log, tree, ledger, queue, history>>
  PROVE  IInv'
<1>0. Typed /\ ProcessAt(p) /\ pc \in Points
  BY DEF IInv, LedgerInvariant, Points, Reconciling
<1>1. /\ proc' \in [Procs -> Command]
      /\ proc'[p].pc = pc
      /\ proc'[p].task = proc[p].task
      /\ proc'[p].op = proc[p].op
      /\ DOMAIN proc'[p].todo = ops
      /\ \A o \in ops : proc'[p].todo[o].outcome = "open"
      /\ proc'[p].item = None
      /\ \A q \in Procs \ {p} : proc'[q] = proc[q]
  <2>1. ops \subseteq OpenOps /\ Reconcile(p, pc, ops) /\ pc \in Points /\ Typed
    BY <1>0
  <2>2. QED
    BY <2>1, ReconcileEffect
<1>2. LeaseMoves(p) /\ Typed'
  BY <1>1 DEF LeaseMoves, IInv, Typed
<1>3. SnapshotFiled(p)'
  BY <1>0, <1>1, TypedOps DEF SnapshotFiled
<1>4. /\ OpenOps' = OpenOps /\ KnownRuns' = KnownRuns
      /\ CommittedOps' = CommittedOps
  BY DEF OpenOps, KnownRuns, CommittedOps
<1>5. ProcessAt(p)'
  <2>1. HoldsLease(p)'
    BY DEF HoldsLease
  <2>2. HasTask(p)' /\ OperationAt(p)'
    BY <1>0, <1>1, <1>4 DEF ProcessAt, HasTask, OperationAt, RunPoints, Points,
                            Reconciling, UnderLease, Begun
  <2>3. ItemAt(p)' /\ OthersRecorded(p)'
    BY <1>1, <1>4 DEF ItemAt, InHand, OthersRecorded, Begun
  <2>4. QED
    BY <2>1, <2>2, <2>3 DEF ProcessAt
<1>6. QED
  BY <1>1, <1>2, <1>3, <1>5, QuietStep

LEMMA StartupStep ==
  ASSUME IInv, NEW p \in Procs, Startup(p)
  PROVE  IInv'
BY LockedReconcileStep DEF Startup

LEMMA ResolveStep ==
  ASSUME IInv, NEW p \in Procs, Resolve(p)
  PROVE  IInv'
<1>1. PICK o \in OpenOps : Reconcile(p, "resolving", {o})
  BY DEF Resolve
<1>2. QED
  BY <1>1, LockedReconcileStep DEF Resolve

LEMMA EnterStep ==
  ASSUME IInv, NEW p \in Procs, Enter(p)
  PROVE  IInv'
BY LockedReconcileStep DEF Enter

LEMMA ReconcileEndsStep ==
  ASSUME IInv, NEW p \in Procs, ReconcileEnds(p)
  PROVE  IInv'
<1>0. /\ Typed /\ ProcessAt(p)
      /\ UNCHANGED <<log, tree, ledger, queue, history>>
      /\ proc[p].pc \in Reconciling /\ proc[p].item = None
      /\ DOMAIN proc[p].todo = {}
  BY DEF IInv, LedgerInvariant, ReconcileEnds
<1>t. /\ tree' \subseteq Ops \cup {Litter} /\ queue' \in [Tasks -> Entry]
      /\ {"claim", "fail", "intent"} \subseteq Points \ Reconciling
  BY <1>0, UnchangedTypes DEF Points, Reconciling, UnderLease
<1>k. /\ OpenOps' = OpenOps /\ KnownRuns' = KnownRuns
      /\ CommittedOps' = CommittedOps
  BY <1>0 DEF OpenOps, KnownRuns, CommittedOps
<1>1. CASE Leave(p)
  BY <1>0, <1>1, <1>t, LeaveStep
<1>2. CASE proc[p].pc = "startup" /\ Goto(p, "claim") /\ Release(p)
  <2>1. /\ proc'[p].pc = "claim"
    BY <1>0, <1>2, <1>t, GotoEffect
  <2>2. HoldsLease(p)' /\ HasTask(p)' /\ OperationAt(p)' /\ OthersRecorded(p)'
    BY <2>1 DEF HoldsLease, HasTask, OperationAt, OthersRecorded, UnderLease,
                RunPoints, Begun
  <2>3. QED
    BY <1>0, <1>2, <1>t, <2>2, GotoStep
<1>3. CASE proc[p].pc = "failing" /\ Goto(p, "fail") /\ UNCHANGED lease
  <2>1. proc'[p].pc = "fail" /\ proc'[p].task = proc[p].task
    BY <1>0, <1>3, <1>t, GotoEffect
  <2>2. HasTask(p)'
    BY <1>0, <1>3, <2>1 DEF ProcessAt, HasTask, RunPoints, Points, Reconciling
  <2>3. HoldsLease(p)' /\ OperationAt(p)' /\ OthersRecorded(p)'
    BY <2>1 DEF HoldsLease, OperationAt, OthersRecorded, UnderLease, Begun
  <2>4. QED
    BY <1>0, <1>3, <1>t, <2>2, <2>3, GotoStep
<1>4. CASE proc[p].pc = "checking" /\ Raise(p)
  BY <1>0, <1>4, <1>t, RaiseStep DEF RunPoints, Points, Reconciling
<1>5. CASE /\ proc[p].pc = "checking" /\ ~proc[p].blocked
           /\ Goto(p, "intent") /\ UNCHANGED lease
  <2>1. /\ proc'[p].pc = "intent" /\ proc'[p].task = proc[p].task
        /\ proc'[p].op = proc[p].op
    BY <1>0, <1>5, <1>t, GotoEffect
  <2>2. HoldsLease(p)'
    BY <1>0, <1>5 DEF ProcessAt, HoldsLease, UnderLease
  <2>3. HasTask(p)'
    BY <1>0, <1>5, <2>1 DEF ProcessAt, HasTask, RunPoints, Points, Reconciling
  <2>4. OperationAt(p)'
    BY <1>0, <1>5, <1>k, <2>1 DEF ProcessAt, OperationAt, Begun
  <2>5. OthersRecorded(p)'
    BY <1>0, <1>5, <1>k, <2>1 DEF ProcessAt, OthersRecorded
  <2>6. QED
    BY <1>0, <1>5, <1>t, <2>2, <2>3, <2>4, <2>5, GotoStep
<1>6. QED
  BY <1>1, <1>2, <1>3, <1>4, <1>5 DEF ReconcileEnds

LEMMA ClaimStep ==
  ASSUME IInv, NEW p \in Procs, Claim(p)
  PROVE  IInv'
<1>0. Typed
  BY DEF IInv
<1>1. PICK t \in Tasks, o \in Ops \ UsedOps :
        /\ queue' = [queue EXCEPT ![t] = [status |-> "running", last |-> None,
                                          attempts |-> queue[t].attempts + 1]]
        /\ Become(p, [Idle EXCEPT !.pc = "work", !.task = t, !.op = o])
  BY DEF Claim
<1>2. UNCHANGED <<log, tree, ledger, history, lease>>
  BY DEF Claim
<1> DEFINE l == [Idle EXCEPT !.pc = "work", !.task = t, !.op = o]
<1>3. l \in Command
  <2>1. Idle \in Command /\ "work" \in Points
    BY IdleType DEF Points
  <2>2. QED
    BY <2>1 DEF Command
<1>4. /\ l.pc = "work" /\ l.task = t /\ l.op = o /\ l.todo = NoRecords
      /\ l.item = None
  BY DEF Idle
<1>5. Become(p, l)
  BY <1>1
<1> HIDE DEF l
<1>6. /\ proc' \in [Procs -> Command]
      /\ proc'[p] = l
      /\ \A q \in Procs \ {p} : proc'[q] = proc[q]
  BY <1>0, <1>3, <1>5, BecomeEffect
<1>7. queue' \in [Tasks -> Entry]
  BY <1>0, <1>1 DEF Typed, Entry, Statuses, Hashes
<1>8. Typed' /\ LeaseMoves(p)
  BY <1>0, <1>2, <1>6, <1>7 DEF Typed, LeaseMoves
<1>9. SnapshotFiled(p)'
  BY <1>4, <1>6 DEF SnapshotFiled, NoRecords
<1>10. ProcessAt(p)'
  <2>1. o \notin DOMAIN ledger \cup KnownRuns
    BY DEF UsedOps, KnownRuns
  <2>2. KnownRuns' = KnownRuns
    BY <1>2 DEF KnownRuns
  <2>3. OperationAt(p)'
    BY <1>2, <1>4, <1>6, <2>1, <2>2 DEF OperationAt, Begun
  <2>4. HoldsLease(p)' /\ HasTask(p)' /\ ItemAt(p)' /\ OthersRecorded(p)'
    BY <1>4, <1>6 DEF HoldsLease, HasTask, ItemAt, InHand, OthersRecorded,
                      UnderLease, Begun, NoRecords
  <2>5. QED
    BY <2>3, <2>4 DEF ProcessAt
<1>11. QED
  BY <1>2, <1>4, <1>6, <1>8, <1>9, <1>10, QuietStep

LEMMA NothingToClaimStep ==
  ASSUME IInv, NEW p \in Procs, NothingToClaim(p)
  PROVE  IInv'
BY LeaveStep, UnchangedTypes DEF NothingToClaim

LEMMA PutBackType ==
  ASSUME Typed, NEW t, PutBack(t)
  PROVE  queue' \in [Tasks -> Entry]
BY DEF Typed, PutBack, Entry, Statuses

LEMMA WorkRaisesStep ==
  ASSUME IInv, NEW p \in Procs, WorkRaises(p)
  PROVE  IInv'
BY RaiseStep, UnchangedTypes DEF WorkRaises, RunPoints, Points

LEMMA WorkFailsStep ==
  ASSUME IInv, NEW p \in Procs, WorkFails(p)
  PROVE  IInv'
<1>0. /\ Typed /\ ProcessAt(p) /\ "record" \in Points \ Reconciling
      /\ proc[p].pc = "work" /\ Goto(p, "record")
      /\ UNCHANGED <<log, tree, ledger, queue, history, lease>>
  BY DEF IInv, LedgerInvariant, WorkFails, Points, Reconciling, UnderLease
<1>1. /\ proc'[p].pc = "record" /\ proc'[p].task = proc[p].task
      /\ proc'[p].op = proc[p].op
  BY <1>0, GotoEffect
<1>2. HasTask(p)' /\ OperationAt(p)'
  BY <1>0, <1>1 DEF ProcessAt, HasTask, OperationAt, RunPoints, Points, Begun
<1>3. HoldsLease(p)' /\ OthersRecorded(p)'
  BY <1>1 DEF HoldsLease, OthersRecorded, UnderLease, Begun
<1>4. QED
  BY <1>0, <1>2, <1>3, GotoStep, UnchangedTypes

LEMMA WorkContendedStep ==
  ASSUME IInv, NEW p \in Procs, WorkContended(p)
  PROVE  IInv'
BY LeaveStep, UnchangedTypes, PutBackType DEF WorkContended, IInv

LEMMA PatchRefusedStep ==
  ASSUME IInv, NEW p \in Procs, PatchRefused(p)
  PROVE  IInv'
<1>1. proc[p].op \in Ops /\ proc[p].task \in Tasks
  BY DEF IInv, LedgerInvariant, PatchRefused, ProcessAt, HasTask, OperationAt,
         RunPoints, Points, UnderLease
<1>2. FALSE \in BOOLEAN /\ None \in Hashes
  BY DEF Hashes
<1>3. QED
  BY <1>1, <1>2, ReturnStep DEF PatchRefused

LEMMA ApplyPatchStep ==
  ASSUME IInv, NEW p \in Procs, ApplyPatch(p)
  PROVE  IInv'
<1>0. /\ Typed /\ ProcessAt(p) /\ "applied" \in Points \ Reconciling
      /\ proc[p].pc = "begun" /\ proc[p].pc \in RunPoints
      /\ UNCHANGED <<log, ledger, queue, history>>
  BY DEF IInv, LedgerInvariant, ApplyPatch, Points, Reconciling, UnderLease, RunPoints
<1>t. queue' \in [Tasks -> Entry] /\ (UNCHANGED tree => tree' \subseteq Ops \cup {Litter})
  BY <1>0, UnchangedTypes
<1>1. CASE Raise(p) /\ UNCHANGED tree
  BY <1>0, <1>1, <1>t, RaiseStep
<1>2. CASE tree' = tree \cup {proc[p].op} /\ Goto(p, "applied") /\ UNCHANGED lease
  <2>1. /\ proc'[p].pc = "applied" /\ proc'[p].task = proc[p].task
        /\ proc'[p].op = proc[p].op
    BY <1>0, <1>2, GotoEffect
  <2>2. /\ OpenOps' = OpenOps /\ KnownRuns' = KnownRuns
        /\ CommittedOps' = CommittedOps
    BY <1>0 DEF OpenOps, KnownRuns, CommittedOps
  <2>3. HoldsLease(p)' /\ HasTask(p)'
    BY <1>0, <1>2, <2>1 DEF ProcessAt, HoldsLease, HasTask, UnderLease, RunPoints, Points
  <2>4. OperationAt(p)' /\ OthersRecorded(p)'
    BY <1>0, <2>1, <2>2 DEF ProcessAt, OperationAt, OthersRecorded, Begun
  <2>5. tree' \subseteq Ops \cup {Litter}
    BY <1>0, <1>2, TypedOps DEF ProcessAt, OperationAt, Begun, Typed
  <2>6. QED
    BY <1>0, <1>t, <1>2, <2>3, <2>4, <2>5, GotoStep
<1>3. QED
  BY <1>1, <1>2 DEF ApplyPatch

LEMMA RunVerificationStep ==
  ASSUME IInv, NEW p \in Procs, RunVerification(p)
  PROVE  IInv'
<1>0. /\ Typed /\ ProcessAt(p) /\ "judged" \in Points \ Reconciling
      /\ proc[p].pc = "verify" /\ Goto(p, "judged")
      /\ UNCHANGED <<log, ledger, queue, history, lease>>
  BY DEF IInv, LedgerInvariant, RunVerification, Points, Reconciling, UnderLease
<1>1. /\ proc'[p].pc = "judged" /\ proc'[p].task = proc[p].task
      /\ proc'[p].op = proc[p].op
  BY <1>0, GotoEffect
<1>2. /\ OpenOps' = OpenOps /\ KnownRuns' = KnownRuns
      /\ CommittedOps' = CommittedOps
  BY <1>0 DEF OpenOps, KnownRuns, CommittedOps
<1>3. HoldsLease(p)' /\ HasTask(p)'
  BY <1>0, <1>1 DEF ProcessAt, HoldsLease, HasTask, UnderLease, RunPoints, Points
<1>4. OperationAt(p)' /\ OthersRecorded(p)'
  BY <1>0, <1>1, <1>2 DEF ProcessAt, OperationAt, OthersRecorded, Begun
<1>5. tree' \subseteq Ops \cup {Litter}
  BY <1>0 DEF RunVerification, Typed
<1>6. QED
  BY <1>0, <1>3, <1>4, <1>5, GotoStep, UnchangedTypes

LEMMA VerifyRejectsStep ==
  ASSUME IInv, NEW p \in Procs, VerifyRejects(p)
  PROVE  IInv'
<1>0. /\ Typed /\ ProcessAt(p) /\ "reverted" \in Points \ Reconciling
      /\ proc[p].pc = "judged" /\ proc[p].pc \in RunPoints
      /\ UNCHANGED <<log, ledger, queue, history>>
  BY DEF IInv, LedgerInvariant, VerifyRejects, Points, Reconciling, UnderLease, RunPoints
<1>t. queue' \in [Tasks -> Entry] /\ (UNCHANGED tree => tree' \subseteq Ops \cup {Litter})
  BY <1>0, UnchangedTypes
<1>1. CASE Raise(p) /\ UNCHANGED tree
  BY <1>0, <1>1, <1>t, RaiseStep
<1>2. CASE tree' = tree \ {proc[p].op} /\ Goto(p, "reverted") /\ UNCHANGED lease
  <2>1. /\ proc'[p].pc = "reverted" /\ proc'[p].task = proc[p].task
        /\ proc'[p].op = proc[p].op
    BY <1>0, <1>2, GotoEffect
  <2>2. /\ OpenOps' = OpenOps /\ KnownRuns' = KnownRuns
        /\ CommittedOps' = CommittedOps
    BY <1>0 DEF OpenOps, KnownRuns, CommittedOps
  <2>3. HoldsLease(p)' /\ HasTask(p)'
    BY <1>0, <1>2, <2>1 DEF ProcessAt, HoldsLease, HasTask, UnderLease, RunPoints, Points
  <2>4. OperationAt(p)' /\ OthersRecorded(p)'
    BY <1>0, <2>1, <2>2 DEF ProcessAt, OperationAt, OthersRecorded, Begun
  <2>5. tree' \subseteq Ops \cup {Litter}
    BY <1>2 DEF IInv, Typed
  <2>6. QED
    BY <1>0, <1>t, <1>2, <2>3, <2>4, <2>5, GotoStep
<1>3. QED
  BY <1>1, <1>2 DEF VerifyRejects

LEMMA RejectionToldStep ==
  ASSUME IInv, NEW p \in Procs, RejectionTold(p)
  PROVE  IInv'
<1>1. /\ proc[p].op \in Ops /\ proc[p].task \in Tasks /\ proc[p].pc \in RunPoints
  BY DEF IInv, LedgerInvariant, RejectionTold, ProcessAt, HasTask, OperationAt,
         RunPoints, Points, UnderLease
<1>2. FALSE \in BOOLEAN /\ None \in Hashes
  BY DEF Hashes
<1>3. CASE Return(p, FALSE, None)
  BY <1>1, <1>2, <1>3, ReturnStep DEF RejectionTold
<1>4. CASE Raise(p)
  BY <1>1, <1>4, RaiseStep, UnchangedTypes DEF RejectionTold
<1>5. QED
  BY <1>3, <1>4 DEF RejectionTold

LEMMA ResultReturnedStep ==
  ASSUME IInv, NEW p \in Procs, ResultReturned(p)
  PROVE  IInv'
<1>1. proc[p].op \in Ops /\ proc[p].task \in Tasks /\ proc[p].commit \in Hashes
  <2>1. Typed /\ proc[p] \in Command
    BY DEF IInv, Typed
  <2>2. QED
    BY <2>1, TypedOps DEF IInv, LedgerInvariant, ResultReturned, ProcessAt, HasTask,
         OperationAt, RunPoints, Points, UnderLease, Command
<1> DEFINE ok == proc[p].commit # None
<1>2. ok \in BOOLEAN
  OBVIOUS
<1>3. Return(p, ok, proc[p].commit) /\ UNCHANGED <<log, tree, ledger, queue, history>>
  BY DEF ResultReturned
<1> HIDE DEF ok
<1>4. QED
  BY <1>1, <1>2, <1>3, ReturnStep

LEMMA JournalContendedStep ==
  ASSUME IInv, NEW p \in Procs, JournalContended(p)
  PROVE  IInv'
BY LeaveStep, UnchangedTypes, PutBackType DEF JournalContended, IInv

LEMMA JournalRaisesStep ==
  ASSUME IInv, NEW p \in Procs, JournalRaises(p)
  PROVE  IInv'
<1>1. proc[p].pc \in RunPoints
  BY DEF JournalRaises, Journaling, RunPoints, Points, UnderLease
<1>2. QED
  BY <1>1, RaiseStep, UnchangedTypes DEF JournalRaises

LEMMA CrashStep ==
  ASSUME IInv, NEW p \in Procs, Crash(p)
  PROVE  IInv'
BY LeaveStep, UnchangedTypes DEF Crash

-----------------------------------------------------------------------------
\* The writes to the StateStore.
LEMMA QueueHalfType ==
  ASSUME Typed, NEW t, NEW ok, NEW hash \in Hashes, QueueHalf(t, ok, hash)
  PROVE  queue' \in [Tasks -> Entry]
BY DEF Typed, QueueHalf, ResultStatus, Entry, Statuses

LEMMA RowAppended ==
  ASSUME IInv, NEW row \in RunRow, history' = Append(history, row),
         row.run = None \/ row.run \notin KnownRuns
  PROVE  /\ history' \in Seq(RunRow)
         /\ KnownRuns' = KnownRuns \cup ({row.run} \ {None})
         /\ OneRowPerRun'
<1>1. history \in Seq(RunRow)
  BY DEF IInv, Typed
<1>2. /\ history' \in Seq(RunRow)
      /\ DOMAIN history' = DOMAIN history \cup {Len(history) + 1}
      /\ Len(history) + 1 \notin DOMAIN history
      /\ history'[Len(history) + 1] = row
      /\ \A i \in DOMAIN history : history'[i] = history[i]
  BY <1>1
<1>3. KnownRuns' = KnownRuns \cup ({row.run} \ {None})
  BY <1>2 DEF KnownRuns
<1>4. OneRowPerRun'
  <2> SUFFICES ASSUME NEW i \in DOMAIN history', NEW j \in DOMAIN history',
                      history'[i].run = history'[j].run, history'[i].run # None
               PROVE  i = j
    BY DEF OneRowPerRun
  <2>1. CASE i \in DOMAIN history /\ j \in DOMAIN history
    BY <1>2, <2>1 DEF IInv, LedgerInvariant, OneRowPerRun
  <2>2. CASE i = Len(history) + 1 /\ j \in DOMAIN history
    BY <1>2, <2>2 DEF KnownRuns
  <2>3. CASE i \in DOMAIN history /\ j = Len(history) + 1
    BY <1>2, <2>3 DEF KnownRuns
  <2>4. QED
    BY <1>2, <2>1, <2>2, <2>3
<1>5. QED
  BY <1>2, <1>3, <1>4

LEMMA RecordResultEffect ==
  ASSUME IInv, NEW o \in Ops, NEW t \in Tasks, NEW ok \in BOOLEAN, NEW hash \in Hashes,
         RecordResult(o, t, ok, hash)
  PROVE  /\ queue' \in [Tasks -> Entry]
         /\ history' \in Seq(RunRow)
         /\ KnownRuns' = KnownRuns \cup {o}
         /\ OneRowPerRun'
<1>0. Typed
  BY DEF IInv
<1>1. CASE RowsOf(o) # {}
  <2>1. UNCHANGED <<queue, history>>
    BY <1>1 DEF RecordResult, store
  <2>2. o \in KnownRuns /\ KnownRuns' = KnownRuns
    BY <1>0, <1>1, <2>1, RowsKnown DEF KnownRuns
  <2>3. QED
    BY <1>0, <2>1, <2>2 DEF Typed, IInv, LedgerInvariant, OneRowPerRun
<1>2. CASE RowsOf(o) = {}
  <2> DEFINE row == [run |-> o, task |-> t, ok |-> ok, commit |-> hash]
  <2>1. row \in RunRow /\ row.run = o
    BY DEF RunRow
  <2>2. history' = Append(history, row)
    BY <1>2 DEF RecordResult
  <2>3. o \notin KnownRuns /\ o # None
    BY <1>0, <1>2, RowsKnown, NamesDiffer
  <2>4. queue' \in [Tasks -> Entry]
    <3>1. CASE AlreadyQueued(t, ok, hash)
      BY <1>0, <1>2, <3>1 DEF RecordResult, Typed
    <3>2. CASE ~AlreadyQueued(t, ok, hash)
      BY <1>0, <1>2, <3>2, QueueHalfType DEF RecordResult
    <3>3. QED
      BY <3>1, <3>2
  <2> HIDE DEF row
  <2>5. QED
    BY <2>1, <2>2, <2>3, <2>4, RowAppended
<1>3. QED
  BY <1>1, <1>2

\* A history that only grows keeps the outcomes true.
LEMMA RowsKnownNext ==
  ASSUME Typed', NEW o \in Ops
  PROVE  (RowsOf(o) = {})' <=> o \notin KnownRuns'
BY NamesDiffer DEF Typed, RowsOf, KnownRuns

LEMMA OutcomesKept ==
  ASSUME IInv, Typed',
         \A o \in DOMAIN ledger' :
            /\ ledger'[o].outcome = "complete" => o \in KnownRuns'
            /\ ledger'[o].outcome \in {"reverted", "cancelled"} => o \notin CommittedOps'
  PROVE  OutcomesAreTrue'
<1>1. DOMAIN ledger' \subseteq Ops
  BY RecordsType DEF Typed
<1>2. QED
  BY <1>1, RowsKnownNext DEF OutcomesAreTrue

LEMMA OutcomesKnown ==
  ASSUME IInv, NEW o \in DOMAIN ledger
  PROVE  /\ ledger[o].outcome = "complete" => o \in KnownRuns
         /\ ledger[o].outcome \in {"reverted", "cancelled"} => o \notin CommittedOps
<1>1. Typed /\ o \in Ops
  BY TypedOps DEF IInv
<1>2. QED
  BY <1>1, RowsKnown DEF IInv, LedgerInvariant, OutcomesAreTrue

LEMMA CrashWhileRecordingStep ==
  ASSUME IInv, NEW p \in Procs, CrashWhileRecording(p)
  PROVE  IInv'
<1>0. Typed /\ proc[p] \in Command
  BY DEF IInv, Typed
<1>1. CASE RecordHalf(proc[p].op, proc[p].task, proc[p].ok, proc[p].commit)
  <2>1. proc[p].commit \in Hashes
    BY <1>0 DEF Command
  <2>2. UNCHANGED history /\ queue' \in [Tasks -> Entry]
    BY <1>0, <1>1, <2>1, QueueHalfType DEF RecordHalf
  <2>3. QED
    BY <2>2, LeaveStep, UnchangedTypes DEF CrashWhileRecording
<1>2. CASE InHand(p, "write") /\ RecordHalf(proc[p].item,
             proc[p].todo[proc[p].item].task, TRUE, Full(proc[p].item))
  <2>1. Full(proc[p].item) \in Hashes
    BY <1>0, <1>2 DEF Command, InHand, Full, Hashes
  <2>2. UNCHANGED history /\ queue' \in [Tasks -> Entry]
    BY <1>0, <1>2, <2>1, QueueHalfType DEF RecordHalf
  <2>3. QED
    BY <2>2, LeaveStep, UnchangedTypes DEF CrashWhileRecording
<1>3. CASE FailureQueued(proc[p].task) /\ UNCHANGED history
  <2>1. queue' \in [Tasks -> Entry]
    BY <1>0, <1>3 DEF Typed, FailureQueued, Entry, Statuses, Hashes
  <2>2. QED
    BY <1>3, <2>1, LeaveStep, UnchangedTypes DEF CrashWhileRecording
<1>4. QED
  BY <1>1, <1>2, <1>3 DEF CrashWhileRecording

LEMMA RecordStep ==
  ASSUME IInv, NEW p \in Procs, Record(p)
  PROVE  IInv'
<1>0. /\ Typed /\ ProcessAt(p) /\ proc[p] \in Command
      /\ proc[p].pc = "record" /\ UNCHANGED <<log, tree, ledger>>
  BY DEF IInv, LedgerInvariant, Typed, Record
<1>1. /\ proc[p].op \in Ops /\ proc[p].task \in Tasks
      /\ proc[p].ok \in BOOLEAN /\ proc[p].commit \in Hashes
  BY <1>0 DEF Command, ProcessAt, HasTask, OperationAt, RunPoints, Points
<1>2. CASE Leave(p) /\ UNCHANGED store
  BY <1>0, <1>2, LeaveStep, UnchangedTypes DEF store
<1>3. CASE /\ RecordResult(proc[p].op, proc[p].task, proc[p].ok, proc[p].commit)
           /\ IF proc[p].op \in DOMAIN ledger THEN Goto(p, "close") ELSE Become(p, Idle)
           /\ UNCHANGED lease
  <2>1. /\ queue' \in [Tasks -> Entry]
        /\ history' \in Seq(RunRow)
        /\ KnownRuns' = KnownRuns \cup {proc[p].op}
        /\ OneRowPerRun'
    BY <1>1, <1>3, RecordResultEffect
  <2>2. /\ proc' \in [Procs -> Command]
        /\ \A q \in Procs \ {p} : proc'[q] = proc[q]
        /\ \/ /\ proc[p].op \in DOMAIN ledger /\ proc'[p].pc = "close"
              /\ proc'[p].task = proc[p].task /\ proc'[p].op = proc[p].op
              /\ proc'[p].todo = proc[p].todo /\ proc'[p].item = proc[p].item
           \/ proc'[p] = Idle
    <3>1. CASE proc[p].op \in DOMAIN ledger /\ Goto(p, "close")
      BY <1>0, <3>1, GotoEffect DEF Points
    <3>2. CASE Become(p, Idle)
      BY <1>0, <3>2, IdleType, BecomeEffect
    <3>3. QED
      BY <1>3, <3>1, <3>2
  <2>3. Typed'
    BY <1>0, <1>3, <2>1, <2>2 DEF Typed
  <2>4. OpenOps' = OpenOps /\ CommittedOps' = CommittedOps
    BY <1>0 DEF OpenOps, CommittedOps
  <2>5. Disturbs(p)
    BY <1>0, <1>3, <2>1, <2>2, <2>4 DEF Disturbs, LeaseMoves
  <2>6. OutcomesAreTrue'
    BY <1>0, <2>1, <2>3, <2>4, OutcomesKept, OutcomesKnown
  <2>7. CommitsAreIntended'
    BY <1>0, <2>4 DEF IInv, LedgerInvariant, CommitsAreIntended
  <2>8. SnapshotFiled(p)'
    BY <1>0, <2>2, FiledOf DEF SnapshotFiled, Idle, NoRecords
  <2>9. ProcessAt(p)'
    <3>1. CASE proc'[p] = Idle
      BY <3>1 DEF ProcessAt, HoldsLease, HasTask, OperationAt, ItemAt, OthersRecorded,
              InHand, RunPoints, UnderLease, Reconciling, Begun, Idle, NoRecords
    <3>2. CASE proc'[p] # Idle
      <4>1. ItemAt(p)'
        BY <1>0, <2>2, <3>2 DEF ProcessAt, ItemAt, InHand, Reconciling
      <4>2. OperationAt(p)'
        BY <1>0, <2>1, <2>2, <3>2 DEF OperationAt, Begun
      <4>3. HoldsLease(p)' /\ HasTask(p)' /\ OthersRecorded(p)'
        BY <1>1, <2>2, <3>2 DEF HoldsLease, HasTask, OthersRecorded, UnderLease, Begun
      <4>4. QED
        BY <4>1, <4>2, <4>3 DEF ProcessAt
    <3>3. QED
      BY <3>1, <3>2
  <2>10. proc'[p].op \in {proc[p].op, None}
    BY <2>2 DEF Idle
  <2>11. QED
    BY <2>1, <2>3, <2>5, <2>6, <2>7, <2>8, <2>9, <2>10, StepKeeps
<1>4. QED
  BY <1>2, <1>3 DEF Record

\* What a process is at rest: nothing is left to keep for it.
LEMMA IdleKept ==
  ASSUME proc' \in [Procs -> Command], NEW p \in Procs, proc'[p] = Idle
  PROVE  SnapshotFiled(p)' /\ ProcessAt(p)' /\ proc'[p].op = None
BY DEF ProcessAt, HoldsLease, HasTask, OperationAt, ItemAt, OthersRecorded, SnapshotFiled,
       InHand, RunPoints, UnderLease, Reconciling, Begun, Idle, NoRecords

LEMMA CloseStep ==
  ASSUME IInv, NEW p \in Procs, Close(p)
  PROVE  IInv'
<1> DEFINE o == proc[p].op
           rec == [ledger[o] EXCEPT !.outcome = "complete"]
<1>0. /\ Typed /\ ProcessAt(p) /\ proc[p].pc = "close" /\ Leave(p)
      /\ UNCHANGED <<log, tree, queue, history>>
  BY DEF IInv, LedgerInvariant, Close
<1>1. o \in DOMAIN ledger /\ o \in KnownRuns
  BY <1>0 DEF ProcessAt, OperationAt
<1>2. CASE UNCHANGED ledger
  BY <1>0, <1>2, LeaveStep, UnchangedTypes
<1>3. CASE Phase(o, rec)
  <2>1. ledger[o] \in Recorded
    BY <1>0, <1>1, RecordsType DEF Typed
  <2>2. rec \in Recorded /\ rec.outcome = "complete"
    BY <2>1 DEF Recorded, Outcomes
  <2>3. ledger' = [ledger EXCEPT ![o] = rec]
    BY <1>3 DEF Phase
  <2> HIDE DEF rec
  <2>4. /\ ledger' \in Records
        /\ DOMAIN ledger' = DOMAIN ledger
        /\ ledger'[o] = rec
        /\ \A q \in DOMAIN ledger \ {o} : ledger'[q] = ledger[q]
        /\ OpenOps' = OpenOps \ {o}
    BY <1>0, <1>1, <2>2, <2>3, RecordChanged
  <2>5. /\ proc' \in [Procs -> Command]
        /\ proc'[p] = Idle
        /\ \A q \in Procs \ {p} : proc'[q] = proc[q]
    BY <1>0, IdleType, BecomeEffect DEF Leave
  <2>6. LeaseMoves(p) /\ lease' \in Procs \cup {None}
    BY <1>0 DEF Leave, Release, LeaseMoves, Typed
  <2>7. Typed'
    BY <1>0, <2>4, <2>5, <2>6 DEF Typed
  <2>8. KnownRuns' = KnownRuns /\ CommittedOps' = CommittedOps
    BY <1>0 DEF KnownRuns, CommittedOps
  <2>9. Disturbs(p)
    BY <2>4, <2>5, <2>6, <2>8 DEF Disturbs
  <2>10. OutcomesAreTrue'
    BY <1>1, <2>2, <2>4, <2>7, <2>8, OutcomesKept, OutcomesKnown
  <2>11. OneRowPerRun' /\ CommitsAreIntended'
    BY <1>0, <2>4, <2>8 DEF IInv, LedgerInvariant, OneRowPerRun, CommitsAreIntended
  <2>12. QED
    BY <2>5, <2>7, <2>9, <2>10, <2>11, IdleKept, StepKeeps
<1>4. QED
  BY <1>0, <1>2, <1>3 DEF Close

LEMMA RecordFailureStep ==
  ASSUME IInv, NEW p \in Procs, RecordFailure(p)
  PROVE  IInv'
<1> DEFINE row == [run |-> None, task |-> proc[p].task, ok |-> FALSE, commit |-> None]
<1>0. /\ Typed /\ ProcessAt(p) /\ proc[p].pc = "fail" /\ Leave(p)
      /\ FailureQueued(proc[p].task) /\ history' = Append(history, row)
      /\ UNCHANGED <<log, tree, ledger>>
  BY DEF IInv, LedgerInvariant, RecordFailure
<1>1. proc[p].task \in Tasks
  BY <1>0 DEF ProcessAt, HasTask, RunPoints, Points
<1>2. row \in RunRow /\ row.run = None
  BY <1>1 DEF RunRow, Hashes
<1> HIDE DEF row
<1>3. history' \in Seq(RunRow) /\ KnownRuns' = KnownRuns /\ OneRowPerRun'
  BY <1>0, <1>2, RowAppended
<1>4. queue' \in [Tasks -> Entry]
  BY <1>0 DEF Typed, FailureQueued, Entry, Statuses, Hashes
<1>5. /\ proc' \in [Procs -> Command]
      /\ proc'[p] = Idle
      /\ \A q \in Procs \ {p} : proc'[q] = proc[q]
  BY <1>0, IdleType, BecomeEffect DEF Leave
<1>6. LeaseMoves(p) /\ lease' \in Procs \cup {None}
  BY <1>0 DEF Leave, Release, LeaseMoves, Typed
<1>7. Typed'
  BY <1>0, <1>3, <1>4, <1>5, <1>6 DEF Typed
<1>8. OpenOps' = OpenOps /\ CommittedOps' = CommittedOps
  BY <1>0 DEF OpenOps, CommittedOps
<1>9. Disturbs(p)
  BY <1>0, <1>3, <1>5, <1>6, <1>8 DEF Disturbs
<1>10. OutcomesAreTrue'
  BY <1>0, <1>3, <1>7, <1>8, OutcomesKept, OutcomesKnown
<1>11. CommitsAreIntended'
  BY <1>0, <1>8 DEF IInv, LedgerInvariant, CommitsAreIntended
<1>12. QED
  BY <1>3, <1>5, <1>7, <1>9, <1>10, <1>11, IdleKept, StepKeeps

-----------------------------------------------------------------------------
\* A step that rewrites one ledger record and nothing of the branch or the
\* StateStore.
LEMMA RewriteStep ==
  ASSUME IInv, NEW p \in Procs, NEW o \in DOMAIN ledger, NEW rec \in Recorded,
         ledger' = [ledger EXCEPT ![o] = rec],
         UNCHANGED <<log, queue, history>>, tree' \subseteq Ops \cup {Litter},
         LeaseMoves(p), lease' \in Procs \cup {None},
         proc' \in [Procs -> Command], \A q \in Procs \ {p} : proc'[q] = proc[q],
         proc'[p].op = proc[p].op,
         rec.outcome = "complete" => o \in KnownRuns,
         rec.outcome \in {"reverted", "cancelled"} => o \notin CommittedOps,
         rec.outcome = "open" => o \in OpenOps \cup KnownRuns,
         rec.outcome # "open" => o \in KnownRuns \cup {proc[p].op},
         SnapshotFiled(p)', ProcessAt(p)'
  PROVE  IInv'
<1>1. /\ ledger' \in Records
      /\ DOMAIN ledger' = DOMAIN ledger
      /\ ledger'[o] = rec
      /\ \A q \in DOMAIN ledger \ {o} : ledger'[q] = ledger[q]
      /\ OpenOps' = IF rec.outcome = "open" THEN OpenOps \cup {o}
                                           ELSE OpenOps \ {o}
  BY RecordChanged DEF IInv
<1>2. Typed'
  BY <1>1 DEF IInv, Typed
<1>3. KnownRuns' = KnownRuns /\ CommittedOps' = CommittedOps
  BY DEF KnownRuns, CommittedOps
<1>4. Disturbs(p)
  BY <1>1, <1>3 DEF Disturbs
<1>5. OutcomesAreTrue'
  BY <1>1, <1>2, <1>3, OutcomesKept, OutcomesKnown
<1>6. OneRowPerRun' /\ CommitsAreIntended'
  BY <1>1, <1>3 DEF IInv, LedgerInvariant, OneRowPerRun, CommitsAreIntended
<1>7. QED
  BY <1>2, <1>4, <1>5, <1>6, StepKeeps

LEMMA NextItemKept ==
  ASSUME IInv, NEW p \in Procs, NEW blocked \in BOOLEAN, NextItem(p, blocked),
         proc[p].pc \in Reconciling, UNCHANGED <<log, history, lease>>,
         DOMAIN ledger' = DOMAIN ledger, OpenOps' \subseteq OpenOps \cup KnownRuns,
         blocked \/ proc[p].item \in KnownRuns
  PROVE  /\ proc' \in [Procs -> Command]
         /\ \A q \in Procs \ {p} : proc'[q] = proc[q]
         /\ proc'[p].op = proc[p].op
         /\ SnapshotFiled(p)'
         /\ ProcessAt(p)'
<1>0. Typed /\ ProcessAt(p) /\ SnapshotFiled(p)
  BY FiledOf DEF IInv, LedgerInvariant
<1>1. /\ proc' \in [Procs -> Command]
      /\ proc'[p].pc = proc[p].pc
      /\ proc'[p].task = proc[p].task
      /\ proc'[p].op = proc[p].op
      /\ DOMAIN proc'[p].todo = DOMAIN proc[p].todo \ {proc[p].item}
      /\ \A o \in DOMAIN proc'[p].todo : proc'[p].todo[o] = proc[p].todo[o]
      /\ proc'[p].item = None
      /\ proc'[p].blocked = (proc[p].blocked \/ blocked)
      /\ \A q \in Procs \ {p} : proc'[q] = proc[q]
  BY <1>0, NextItemEffect
<1>2. SnapshotFiled(p)'
  BY <1>0, <1>1 DEF SnapshotFiled
<1>3. KnownRuns' = KnownRuns /\ CommittedOps' = CommittedOps
  BY DEF KnownRuns, CommittedOps
<1>4. HoldsLease(p)' /\ HasTask(p)'
  BY <1>0, <1>1 DEF ProcessAt, HoldsLease, HasTask
<1>5. OperationAt(p)'
  BY <1>0, <1>1, <1>3 DEF ProcessAt, OperationAt, Reconciling, Begun
<1>6. ItemAt(p)'
  BY <1>0, <1>1 DEF ProcessAt, ItemAt, InHand
<1>7. OthersRecorded(p)'
  BY <1>0, <1>1, <1>3 DEF ProcessAt, OthersRecorded, Reconciling, Begun
<1>8. QED
  BY <1>1, <1>2, <1>4, <1>5, <1>6, <1>7 DEF ProcessAt

\* An item that stays as it is.
LEMMA SkipItemStep ==
  ASSUME IInv, NEW p \in Procs, NextItem(p, TRUE), proc[p].pc \in Reconciling,
         UNCHANGED <<log, tree, ledger, queue, history, lease>>
  PROVE  IInv'
<1>1. OpenOps' = OpenOps
  BY DEF OpenOps
<1>2. /\ proc' \in [Procs -> Command]
      /\ \A q \in Procs \ {p} : proc'[q] = proc[q]
      /\ proc'[p].op = proc[p].op
      /\ SnapshotFiled(p)'
      /\ ProcessAt(p)'
  BY <1>1, NextItemKept
<1>3. Typed' /\ LeaseMoves(p)
  BY <1>2 DEF IInv, Typed, LeaseMoves
<1>4. QED
  BY <1>2, <1>3, QuietStep

\* An item whose run is known is completed.
LEMMA CompleteItemStep ==
  ASSUME IInv, NEW p \in Procs, NextItem(p, FALSE), proc[p].pc \in Reconciling,
         proc[p].item # None, proc[p].item \in KnownRuns,
         ledger' = [ledger EXCEPT ![proc[p].item].outcome = "complete"],
         UNCHANGED <<log, tree, queue, history, lease>>
  PROVE  IInv'
<1> DEFINE o == proc[p].item
           rec == [ledger[o] EXCEPT !.outcome = "complete"]
<1>0. Typed /\ o \in DOMAIN ledger
  BY FiledOf DEF IInv, SnapshotFiled
<1>1. ledger[o] \in Recorded
  BY <1>0, RecordsType DEF Typed
<1>2. rec \in Recorded /\ rec.outcome = "complete"
  BY <1>1 DEF Recorded, Outcomes
<1>3. ledger' = [ledger EXCEPT ![o] = rec]
  OBVIOUS
<1> HIDE DEF rec
<1>4. /\ DOMAIN ledger' = DOMAIN ledger
      /\ OpenOps' = OpenOps \ {o}
  BY <1>0, <1>2, <1>3, RecordChanged
<1>5. /\ proc' \in [Procs -> Command]
      /\ \A q \in Procs \ {p} : proc'[q] = proc[q]
      /\ proc'[p].op = proc[p].op
      /\ SnapshotFiled(p)'
      /\ ProcessAt(p)'
  BY <1>4, NextItemKept
<1>6. /\ LeaseMoves(p) /\ lease' \in Procs \cup {None}
      /\ tree' \subseteq Ops \cup {Litter}
  BY <1>0 DEF Typed, LeaseMoves
<1>7. QED
  BY <1>0, <1>2, <1>3, <1>5, <1>6, RewriteStep

LEMMA LookUpStep ==
  ASSUME IInv, NEW p \in Procs, LookUp(p)
  PROVE  IInv'
<1> DEFINE o == proc[p].item
<1>0. /\ Typed /\ ProcessAt(p) /\ SnapshotFiled(p)
      /\ InHand(p, "look") /\ proc[p].pc \in Reconciling /\ o # None
      /\ UNCHANGED <<log, tree, queue, history>>
  BY FiledOf DEF IInv, LedgerInvariant, LookUp, InHand
<1>o. o \in DOMAIN ledger /\ o \in Ops
  BY <1>0, TypedOps DEF SnapshotFiled
<1>1. CASE /\ Become(p, [proc[p] EXCEPT !.step = "judge"])
           /\ UNCHANGED <<ledger, lease>>
  <2> DEFINE l == [proc[p] EXCEPT !.step = "judge"]
  <2>1. proc[p] \in Command
    BY <1>0 DEF Typed
  <2>2. /\ l \in Command
        /\ l.pc = proc[p].pc /\ l.task = proc[p].task /\ l.op = proc[p].op
        /\ l.todo = proc[p].todo /\ l.item = proc[p].item /\ l.step = "judge"
        /\ l.blocked = proc[p].blocked
    BY <2>1 DEF Command
  <2>3. Become(p, l)
    BY <1>1
  <2> HIDE DEF l
  <2>4. /\ proc' \in [Procs -> Command]
        /\ proc'[p] = l
        /\ \A q \in Procs \ {p} : proc'[q] = proc[q]
    BY <1>0, <2>2, <2>3, BecomeEffect
  <2>5. Typed' /\ LeaseMoves(p) /\ SnapshotFiled(p)'
    BY <1>0, <1>1, <2>2, <2>4 DEF Typed, LeaseMoves, SnapshotFiled
  <2>6. /\ OpenOps' = OpenOps /\ KnownRuns' = KnownRuns
        /\ CommittedOps' = CommittedOps
    BY <1>0, <1>1 DEF OpenOps, KnownRuns, CommittedOps
  <2>7. HoldsLease(p)' /\ HasTask(p)' /\ OperationAt(p)'
    BY <1>0, <1>1, <2>2, <2>4, <2>6 DEF ProcessAt, HoldsLease, HasTask, OperationAt
  <2>8. ItemAt(p)' /\ OthersRecorded(p)'
    BY <1>0, <1>1, <2>2, <2>4, <2>6 DEF ProcessAt, ItemAt, InHand, OthersRecorded
  <2>9. QED
    BY <1>0, <1>1, <2>2, <2>4, <2>5, <2>7, <2>8, QuietStep DEF ProcessAt
<1>2. CASE NextItem(p, TRUE) /\ UNCHANGED <<ledger, lease>>
  BY <1>0, <1>2, SkipItemStep
<1>3. CASE ReconcileRaises(p) /\ UNCHANGED ledger
  BY <1>0, <1>3, ReconcileRaisesStep, UnchangedTypes
<1>4. CASE /\ RowsOf(o) # {} /\ Terminal(o, "complete")
           /\ NextItem(p, FALSE) /\ UNCHANGED lease
  <2>1. o \in KnownRuns
    BY <1>0, <1>o, <1>4, RowsKnown
  <2>2. QED
    BY <1>0, <1>4, <2>1, CompleteItemStep DEF Terminal
<1>5. QED
  BY <1>1, <1>2, <1>3, <1>4 DEF LookUp

LEMMA JudgeStep ==
  ASSUME IInv, NEW p \in Procs, Judge(p)
  PROVE  IInv'
<1> DEFINE o == proc[p].item
           read == proc[p].todo[o]
           rec == [read EXCEPT !.commit = TRUE]
           l == [proc[p] EXCEPT !.step = "write"]
<1>0. /\ Typed /\ ProcessAt(p) /\ SnapshotFiled(p)
      /\ InHand(p, "judge") /\ proc[p].pc \in Reconciling /\ o # None
      /\ UNCHANGED <<log, tree, queue, history, lease>>
  BY FiledOf DEF IInv, LedgerInvariant, Judge, InHand
<1>1. CASE ~ExactCommit(o, read)
  BY <1>0, <1>1, SkipItemStep DEF Judge
<1>2. CASE ExactCommit(o, read)
  <2>1. o \in CommittedOps
    BY <1>2 DEF ExactCommit
  <2>2. proc[p] \in Command
    BY <1>0 DEF Typed
  <2>3. /\ o \in DOMAIN ledger /\ o \in DOMAIN proc[p].todo
        /\ read \in Recorded /\ ledger[o] \in Recorded
    BY <1>0, <2>2, RecordsType DEF SnapshotFiled, Command, Typed
  <2>4. /\ rec \in Recorded /\ rec.outcome = "open"
    BY <1>0, <2>3 DEF ProcessAt, ItemAt, Recorded
  <2>5. /\ l \in Command
        /\ l.pc = proc[p].pc /\ l.task = proc[p].task /\ l.op = proc[p].op
        /\ l.todo = proc[p].todo /\ l.item = proc[p].item /\ l.step = "write"
        /\ l.blocked = proc[p].blocked
    BY <2>2 DEF Command
  <2>6. /\ Become(p, l)
        /\ ledger' = IF read.commit THEN ledger ELSE [ledger EXCEPT ![o] = rec]
    BY <1>2 DEF Judge
  <2> HIDE DEF l, rec
  <2>7. /\ proc' \in [Procs -> Command]
        /\ proc'[p] = l
        /\ \A q \in Procs \ {p} : proc'[q] = proc[q]
    BY <1>0, <2>5, <2>6, BecomeEffect
  <2>8. o \in OpenOps \cup KnownRuns
    BY <2>1, <2>3, OutcomesKnown DEF OpenOps, Recorded, Outcomes
  <2>9. /\ DOMAIN ledger' = DOMAIN ledger
        /\ OpenOps' \subseteq OpenOps \cup KnownRuns
    <3>1. CASE ledger' = ledger
      BY <3>1 DEF OpenOps
    <3>2. CASE ledger' = [ledger EXCEPT ![o] = rec]
      <4>1. OpenOps' = OpenOps \cup {o} /\ DOMAIN ledger' = DOMAIN ledger
        BY <1>0, <2>3, <2>4, <3>2, RecordChanged
      <4>2. QED
        BY <2>8, <4>1
    <3>3. QED
      BY <2>6, <3>1, <3>2
  <2>10. KnownRuns' = KnownRuns /\ CommittedOps' = CommittedOps
    BY <1>0 DEF KnownRuns, CommittedOps
  <2>11. SnapshotFiled(p)'
    BY <1>0, <2>5, <2>7, <2>9 DEF SnapshotFiled
  <2>12. ProcessAt(p)'
    <3>1. HoldsLease(p)' /\ HasTask(p)'
      BY <1>0, <2>5, <2>7 DEF ProcessAt, HoldsLease, HasTask
    <3>2. OperationAt(p)'
      BY <1>0, <2>5, <2>7, <2>9, <2>10 DEF ProcessAt, OperationAt, Reconciling, Begun
    <3>3. ItemAt(p)'
      BY <1>0, <2>1, <2>5, <2>7, <2>10 DEF ProcessAt, ItemAt, InHand
    <3>4. OthersRecorded(p)'
      BY <1>0, <2>5, <2>7, <2>9, <2>10 DEF ProcessAt, OthersRecorded, Reconciling, Begun
    <3>5. QED
      BY <3>1, <3>2, <3>3, <3>4 DEF ProcessAt
  <2>13. /\ LeaseMoves(p) /\ lease' \in Procs \cup {None}
         /\ tree' \subseteq Ops \cup {Litter}
    BY <1>0 DEF Typed, LeaseMoves
  <2>14. CASE ledger' = ledger
    <3>1. Typed'
      BY <1>0, <2>7, <2>14 DEF Typed
    <3>2. QED
      BY <1>0, <2>5, <2>7, <2>11, <2>12, <2>13, <2>14, <3>1, QuietStep
  <2>15. CASE ledger' = [ledger EXCEPT ![o] = rec]
    BY <1>0, <2>3, <2>4, <2>5, <2>7, <2>8, <2>11, <2>12, <2>13, <2>15, RewriteStep
  <2>16. QED
    BY <2>6, <2>14, <2>15
<1>3. QED
  BY <1>1, <1>2

LEMMA CompleteStateStep ==
  ASSUME IInv, NEW p \in Procs, CompleteState(p)
  PROVE  IInv'
<1> DEFINE o == proc[p].item
           t == proc[p].todo[o].task
           l == [proc[p] EXCEPT !.step = "finish"]
<1>0. /\ Typed /\ ProcessAt(p) /\ SnapshotFiled(p)
      /\ InHand(p, "write") /\ proc[p].pc \in Reconciling /\ o # None
      /\ UNCHANGED <<log, tree, ledger>>
  BY FiledOf DEF IInv, LedgerInvariant, CompleteState, InHand
<1>1. CASE ReconcileRaises(p) /\ UNCHANGED store
  BY <1>0, <1>1, ReconcileRaisesStep, UnchangedTypes DEF store
<1>2. CASE RecordResult(o, t, TRUE, Full(o)) /\ Become(p, l) /\ UNCHANGED lease
  <2>1. proc[p] \in Command
    BY <1>0 DEF Typed
  <2>2. /\ o \in DOMAIN ledger /\ o \in Ops /\ o \in CommittedOps
        /\ t \in Tasks
    <3>1. o \in DOMAIN proc[p].todo /\ o \in DOMAIN ledger /\ o \in Ops
      BY <1>0, TypedOps DEF SnapshotFiled
    <3>2. proc[p].todo[o] \in Recorded
      BY <2>1, <3>1, RecordsType DEF Command
    <3>3. o \in CommittedOps
      BY <1>0 DEF ProcessAt, ItemAt
    <3>4. QED
      BY <3>1, <3>2, <3>3 DEF Recorded
  <2>3. Full(o) \in Hashes /\ TRUE \in BOOLEAN
    BY <2>2 DEF Full, Hashes
  <2>4. /\ queue' \in [Tasks -> Entry]
        /\ history' \in Seq(RunRow)
        /\ KnownRuns' = KnownRuns \cup {o}
        /\ OneRowPerRun'
    BY <1>2, <2>2, <2>3, RecordResultEffect
  <2>5. /\ l \in Command
        /\ l.pc = proc[p].pc /\ l.task = proc[p].task /\ l.op = proc[p].op
        /\ l.todo = proc[p].todo /\ l.item = proc[p].item /\ l.step = "finish"
        /\ l.blocked = proc[p].blocked
    BY <2>1 DEF Command
  <2>l. Become(p, l) /\ UNCHANGED lease
    BY <1>2
  <2> HIDE DEF l
  <2>6. /\ proc' \in [Procs -> Command]
        /\ proc'[p] = l
        /\ \A q \in Procs \ {p} : proc'[q] = proc[q]
    BY <1>0, <2>l, <2>5, BecomeEffect
  <2>7. Typed'
    BY <1>0, <2>l, <2>4, <2>6 DEF Typed
  <2>8. OpenOps' = OpenOps /\ CommittedOps' = CommittedOps
    BY <1>0 DEF OpenOps, CommittedOps
  <2>9. Disturbs(p)
    BY <1>0, <2>l, <2>2, <2>4, <2>6, <2>8 DEF Disturbs, LeaseMoves
  <2>10. OutcomesAreTrue'
    BY <1>0, <2>4, <2>7, <2>8, OutcomesKept, OutcomesKnown
  <2>11. CommitsAreIntended'
    BY <1>0, <2>8 DEF IInv, LedgerInvariant, CommitsAreIntended
  <2>12. SnapshotFiled(p)'
    BY <1>0, <2>5, <2>6 DEF SnapshotFiled
  <2>13. ProcessAt(p)'
    <3>1. HoldsLease(p)' /\ HasTask(p)'
      BY <1>0, <2>l, <2>5, <2>6 DEF ProcessAt, HoldsLease, HasTask
    <3>2. OperationAt(p)'
      BY <1>0, <2>2, <2>4, <2>5, <2>6 DEF ProcessAt, OperationAt, Reconciling, Begun
    <3>3. ItemAt(p)'
      BY <1>0, <2>4, <2>5, <2>6 DEF ProcessAt, ItemAt, InHand
    <3>4. OthersRecorded(p)'
      BY <1>0, <2>4, <2>5, <2>6, <2>8 DEF ProcessAt, OthersRecorded, Reconciling, Begun
    <3>5. QED
      BY <3>1, <3>2, <3>3, <3>4 DEF ProcessAt
  <2>14. QED
    BY <2>4, <2>5, <2>6, <2>7, <2>9, <2>10, <2>11, <2>12, <2>13, StepKeeps
<1>3. QED
  BY <1>1, <1>2 DEF CompleteState

LEMMA FinishLedgerStep ==
  ASSUME IInv, NEW p \in Procs, FinishLedger(p)
  PROVE  IInv'
<1>0. /\ InHand(p, "finish") /\ proc[p].pc \in Reconciling /\ proc[p].item # None
      /\ UNCHANGED <<log, tree, queue, history>>
  BY DEF FinishLedger, InHand
<1>1. proc[p].item \in KnownRuns
  BY <1>0 DEF IInv, LedgerInvariant, ProcessAt, ItemAt
<1>2. CASE ReconcileRaises(p) /\ UNCHANGED ledger
  BY <1>0, <1>2, ReconcileRaisesStep, UnchangedTypes
<1>3. CASE /\ Phase(proc[p].item, [ledger[proc[p].item] EXCEPT !.outcome = "complete"])
           /\ NextItem(p, FALSE) /\ UNCHANGED lease
  BY <1>0, <1>1, <1>3, CompleteItemStep DEF Phase
<1>4. QED
  BY <1>2, <1>3 DEF FinishLedger

-----------------------------------------------------------------------------
\* The steps under the lease that write the ledger or the branch.
LEMMA BeginTaskStep ==
  ASSUME IInv, NEW p \in Procs, BeginTask(p)
  PROVE  IInv'
<1> DEFINE o == proc[p].op
           rec == [task |-> proc[p].task, baseline |-> Len(log),
                   applied |-> FALSE, verified |-> FALSE, commit |-> FALSE,
                   outcome |-> "open"]
<1>0. /\ Typed /\ ProcessAt(p) /\ SnapshotFiled(p) /\ proc[p].pc = "intent"
      /\ proc[p].pc \in RunPoints
      /\ UNCHANGED <<log, tree, queue, history>>
  BY FiledOf DEF IInv, LedgerInvariant, BeginTask, RunPoints, Points, UnderLease
<1>1. CASE Raise(p) /\ UNCHANGED ledger
  BY <1>0, <1>1, RaiseStep, UnchangedTypes
<1>2. CASE AddRecord(o, rec) /\ Goto(p, "begun") /\ UNCHANGED lease
  <2>1. /\ o \in Ops /\ o \notin DOMAIN ledger /\ o \notin KnownRuns
        /\ proc[p].task \in Tasks /\ lease = p
    BY <1>0 DEF ProcessAt, OperationAt, HasTask, HoldsLease, UnderLease
  <2>2. rec \in Recorded /\ rec.outcome = "open"
    BY <1>0, <2>1 DEF Recorded, Outcomes, Typed
  <2>3. /\ ledger \in [DOMAIN ledger -> Recorded] /\ DOMAIN ledger \subseteq Ops
    BY <1>0, RecordsType DEF Typed
  <2>l. ledger' = [q \in DOMAIN ledger \cup {o} |-> IF q = o THEN rec ELSE ledger[q]]
    BY <1>2 DEF AddRecord
  <2> HIDE DEF rec
  <2>4. /\ ledger' \in [DOMAIN ledger \cup {o} -> Recorded]
        /\ DOMAIN ledger' = DOMAIN ledger \cup {o}
        /\ ledger'[o] = rec
        /\ \A q \in DOMAIN ledger : ledger'[q] = ledger[q]
    BY <2>1, <2>2, <2>3, <2>l
  <2>5. ledger' \in Records
    BY <2>1, <2>3, <2>4, RecordsType
  <2>6. OpenOps' = OpenOps \cup {o}
    BY <2>1, <2>2, <2>4 DEF OpenOps
  <2>7. KnownRuns' = KnownRuns /\ CommittedOps' = CommittedOps
    BY <1>0 DEF KnownRuns, CommittedOps
  <2>8. /\ proc' \in [Procs -> Command]
        /\ proc'[p].pc = "begun" /\ proc'[p].task = proc[p].task
        /\ proc'[p].op = o /\ proc'[p].todo = proc[p].todo
        /\ proc'[p].item = proc[p].item
        /\ \A q \in Procs \ {p} : proc'[q] = proc[q]
    BY <1>0, <1>2, GotoEffect DEF Points, UnderLease
  <2>9. Typed'
    BY <1>0, <1>2, <2>5, <2>8 DEF Typed
  <2>10. Disturbs(p)
    BY <1>2, <2>1, <2>4, <2>6, <2>7, <2>8 DEF Disturbs, LeaseMoves
  <2>11. OutcomesAreTrue'
    BY <2>2, <2>4, <2>7, <2>9, OutcomesKept, OutcomesKnown
  <2>12. OneRowPerRun' /\ CommitsAreIntended'
    BY <1>0, <2>4, <2>7 DEF IInv, LedgerInvariant, OneRowPerRun, CommitsAreIntended
  <2>13. SnapshotFiled(p)'
    BY <1>0, <2>4, <2>8 DEF SnapshotFiled
  <2>14. ProcessAt(p)'
    <3>1. HoldsLease(p)' /\ HasTask(p)'
      BY <1>2, <2>1, <2>8 DEF HoldsLease, HasTask
    <3>2. o \notin CommittedOps
      BY <2>1 DEF IInv, LedgerInvariant, CommitsAreIntended
    <3>3. OperationAt(p)'
      BY <2>1, <2>6, <2>7, <2>8, <3>2 DEF OperationAt, Begun
    <3>4. ItemAt(p)'
      BY <1>0, <2>8 DEF ProcessAt, ItemAt, InHand, Reconciling
    <3>5. OthersRecorded(p)'
      BY <1>0, <2>6, <2>7, <2>8 DEF ProcessAt, OthersRecorded
    <3>6. QED
      BY <3>1, <3>3, <3>4, <3>5 DEF ProcessAt
  <2>15. QED
    BY <2>8, <2>9, <2>10, <2>11, <2>12, <2>13, <2>14, StepKeeps
<1>3. QED
  BY <1>1, <1>2 DEF BeginTask

\* A phase written by the run keeps its operation open.
LEMMA RunPhaseStep ==
  ASSUME IInv, NEW p \in Procs, NEW next \in Points \ Reconciling, NEW changed \in Recorded,
         RunPhase(p, changed, next), UNCHANGED <<log, tree, queue, history>>,
         changed.outcome = ledger[proc[p].op].outcome,
         \/ proc[p].pc \in Begun /\ next \in Begun
         \/ proc[p].pc = "committed" /\ next = "noted"
  PROVE  IInv'
<1> DEFINE o == proc[p].op
<1>0. Typed /\ ProcessAt(p) /\ SnapshotFiled(p)
  BY FiledOf DEF IInv, LedgerInvariant
<1>p. proc[p].pc \in RunPoints /\ proc[p].pc \in UnderLease /\ next \in UnderLease
  BY DEF Begun, RunPoints, Points, UnderLease
<1>o. o \in DOMAIN ledger
  BY <1>0, TypedOps DEF ProcessAt, OperationAt
<1>1. CASE Raise(p) /\ UNCHANGED ledger
  BY <1>1, <1>p, RaiseStep, UnchangedTypes
<1>2. CASE Phase(o, changed) /\ Goto(p, next) /\ UNCHANGED lease
  <2>1. changed.outcome = "open" /\ ledger' = [ledger EXCEPT ![o] = changed] /\ o \in OpenOps
    BY <1>2, <1>o DEF Phase, OpenOps
  <2>2. DOMAIN ledger' = DOMAIN ledger /\ OpenOps' = OpenOps
    <3>1. /\ DOMAIN ledger' = DOMAIN ledger
          /\ OpenOps' = IF changed.outcome = "open" THEN OpenOps \cup {o}
                                                   ELSE OpenOps \ {o}
      BY <1>0, <1>o, <2>1, RecordChanged
    <3>2. QED
      BY <2>1, <3>1
  <2>3. KnownRuns' = KnownRuns /\ CommittedOps' = CommittedOps
    BY DEF KnownRuns, CommittedOps
  <2>4. /\ proc' \in [Procs -> Command]
        /\ proc'[p].pc = next /\ proc'[p].task = proc[p].task
        /\ proc'[p].op = o /\ proc'[p].todo = proc[p].todo
        /\ proc'[p].item = proc[p].item
        /\ \A q \in Procs \ {p} : proc'[q] = proc[q]
    BY <1>0, <1>2, GotoEffect
  <2>5. SnapshotFiled(p)'
    BY <1>0, <2>2, <2>4 DEF SnapshotFiled
  <2>6. ProcessAt(p)'
    <3>1. HoldsLease(p)' /\ HasTask(p)'
      BY <1>0, <1>2, <1>p, <2>4 DEF ProcessAt, HoldsLease, HasTask
    <3>2. OperationAt(p)'
      BY <1>0, <1>o, <2>2, <2>3, <2>4 DEF ProcessAt, OperationAt, Begun
    <3>3. ItemAt(p)'
      BY <1>0, <2>4 DEF ProcessAt, ItemAt, InHand
    <3>4. OthersRecorded(p)'
      BY <1>0, <2>2, <2>3, <2>4 DEF ProcessAt, OthersRecorded, Begun
    <3>5. QED
      BY <3>1, <3>2, <3>3, <3>4 DEF ProcessAt
  <2>7. /\ LeaseMoves(p) /\ lease' \in Procs \cup {None}
        /\ tree' \subseteq Ops \cup {Litter}
    BY <1>0, <1>2 DEF Typed, LeaseMoves
  <2>8. QED
    BY <1>o, <2>1, <2>4, <2>5, <2>6, <2>7, RewriteStep
<1>3. QED
  BY <1>1, <1>2 DEF RunPhase

LEMMA RunRecorded ==
  ASSUME IInv, NEW p \in Procs, proc[p].pc \in Begun \cup {"committed", "reverted"}
  PROVE  proc[p].op \in DOMAIN ledger /\ ledger[proc[p].op] \in Recorded
<1>1. Typed /\ ProcessAt(p)
  BY DEF IInv, LedgerInvariant
<1>2. proc[p].op \in DOMAIN ledger
  BY <1>1, TypedOps DEF ProcessAt, OperationAt
<1>3. QED
  BY <1>1, <1>2, RecordsType DEF Typed

LEMMA PatchNotedStep ==
  ASSUME IInv, NEW p \in Procs, PatchNoted(p)
  PROVE  IInv'
<1> DEFINE rec == [ledger[proc[p].op] EXCEPT !.applied = TRUE]
<1>1. proc[p].pc = "applied" /\ RunPhase(p, rec, "verify")
      /\ UNCHANGED <<log, tree, queue, history>>
  BY DEF PatchNoted
<1>2. ledger[proc[p].op] \in Recorded
  BY <1>1, RunRecorded DEF Begun
<1>3. rec \in Recorded /\ rec.outcome = ledger[proc[p].op].outcome
  BY <1>2 DEF Recorded
<1> HIDE DEF rec
<1>4. QED
  BY <1>1, <1>3, RunPhaseStep DEF Begun, Points, Reconciling, UnderLease

LEMMA VerifyAcceptsStep ==
  ASSUME IInv, NEW p \in Procs, VerifyAccepts(p)
  PROVE  IInv'
<1> DEFINE rec == [ledger[proc[p].op] EXCEPT !.verified = TRUE]
<1>1. proc[p].pc = "judged" /\ RunPhase(p, rec, "verified")
      /\ UNCHANGED <<log, tree, queue, history>>
  BY DEF VerifyAccepts
<1>2. ledger[proc[p].op] \in Recorded
  BY <1>1, RunRecorded DEF Begun
<1>3. rec \in Recorded /\ rec.outcome = ledger[proc[p].op].outcome
  BY <1>2 DEF Recorded
<1> HIDE DEF rec
<1>4. QED
  BY <1>1, <1>3, RunPhaseStep DEF Begun, Points, Reconciling, UnderLease

LEMMA CommitNotedStep ==
  ASSUME IInv, NEW p \in Procs, CommitNoted(p)
  PROVE  IInv'
<1> DEFINE made == proc[p].commit # None
           rec == [ledger[proc[p].op] EXCEPT !.commit = made]
<1>1. proc[p].pc = "committed" /\ RunPhase(p, rec, "noted")
      /\ UNCHANGED <<log, tree, queue, history>>
  BY DEF CommitNoted
<1>2. ledger[proc[p].op] \in Recorded /\ made \in BOOLEAN
  BY <1>1, RunRecorded
<1> HIDE DEF made
<1>3. rec \in Recorded /\ rec.outcome = ledger[proc[p].op].outcome
  BY <1>2 DEF Recorded
<1> HIDE DEF rec
<1>4. QED
  BY <1>1, <1>3, RunPhaseStep DEF Points, Reconciling, UnderLease

LEMMA RejectionNotedStep ==
  ASSUME IInv, NEW p \in Procs, RejectionNoted(p)
  PROVE  IInv'
<1> DEFINE o == proc[p].op
           rec == [ledger[o] EXCEPT !.outcome = "reverted"]
<1>0. /\ Typed /\ ProcessAt(p) /\ SnapshotFiled(p) /\ proc[p].pc = "reverted"
      /\ proc[p].pc \in RunPoints
      /\ UNCHANGED <<log, tree, queue, history>>
  BY FiledOf DEF IInv, LedgerInvariant, RejectionNoted, RunPoints, Points, UnderLease
<1>1. CASE Raise(p) /\ UNCHANGED ledger
  BY <1>0, <1>1, RaiseStep, UnchangedTypes
<1>2. CASE Terminal(o, "reverted") /\ Goto(p, "rejected") /\ UNCHANGED lease
  <2>1. /\ o \in DOMAIN ledger /\ o \in Ops /\ o \notin CommittedOps
        /\ proc[p].task \in Tasks /\ lease = p
    BY <1>0, TypedOps DEF ProcessAt, OperationAt, HasTask, HoldsLease, UnderLease
  <2>2. rec \in Recorded /\ rec.outcome = "reverted"
    BY <1>0, RunRecorded DEF Recorded, Outcomes
  <2>3. ledger' = [ledger EXCEPT ![o] = rec]
    BY <1>2 DEF Terminal
  <2> HIDE DEF rec
  <2>4. DOMAIN ledger' = DOMAIN ledger
    BY <1>0, <2>1, <2>2, <2>3, RecordChanged
  <2>5. /\ proc' \in [Procs -> Command]
        /\ proc'[p].pc = "rejected" /\ proc'[p].task = proc[p].task
        /\ proc'[p].op = o /\ proc'[p].todo = proc[p].todo
        /\ proc'[p].item = proc[p].item
        /\ \A q \in Procs \ {p} : proc'[q] = proc[q]
    BY <1>0, <1>2, GotoEffect DEF Points, UnderLease
  <2>6. SnapshotFiled(p)'
    BY <1>0, <2>4, <2>5 DEF SnapshotFiled
  <2>7. ProcessAt(p)'
    <3>1. ItemAt(p)'
      BY <1>0, <2>5 DEF ProcessAt, ItemAt, InHand, Reconciling
    <3>2. HoldsLease(p)' /\ HasTask(p)' /\ OperationAt(p)' /\ OthersRecorded(p)'
      BY <1>2, <2>1, <2>5 DEF HoldsLease, HasTask, OperationAt, OthersRecorded, Begun
    <3>3. QED
      BY <3>1, <3>2 DEF ProcessAt
  <2>8. /\ LeaseMoves(p) /\ lease' \in Procs \cup {None}
        /\ tree' \subseteq Ops \cup {Litter}
    BY <1>0, <1>2 DEF Typed, LeaseMoves
  <2>9. QED
    BY <1>0, <2>1, <2>2, <2>3, <2>5, <2>6, <2>7, <2>8, RewriteStep
<1>3. QED
  BY <1>1, <1>2 DEF RejectionNoted

LEMMA CommitStep ==
  ASSUME IInv, NEW p \in Procs, Commit(p)
  PROVE  IInv'
<1> DEFINE o == proc[p].op
           l == [proc[p] EXCEPT !.pc = "committed", !.commit = Short(o)]
<1>0. /\ Typed /\ ProcessAt(p) /\ SnapshotFiled(p) /\ proc[p].pc = "verified"
      /\ proc[p].pc \in RunPoints /\ proc[p] \in Command
      /\ UNCHANGED <<ledger, queue, history>>
  BY FiledOf DEF IInv, LedgerInvariant, Commit, RunPoints, Points, UnderLease, Typed
<1>t. /\ queue' \in [Tasks -> Entry]
      /\ UNCHANGED tree => tree' \subseteq Ops \cup {Litter}
  BY <1>0, UnchangedTypes
<1>1. /\ o \in OpenOps /\ o \in DOMAIN ledger /\ o \in Ops
      /\ proc[p].task \in Tasks /\ lease = p
  BY <1>0, TypedOps DEF ProcessAt, OperationAt, HasTask, HoldsLease, UnderLease, Begun
<1>2. OpenOps' = OpenOps /\ KnownRuns' = KnownRuns
  BY <1>0 DEF OpenOps, KnownRuns
<1>3. CASE Raise(p) /\ UNCHANGED <<log, tree>>
  BY <1>0, <1>3, <1>t, RaiseStep
<1>4. CASE Goto(p, "committed") /\ UNCHANGED <<log, tree, lease>>
  <2>1. /\ proc'[p].pc = "committed" /\ proc'[p].task = proc[p].task
        /\ proc'[p].op = proc[p].op
    BY <1>0, <1>4, GotoEffect DEF Points, UnderLease
  <2>2. HoldsLease(p)' /\ HasTask(p)' /\ OperationAt(p)' /\ OthersRecorded(p)'
    BY <1>0, <1>1, <1>4, <2>1 DEF HoldsLease, HasTask, OperationAt, OthersRecorded, Begun
  <2>3. QED
    BY <1>0, <1>4, <1>t, <2>2, GotoStep DEF Points, Reconciling, UnderLease
<1>5. CASE /\ log' = Append(log, o) /\ tree' = tree \ {o}
           /\ Become(p, l) /\ UNCHANGED lease
  <2>1. Short(o) \in Hashes
    BY <1>1 DEF Short, Hashes
  <2>2. /\ l \in Command
        /\ l.pc = "committed" /\ l.task = proc[p].task /\ l.op = o
        /\ l.todo = proc[p].todo /\ l.item = proc[p].item
    BY <1>0, <2>1 DEF Command, Points, UnderLease
  <2>3. Become(p, l)
    BY <1>5
  <2> HIDE DEF l
  <2>4. /\ proc' \in [Procs -> Command]
        /\ proc'[p] = l
        /\ \A q \in Procs \ {p} : proc'[q] = proc[q]
    BY <1>0, <2>2, <2>3, BecomeEffect
  <2>5. log' \in Seq(Ops \cup {Outside}) /\ Range(log') = Range(log) \cup {o}
    <3>1. log \in Seq(Ops \cup {Outside})
      BY <1>0 DEF Typed
    <3>2. /\ log' \in Seq(Ops \cup {Outside})
          /\ DOMAIN log' = DOMAIN log \cup {Len(log) + 1}
          /\ log'[Len(log) + 1] = o
          /\ \A i \in DOMAIN log : log'[i] = log[i] /\ i # Len(log) + 1
      BY <1>1, <1>5, <3>1
    <3>3. QED
      BY <3>2 DEF Range
  <2>6. CommittedOps' = CommittedOps \cup {o}
    BY <1>1, <2>5 DEF CommittedOps
  <2>7. Typed'
    BY <1>0, <1>5, <2>4, <2>5 DEF Typed
  <2>8. Disturbs(p)
    BY <1>0, <1>2, <1>5, <2>4, <2>6 DEF Disturbs, LeaseMoves
  <2>9. OutcomesAreTrue'
    BY <1>0, <1>1, <1>2, <2>6, <2>7, OutcomesKept, OutcomesKnown DEF OpenOps
  <2>10. OneRowPerRun' /\ CommitsAreIntended'
    BY <1>0, <1>1, <2>6 DEF IInv, LedgerInvariant, OneRowPerRun, CommitsAreIntended
  <2>11. SnapshotFiled(p)'
    BY <1>0, <2>2, <2>4 DEF SnapshotFiled
  <2>12. ProcessAt(p)'
    <3>1. ItemAt(p)'
      BY <1>0, <2>2, <2>4 DEF ProcessAt, ItemAt, InHand, Reconciling
    <3>2. HoldsLease(p)' /\ HasTask(p)' /\ OperationAt(p)' /\ OthersRecorded(p)'
      BY <1>0, <1>1, <1>5, <2>2, <2>4 DEF HoldsLease, HasTask, OperationAt,
            OthersRecorded, Begun
    <3>3. QED
      BY <3>1, <3>2 DEF ProcessAt
  <2>13. QED
    BY <2>2, <2>4, <2>7, <2>8, <2>9, <2>10, <2>11, <2>12, StepKeeps
<1>6. QED
  BY <1>3, <1>4, <1>5 DEF Commit

-----------------------------------------------------------------------------
(***************************************************************************)
(* The operator's steps: they move no process, and those that write the    *)
(* ledger or the worktree need the lease to be free.                       *)
(***************************************************************************)
LEMMA OperatorKeeps ==
  ASSUME IInv, Typed', UNCHANGED <<history, lease, proc>>,
         DOMAIN ledger' = DOMAIN ledger, OpenOps' \subseteq OpenOps,
         OpenOps' = OpenOps \/ lease = None,
         CommittedOps' = CommittedOps, OutcomesAreTrue'
  PROVE  IInv'
<1>1. KnownRuns' = KnownRuns
  BY DEF KnownRuns
<1>2. ASSUME NEW q \in Procs
      PROVE  SnapshotFiled(q)'
  BY FiledOf DEF SnapshotFiled
<1>3. ASSUME NEW q \in Procs
      PROVE  ProcessAt(q)'
  <2>0. ProcessAt(q) /\ None \notin Procs
    BY NamesDiffer DEF IInv, LedgerInvariant
  <2>1. HoldsLease(q)' /\ HasTask(q)'
    BY <2>0 DEF ProcessAt, HoldsLease, HasTask
  <2>2. lease = None => proc[q].pc \notin Begun \cup {"reverted"}
    BY <2>0 DEF ProcessAt, HoldsLease, UnderLease, Begun
  <2>3. OperationAt(q)'
    BY <1>1, <2>0, <2>2 DEF ProcessAt, OperationAt
  <2>4. ItemAt(q)' /\ OthersRecorded(q)'
    BY <1>1, <2>0 DEF ProcessAt, ItemAt, InHand, OthersRecorded
  <2>5. QED
    BY <2>1, <2>3, <2>4 DEF ProcessAt
<1>4. TypeOK'
  BY <1>2, TypesImplyNext
<1>5. QED
  BY <1>1, <1>3, <1>4 DEF IInv, LedgerInvariant, OneRowPerRun, CommitsAreIntended,
                          OwnOperations

LEMMA OperatorClosesStep ==
  ASSUME IInv, NEW o \in OpenOps, NEW outcome \in {"cancelled", "reverted"},
         o \notin CommittedOps, lease = None, Terminal(o, outcome),
         tree' \subseteq tree, UNCHANGED <<log, queue, history, lease, proc>>
  PROVE  IInv'
<1> DEFINE rec == [ledger[o] EXCEPT !.outcome = outcome]
<1>0. Typed /\ o \in DOMAIN ledger
  BY DEF IInv, OpenOps
<1>1. ledger[o] \in Recorded
  BY <1>0, RecordsType DEF Typed
<1>2. rec \in Recorded /\ rec.outcome = outcome
  BY <1>1 DEF Recorded, Outcomes
<1>3. ledger' = [ledger EXCEPT ![o] = rec]
  BY DEF Terminal
<1> HIDE DEF rec
<1>4. /\ ledger' \in Records
      /\ DOMAIN ledger' = DOMAIN ledger
      /\ ledger'[o] = rec
      /\ \A q \in DOMAIN ledger \ {o} : ledger'[q] = ledger[q]
      /\ OpenOps' = IF rec.outcome = "open" THEN OpenOps \cup {o}
                                           ELSE OpenOps \ {o}
  BY <1>0, <1>2, <1>3, RecordChanged
<1>5. Typed'
  BY <1>0, <1>4 DEF Typed
<1>6. KnownRuns' = KnownRuns /\ CommittedOps' = CommittedOps
  BY DEF KnownRuns, CommittedOps
<1>7. OutcomesAreTrue'
  BY <1>2, <1>4, <1>5, <1>6, OutcomesKept, OutcomesKnown
<1>8. QED
  BY <1>2, <1>4, <1>5, <1>6, <1>7, OperatorKeeps

LEMMA OperatorStep ==
  ASSUME IInv, Operator
  PROVE  IInv'
<1>0. Typed
  BY DEF IInv
<1>1. ASSUME NEW t \in Tasks, Retry(t) \/ Recover(t)
      PROVE  IInv'
  <2>1. UNCHANGED <<log, tree, ledger, history, lease, proc>> /\ queue' \in [Tasks -> Entry]
    BY <1>0, <1>1 DEF Retry, Recover, Typed, Entry, Statuses
  <2>2. Typed'
    BY <1>0, <2>1 DEF Typed
  <2>3. OpenOps' = OpenOps /\ CommittedOps' = CommittedOps /\ OutcomesAreTrue'
    BY <2>1 DEF OpenOps, CommittedOps, OutcomesAreTrue, RowsOf, IInv, LedgerInvariant
  <2>4. QED
    BY <2>1, <2>2, <2>3, OperatorKeeps
<1>2. ASSUME NEW o \in Ops, CancelIntent(o)
      PROVE  IInv'
  BY <1>2, OperatorClosesStep DEF CancelIntent, NotStarted
<1>3. ASSUME NEW o \in Ops, RestorePatch(o)
      PROVE  IInv'
  BY <1>3, OperatorClosesStep DEF RestorePatch, PatchApplied
<1>4. CASE OutsideCommit
  <2>1. log' = Append(log, Outside) /\ UNCHANGED <<tree, ledger, queue, history, lease, proc>>
    BY <1>4 DEF OutsideCommit
  <2>2. log' \in Seq(Ops \cup {Outside}) /\ Range(log') = Range(log) \cup {Outside}
    <3>1. log \in Seq(Ops \cup {Outside})
      BY <1>0 DEF Typed
    <3>2. /\ log' \in Seq(Ops \cup {Outside})
          /\ DOMAIN log' = DOMAIN log \cup {Len(log) + 1}
          /\ log'[Len(log) + 1] = Outside
          /\ \A i \in DOMAIN log : log'[i] = log[i] /\ i # Len(log) + 1
      BY <2>1, <3>1
    <3>3. QED
      BY <3>2 DEF Range
  <2>3. CommittedOps' = CommittedOps
    BY <2>2, NamesDiffer DEF CommittedOps
  <2>4. Typed'
    BY <1>0, <2>1, <2>2 DEF Typed
  <2>5. OpenOps' = OpenOps /\ OutcomesAreTrue'
    BY <2>1, <2>3 DEF OpenOps, OutcomesAreTrue, RowsOf, IInv, LedgerInvariant
  <2>6. QED
    BY <2>1, <2>3, <2>4, <2>5, OperatorKeeps
<1>5. CASE OutsideCleans
  <2>1. tree' = {} /\ UNCHANGED <<log, ledger, queue, history, lease, proc>>
    BY <1>5 DEF OutsideCleans
  <2>2. Typed'
    BY <1>0, <2>1 DEF Typed
  <2>3. OpenOps' = OpenOps /\ CommittedOps' = CommittedOps /\ OutcomesAreTrue'
    BY <2>1 DEF OpenOps, CommittedOps, OutcomesAreTrue, RowsOf, IInv, LedgerInvariant
  <2>4. QED
    BY <2>1, <2>2, <2>3, OperatorKeeps
<1>6. QED
  BY <1>1, <1>2, <1>3, <1>4, <1>5 DEF Operator

-----------------------------------------------------------------------------
LEMMA InitInvariant == Init => IInv
<1> SUFFICES ASSUME Init PROVE IInv
  OBVIOUS
<1>1. NoRecords \in Records
  BY RecordsType DEF NoRecords
<1>2. queue \in [Tasks -> Entry]
  BY DEF Init, NotRun, Entry, Statuses, Hashes
<1>3. Typed
  BY <1>1, <1>2, IdleType DEF Init, Typed
<1>4. ASSUME NEW p \in Procs
      PROVE  SnapshotFiled(p) /\ ProcessAt(p) /\ proc[p].op = None
  BY DEF Init, ProcessAt, HoldsLease, HasTask, OperationAt, ItemAt, OthersRecorded,
         SnapshotFiled, InHand, RunPoints, UnderLease, Reconciling, Begun, Idle, NoRecords
<1>5. TypeOK
  BY <1>3, <1>4, TypesImply
<1>6. OutcomesAreTrue /\ OneRowPerRun
  BY DEF Init, OutcomesAreTrue, OneRowPerRun, NoRecords
<1>7. CommitsAreIntended /\ OwnOperations
  BY <1>4 DEF Init, CommitsAreIntended, CommittedOps, Range, OwnOperations
<1>8. QED
  BY <1>3, <1>4, <1>5, <1>6, <1>7 DEF IInv, LedgerInvariant

LEMMA CommandStep ==
  ASSUME IInv, NEW p \in Procs, Step(p)
  PROVE  IInv'
<1>1. CASE TakeItem(p) \/ LookUp(p) \/ Judge(p) \/ CompleteState(p) \/ FinishLedger(p)
             \/ ReconcileEnds(p)
  BY <1>1, TakeItemStep, LookUpStep, JudgeStep, CompleteStateStep, FinishLedgerStep,
     ReconcileEndsStep
<1>2. CASE Claim(p) \/ NothingToClaim(p) \/ WorkRaises(p) \/ WorkFails(p) \/ Enter(p)
             \/ WorkContended(p)
  BY <1>2, ClaimStep, NothingToClaimStep, WorkRaisesStep, WorkFailsStep, EnterStep,
     WorkContendedStep
<1>3. CASE PatchRefused(p) \/ BeginTask(p) \/ ApplyPatch(p) \/ PatchNoted(p)
             \/ RunVerification(p) \/ VerifyAccepts(p) \/ VerifyRejects(p)
  BY <1>3, PatchRefusedStep, BeginTaskStep, ApplyPatchStep, PatchNotedStep,
     RunVerificationStep, VerifyAcceptsStep, VerifyRejectsStep
<1>4. CASE RejectionNoted(p) \/ RejectionTold(p) \/ Commit(p) \/ CommitNoted(p)
             \/ ResultReturned(p)
  BY <1>4, RejectionNotedStep, RejectionToldStep, CommitStep, CommitNotedStep,
     ResultReturnedStep
<1>5. CASE JournalContended(p) \/ JournalRaises(p) \/ Record(p) \/ Close(p)
             \/ RecordFailure(p)
  BY <1>5, JournalContendedStep, JournalRaisesStep, RecordStep, CloseStep,
     RecordFailureStep
<1>6. QED
  BY <1>1, <1>2, <1>3, <1>4, <1>5 DEF Step

LEMMA NextInvariant == IInv /\ [Next]_vars => IInv'
<1> SUFFICES ASSUME IInv, [Next]_vars PROVE IInv'
  OBVIOUS
<1>1. ASSUME NEW p \in Procs, Startup(p) \/ Resolve(p) \/ Step(p) \/ Crash(p)
                                \/ CrashWhileRecording(p)
      PROVE  IInv'
  BY <1>1, StartupStep, ResolveStep, CommandStep, CrashStep, CrashWhileRecordingStep
<1>2. CASE Operator
  BY <1>2, OperatorStep
<1>3. CASE UNCHANGED vars
  <2>1. /\ UNCHANGED <<log, tree, ledger, queue, history, lease, proc>>
    BY <1>3 DEF vars
  <2>2. Typed'
    BY <2>1 DEF IInv, Typed
  <2>3. OpenOps' = OpenOps /\ CommittedOps' = CommittedOps /\ OutcomesAreTrue'
    BY <2>1 DEF OpenOps, CommittedOps, OutcomesAreTrue, RowsOf, IInv, LedgerInvariant
  <2>4. QED
    BY <2>1, <2>2, <2>3, OperatorKeeps
<1>4. QED
  BY <1>1, <1>2, <1>3 DEF Next

-----------------------------------------------------------------------------
(***************************************************************************)
(* The theorems.                                                           *)
(***************************************************************************)
LEMMA IInvAlways == Spec => []IInv
BY InitInvariant, NextInvariant, PTL DEF Spec

\* Every process finds at each of its points what the code there relies on:
\* its operation is new, open or filed, its lease is held, what it read of the
\* ledger and found of the item in hand is still so.
THEOREM LedgerInvariantHolds == Spec => []LedgerInvariant
<1>1. IInv => LedgerInvariant
  BY DEF IInv
<1>2. QED
  BY <1>1, IInvAlways, PTL

\* The files and the program points hold what the code can put there.
THEOREM TypesHold == Spec => []TypeOK
<1>1. IInv => TypeOK
  BY DEF IInv, LedgerInvariant
<1>2. QED
  BY <1>1, IInvAlways, PTL

\* A `complete` operation has its run in the history, and a reverted or
\* cancelled one has no commit, for any number of processes and any failure.
THEOREM OutcomesTrue == Spec => []OutcomesAreTrue
<1>1. IInv => OutcomesAreTrue
  BY DEF IInv, LedgerInvariant
<1>2. QED
  BY <1>1, IInvAlways, PTL

LEMMA UnrecordedIsOpen ==
  ASSUME IInv, NEW o \in CommittedOps, o \notin KnownRuns
  PROVE  o \in OpenOps
<1>1. Typed /\ o \in DOMAIN ledger
  BY DEF IInv, LedgerInvariant, CommitsAreIntended
<1>2. ledger[o] \in Recorded
  BY <1>1, RecordsType DEF Typed
<1>3. QED
  BY <1>1, <1>2, OutcomesKnown DEF OpenOps, Recorded, Outcomes

\* A commit the StateStore has no record of keeps its operation open, which
\* blocks the next canonical change until it is reconciled.
THEOREM UnrecordedCommitsBlock == Spec => []UnrecordedCommitBlocks
<1>1. IInv => UnrecordedCommitBlocks
  <2> SUFFICES ASSUME IInv, NEW o \in CommittedOps, RowsOf(o) = {}
               PROVE  o \in DOMAIN ledger /\ ledger[o].outcome = "open"
    BY DEF UnrecordedCommitBlocks
  <2>1. Typed /\ o \in Ops
    BY TypedOps DEF IInv
  <2>2. o \notin KnownRuns
    BY <2>1, RowsKnown
  <2>3. QED
    BY <2>2, UnrecordedIsOpen DEF OpenOps
<1>2. QED
  BY <1>1, IInvAlways, PTL

\* However often a result is written, by the run, by another process's
\* reconciliation or by an operator, the history has one row for the run.
THEOREM OneRunEach == Spec => []OneRunPerOperation
<1>1. IInv => OneRunPerOperation
  <2> SUFFICES ASSUME IInv, NEW o \in Ops
               PROVE  Cardinality(RowsOf(o)) <= 1
    BY DEF OneRunPerOperation
  <2>1. CASE RowsOf(o) = {}
    BY <2>1, FS_EmptySet
  <2>2. CASE RowsOf(o) # {}
    <3>1. PICK i \in RowsOf(o) : TRUE
      BY <2>2
    <3>2. RowsOf(o) = {i}
      BY <3>1, NamesDiffer DEF IInv, LedgerInvariant, OneRowPerRun, RowsOf
    <3>3. QED
      BY <3>2, FS_Singleton
  <2>3. QED
    BY <2>1, <2>2
<1>2. QED
  BY <1>1, IInvAlways, PTL

\* Which steps of a command change the branch, the worktree, the history or
\* the set of declared operations.
LEMMA WhatStepsWrite ==
  ASSUME IInv, NEW p \in Procs, Step(p)
  PROVE  \/ BeginTask(p) \/ Commit(p) \/ Record(p) \/ CompleteState(p) \/ RecordFailure(p)
         \/ /\ UNCHANGED <<log, history>> /\ DOMAIN ledger' = DOMAIN ledger
            /\ tree' \cap Ops \subseteq tree \/ ApplyPatch(p)
<1> DEFINE Kept == /\ UNCHANGED <<log, history>> /\ DOMAIN ledger' = DOMAIN ledger
                   /\ tree' \cap Ops \subseteq tree
<1>1. CASE TakeItem(p) \/ ReconcileEnds(p) \/ Claim(p) \/ NothingToClaim(p)
             \/ WorkRaises(p) \/ WorkFails(p) \/ Enter(p) \/ WorkContended(p)
  <2>1. Kept
    BY <1>1 DEF TakeItem, ReconcileEnds, Claim, NothingToClaim, WorkRaises, WorkFails,
                Enter, WorkContended
  <2>2. QED
    BY <2>1
<1>2. CASE PatchRefused(p) \/ RejectionTold(p) \/ ResultReturned(p)
             \/ JournalContended(p) \/ JournalRaises(p)
  <2>1. Kept
    BY <1>2 DEF PatchRefused, RejectionTold, ResultReturned, JournalContended,
                JournalRaises
  <2>2. QED
    BY <2>1
<1>3. CASE LookUp(p) \/ Judge(p) \/ FinishLedger(p) \/ Close(p)
  <2>1. DOMAIN ledger' = DOMAIN ledger
    BY <1>3 DEF LookUp, Judge, FinishLedger, Close, Terminal, Phase
  <2>2. Kept
    BY <1>3, <2>1 DEF LookUp, Judge, FinishLedger, Close
  <2>3. QED
    BY <2>2
<1>4. CASE PatchNoted(p) \/ VerifyAccepts(p) \/ RejectionNoted(p) \/ CommitNoted(p)
  <2>1. DOMAIN ledger' = DOMAIN ledger
    BY <1>4 DEF PatchNoted, VerifyAccepts, RejectionNoted, CommitNoted, RunPhase,
                Terminal, Phase
  <2>2. Kept
    BY <1>4, <2>1 DEF PatchNoted, VerifyAccepts, RejectionNoted, CommitNoted
  <2>3. QED
    BY <2>2
<1>5. CASE RunVerification(p) \/ VerifyRejects(p)
  <2>1. Kept
    BY <1>5, NamesDiffer DEF RunVerification, VerifyRejects
  <2>2. QED
    BY <2>1
<1>6. CASE ApplyPatch(p)
  BY <1>6 DEF ApplyPatch
<1>7. QED
  BY <1>1, <1>2, <1>3, <1>4, <1>5, <1>6 DEF Step

\* The rest of the system's steps write none of them, but for a person's
\* commit and clean-up.
LEMMA WhatOthersWrite ==
  ASSUME IInv, [Next]_vars, \A p \in Procs : ~Step(p)
  PROVE  /\ UNCHANGED history /\ DOMAIN ledger' = DOMAIN ledger
         /\ CommittedOps' = CommittedOps
         /\ tree' \cap Ops \subseteq tree
<1>0. Typed
  BY DEF IInv
<1>1. CASE UNCHANGED vars
  BY <1>1 DEF vars, CommittedOps
<1>2. ASSUME NEW p \in Procs, Startup(p) \/ Resolve(p) \/ Crash(p) \/ CrashWhileRecording(p)
      PROVE  UNCHANGED <<log, tree, ledger, history>>
  BY <1>2 DEF Startup, Resolve, Crash, CrashWhileRecording, RecordHalf
<1>3. ASSUME NEW t \in Tasks, Retry(t) \/ Recover(t)
      PROVE  UNCHANGED <<log, tree, ledger, history>>
  BY <1>3 DEF Retry, Recover
<1>4. ASSUME NEW o \in Ops, CancelIntent(o) \/ RestorePatch(o)
      PROVE  UNCHANGED <<log, history>> /\ DOMAIN ledger' = DOMAIN ledger /\ tree' \subseteq tree
  BY <1>4 DEF CancelIntent, RestorePatch, Terminal
<1>5. CASE OutsideCommit
  <2>1. log' = Append(log, Outside) /\ UNCHANGED <<tree, ledger, history>>
    BY <1>5 DEF OutsideCommit
  <2>2. Range(log') = Range(log) \cup {Outside}
    <3>1. log \in Seq(Ops \cup {Outside})
      BY <1>0 DEF Typed
    <3>2. /\ DOMAIN log' = DOMAIN log \cup {Len(log) + 1}
          /\ log'[Len(log) + 1] = Outside
          /\ \A i \in DOMAIN log : log'[i] = log[i] /\ i # Len(log) + 1
      BY <2>1, <3>1
    <3>3. QED
      BY <3>2 DEF Range
  <2>3. QED
    BY <2>1, <2>2, NamesDiffer DEF CommittedOps
<1>6. CASE OutsideCleans
  BY <1>6 DEF OutsideCleans, CommittedOps
<1>7. QED
  BY <1>1, <1>2, <1>3, <1>4, <1>5, <1>6 DEF Next, Operator, CommittedOps

LEMMA CommitLands ==
  ASSUME IInv, NEW p \in Procs, Commit(p)
  PROVE  /\ UNCHANGED history /\ DOMAIN ledger' = DOMAIN ledger
         /\ tree' \subseteq tree
         /\ \/ UNCHANGED log
            \/ /\ proc[p].op \in tree
               /\ Range(log') = Range(log) \cup {proc[p].op}
<1>1. CASE log' = Append(log, proc[p].op)
  <2>1. log \in Seq(Ops \cup {Outside})
    BY DEF IInv, Typed
  <2>2. /\ DOMAIN log' = DOMAIN log \cup {Len(log) + 1}
        /\ log'[Len(log) + 1] = proc[p].op
        /\ \A i \in DOMAIN log : log'[i] = log[i] /\ i # Len(log) + 1
    <3>1. proc[p].op \in Ops
      BY TypedOps DEF Commit, IInv, LedgerInvariant, ProcessAt, OperationAt, Begun
    <3>2. QED
      BY <1>1, <2>1, <3>1
  <2>3. Range(log') = Range(log) \cup {proc[p].op}
    BY <2>2 DEF Range
  <2>4. CASE UNCHANGED log
    BY <2>4 DEF Commit
  <2>5. CASE log' # log
    BY <2>3, <2>5 DEF Commit
  <2>6. QED
    BY <2>4, <2>5
<1>2. CASE log' # Append(log, proc[p].op)
  BY <1>2 DEF Commit
<1>3. QED
  BY <1>1, <1>2

\* The repository is changed by an operation only for the process that holds
\* the execution lease, and only when every other open operation has its run
\* in the history: two canonical changes never overlap.
THEOREM CanonicalStepsExclude == Spec => CanonicalStepsAreExclusive
<1>1. ASSUME IInv, [Next]_vars, NEW o \in Ops,
             o \in tree' \cup Range(log'), o \notin tree \cup Range(log)
      PROVE  /\ lease # None
             /\ proc[lease].op = o
             /\ o \in OpenOps
             /\ \A q \in OpenOps \ {o} : RowsOf(q) # {}
  <2>1. PICK p \in Procs : ApplyPatch(p)
    <3>1. CASE \A p \in Procs : ~Step(p)
      BY <1>1, <3>1, WhatOthersWrite DEF CommittedOps
    <3>2. CASE \E p \in Procs : Step(p)
      <4>1. PICK p \in Procs : Step(p)
        BY <3>2
      <4>2. ~BeginTask(p) /\ ~Record(p) /\ ~CompleteState(p) /\ ~RecordFailure(p)
        BY <1>1 DEF BeginTask, Record, CompleteState, RecordFailure
      <4>3. ~Commit(p)
        BY <1>1, CommitLands
      <4>4. QED
        BY <1>1, <4>1, <4>2, <4>3, WhatStepsWrite
    <3>3. QED
      BY <3>1, <3>2
  <2>2. /\ proc[p].pc = "begun" /\ ProcessAt(p) /\ Typed /\ None \notin Procs
        /\ tree' = tree \cup {proc[p].op} /\ UNCHANGED log
    BY <1>1, <2>1, NamesDiffer DEF ApplyPatch, IInv, LedgerInvariant
  <2>3. proc[p].op = o /\ lease = p /\ o \in OpenOps
    BY <1>1, <2>2 DEF ProcessAt, HoldsLease, OperationAt, UnderLease, Begun
  <2>4. OpenOps \subseteq KnownRuns \cup {o}
    BY <2>2, <2>3 DEF ProcessAt, OthersRecorded, Begun
  <2>5. \A q \in OpenOps \ {o} : q \in Ops /\ RowsOf(q) # {}
    BY <2>2, <2>4, TypedOps, RowsKnown
  <2>6. QED
    BY <2>2, <2>3, <2>5
<1>2. IInv /\ [Next]_vars =>
        [\A o \in Ops :
          (o \in tree' \cup Range(log')) /\ (o \notin tree \cup Range(log))
             => /\ lease # None
                /\ proc[lease].op = o
                /\ o \in OpenOps
                /\ \A q \in OpenOps \ {o} : RowsOf(q) # {}]_vars
  BY <1>1
<1>3. QED
  BY <1>2, IInvAlways, PTL DEF Spec, CanonicalStepsAreExclusive

LEMMA LedgerStepRefines ==
  IInv /\ [Next]_vars => [Promise!ANext]_(Promise!avars)
<1> SUFFICES ASSUME IInv, [Next]_vars PROVE [Promise!ANext]_(Promise!avars)
  OBVIOUS
<1> USE DEF Promise!avars
<1>0. Typed
  BY DEF IInv
<1>1. CASE \A p \in Procs : ~Step(p)
  BY <1>1, WhatOthersWrite DEF KnownRuns
<1>2. ASSUME NEW p \in Procs, Step(p)
      PROVE  [Promise!ANext]_(Promise!avars)
  <2>0. ProcessAt(p) /\ SnapshotFiled(p) /\ proc[p] \in Command
    BY <1>0, FiledOf DEF IInv, LedgerInvariant, Typed
  <2>1. CASE BeginTask(p)
    <3>1. proc[p].op \in Ops \ DOMAIN ledger
      BY <2>0, <2>1 DEF BeginTask, ProcessAt, OperationAt
    <3>2. CommittedOps' = CommittedOps /\ KnownRuns' = KnownRuns
      BY <2>1 DEF BeginTask, CommittedOps, KnownRuns
    <3>3. DOMAIN ledger' \in {DOMAIN ledger, DOMAIN ledger \cup {proc[p].op}}
      BY <2>1 DEF BeginTask, AddRecord
    <3>4. QED
      BY <3>1, <3>2, <3>3 DEF Promise!ANext, Promise!Declare
  <2>2. CASE Commit(p)
    <3>1. /\ proc[p].op \in Ops /\ proc[p].op \in DOMAIN ledger \ CommittedOps
      BY <1>0, <2>0, <2>2, TypedOps DEF Commit, ProcessAt, OperationAt, Begun
    <3>2. OpenOps \subseteq KnownRuns \cup {proc[p].op}
      BY <2>0, <2>2 DEF Commit, ProcessAt, OthersRecorded, Begun
    <3>3. CommittedOps \subseteq KnownRuns
      BY <3>1, <3>2, UnrecordedIsOpen
    <3>4. /\ DOMAIN ledger' = DOMAIN ledger /\ KnownRuns' = KnownRuns
          /\ CommittedOps' \in {CommittedOps, CommittedOps \cup {proc[p].op}}
      BY <2>2, <3>1, CommitLands DEF KnownRuns, CommittedOps
    <3>5. QED
      BY <3>1, <3>3, <3>4 DEF Promise!ANext, Promise!Land
  <2>3. CASE Record(p)
    <3>1. /\ proc[p].op \in Ops /\ proc[p].task \in Tasks
          /\ proc[p].ok \in BOOLEAN /\ proc[p].commit \in Hashes
      BY <2>0, <2>3 DEF Record, Command, ProcessAt, HasTask, OperationAt, RunPoints, Points
    <3>2. KnownRuns' \in {KnownRuns, KnownRuns \cup {proc[p].op}}
      <4>1. CASE UNCHANGED store
        BY <4>1 DEF store, KnownRuns
      <4>2. CASE RecordResult(proc[p].op, proc[p].task, proc[p].ok, proc[p].commit)
        BY <3>1, <4>2, RecordResultEffect
      <4>3. QED
        BY <2>3, <4>1, <4>2 DEF Record
    <3>3. DOMAIN ledger' = DOMAIN ledger /\ CommittedOps' = CommittedOps
      BY <2>3 DEF Record, CommittedOps
    <3>4. QED
      BY <3>1, <3>2, <3>3 DEF Promise!ANext, Promise!Know
  <2>4. CASE CompleteState(p)
    <3> DEFINE o == proc[p].item
               t == proc[p].todo[o].task
    <3>1. o \in Ops /\ t \in Tasks /\ Full(o) \in Hashes /\ TRUE \in BOOLEAN
      <4>1. o \in DOMAIN proc[p].todo /\ o \in Ops
        BY <1>0, <2>0, <2>4, TypedOps DEF CompleteState, InHand, SnapshotFiled
      <4>2. proc[p].todo[o] \in Recorded
        BY <2>0, <4>1, RecordsType DEF Command
      <4>3. QED
        BY <4>1, <4>2 DEF Recorded, Full, Hashes
    <3>2. KnownRuns' \in {KnownRuns, KnownRuns \cup {o}}
      <4>1. CASE UNCHANGED store
        BY <4>1 DEF store, KnownRuns
      <4>2. CASE RecordResult(o, t, TRUE, Full(o))
        BY <3>1, <4>2, RecordResultEffect
      <4>3. QED
        BY <2>4, <4>1, <4>2 DEF CompleteState
    <3>3. DOMAIN ledger' = DOMAIN ledger /\ CommittedOps' = CommittedOps
      BY <2>4 DEF CompleteState, CommittedOps
    <3>4. QED
      BY <3>1, <3>2, <3>3 DEF Promise!ANext, Promise!Know
  <2>5. CASE RecordFailure(p)
    <3> DEFINE row == [run |-> None, task |-> proc[p].task, ok |-> FALSE,
                       commit |-> None]
    <3>1. proc[p].task \in Tasks
      BY <2>0, <2>5 DEF RecordFailure, ProcessAt, HasTask, RunPoints, Points
    <3>2. row \in RunRow /\ row.run = None /\ history' = Append(history, row)
      BY <2>5, <3>1 DEF RecordFailure, RunRow, Hashes
    <3> HIDE DEF row
    <3>3. KnownRuns' = KnownRuns
      BY <3>2, RowAppended
    <3>4. QED
      BY <2>5, <3>3 DEF RecordFailure, CommittedOps
  <2>6. CASE UNCHANGED <<log, history>> /\ DOMAIN ledger' = DOMAIN ledger
    BY <2>6 DEF CommittedOps, KnownRuns
  <2>7. QED
    BY <1>2, <2>1, <2>2, <2>3, <2>4, <2>5, <2>6, WhatStepsWrite
<1>3. QED
  BY <1>1, <1>2

\* The ledger implements what it promises to the branch and the StateStore: a
\* change is declared before it lands, and lands only when every earlier one
\* is known; nothing declared, landed or known is taken back.
THEOREM LedgerRefines == Spec => ImplementsLedger
<1>1. Init => Promise!AInit
  BY DEF Init, Promise!AInit, CommittedOps, KnownRuns, Range, NoRecords
<1>2. IInv /\ [Next]_vars => [Promise!ANext]_(Promise!avars)
  BY LedgerStepRefines
<1>3. QED
  BY <1>1, <1>2, IInvAlways, PTL DEF Spec, ImplementsLedger, Promise!ASpec

-----------------------------------------------------------------------------
(***************************************************************************)
(* What else a process's steps make of its own command.                    *)
(***************************************************************************)
OthersStay(p) == \A q \in Procs \ {p} : proc'[q] = proc[q]

\* It keeps its place, and what is left of its snapshot.
Narrows(p) ==
    /\ OthersStay(p)
    /\ proc'[p].pc = proc[p].pc
    /\ proc'[p].task = proc[p].task
    /\ proc'[p].op = proc[p].op
    /\ DOMAIN proc'[p].todo \subseteq DOMAIN proc[p].todo
    /\ \A o \in DOMAIN proc'[p].todo : proc'[p].todo[o] = proc[p].todo[o]

\* It takes a new snapshot at a point of a reconciliation.
Starts(p, pc) ==
    /\ OthersStay(p)
    /\ proc'[p].pc = pc
    /\ proc'[p].task = proc[p].task
    /\ proc'[p].op = proc[p].op
    /\ DOMAIN proc'[p].todo \subseteq OpenOps
    /\ \A o \in DOMAIN proc'[p].todo : proc'[p].todo[o] = ledger[o]

\* It goes on to a point of the run.
MovesTo(p, pc) ==
    /\ OthersStay(p)
    /\ proc'[p].pc = pc
    /\ proc'[p].task = proc[p].task
    /\ proc'[p].op = proc[p].op
    /\ proc'[p].todo = proc[p].todo

Ends(p) == OthersStay(p) /\ proc'[p] = Idle

LEMMA GotoMoves ==
  ASSUME Typed, NEW p \in Procs, NEW pc \in Points, Goto(p, pc)
  PROVE  MovesTo(p, pc) /\ proc'[p].commit = proc[p].commit
BY GotoEffect DEF MovesTo, OthersStay

LEMMA ReturnMoves ==
  ASSUME Typed, NEW p \in Procs, NEW ok \in BOOLEAN, NEW hash \in Hashes,
         Return(p, ok, hash)
  PROVE  MovesTo(p, "record") /\ proc'[p].ok = ok
BY ReturnEffect DEF MovesTo, OthersStay

LEMMA ReconcileStarts ==
  ASSUME Typed, NEW p \in Procs, NEW pc \in Points, NEW ops, ops \subseteq OpenOps,
         Reconcile(p, pc, ops)
  PROVE  Starts(p, pc)
BY ReconcileEffect DEF Starts, OthersStay

LEMMA LeaveEnds ==
  ASSUME Typed, NEW p \in Procs, Leave(p)
  PROVE  Ends(p)
BY IdleType, BecomeEffect DEF Leave, Ends, OthersStay

LEMMA RaiseStarts ==
  ASSUME Typed, NEW p \in Procs, Raise(p)
  PROVE  Starts(p, "failing")
<1>1. "failing" \in Points
  BY DEF Points, Reconciling
<1>2. QED
  BY <1>1, ReconcileStarts DEF Raise

LEMMA ReconcileRaisesMoves ==
  ASSUME Typed, NEW p \in Procs, ReconcileRaises(p)
  PROVE  \/ Ends(p)
         \/ proc[p].pc = "checking" /\ Starts(p, "failing")
BY LeaveEnds, RaiseStarts DEF ReconcileRaises

LEMMA NextItemNarrows ==
  ASSUME Typed, NEW p \in Procs, NEW blocked \in BOOLEAN, NextItem(p, blocked)
  PROVE  Narrows(p) /\ proc[p].item \notin DOMAIN proc'[p].todo
BY NextItemEffect DEF Narrows, OthersStay

LEMMA StepNarrows ==
  ASSUME Typed, NEW p \in Procs, NEW s \in {"judge", "write", "finish"},
         Become(p, [proc[p] EXCEPT !.step = s])
  PROVE  Narrows(p)
<1> DEFINE l == [proc[p] EXCEPT !.step = s]
<1>1. proc[p] \in Command
  BY DEF Typed
<1>2. /\ l \in Command /\ l.pc = proc[p].pc /\ l.task = proc[p].task
      /\ l.op = proc[p].op /\ l.todo = proc[p].todo
  BY <1>1 DEF Command
<1>3. Become(p, l)
  OBVIOUS
<1> HIDE DEF l
<1>4. proc'[p] = l /\ OthersStay(p)
  BY <1>2, <1>3, BecomeEffect DEF OthersStay
<1>5. QED
  BY <1>2, <1>4 DEF Narrows

LEMMA TakeItemNarrows ==
  ASSUME IInv, NEW p \in Procs, TakeItem(p)
  PROVE  Narrows(p)
<1>0. Typed /\ SnapshotFiled(p)
  BY FiledOf DEF IInv
<1>1. PICK o \in DOMAIN proc[p].todo : Become(p, [proc[p] EXCEPT !.item = o, !.step = "look"])
  BY DEF TakeItem
<1> DEFINE l == [proc[p] EXCEPT !.item = o, !.step = "look"]
<1>2. proc[p] \in Command /\ o \in Ops
  BY <1>0, TypedOps DEF SnapshotFiled, Typed
<1>3. /\ l \in Command /\ l.pc = proc[p].pc /\ l.task = proc[p].task
      /\ l.op = proc[p].op /\ l.todo = proc[p].todo
  BY <1>2 DEF Command
<1>4. Become(p, l)
  BY <1>1
<1> HIDE DEF l
<1>5. proc'[p] = l /\ OthersStay(p)
  BY <1>0, <1>3, <1>4, BecomeEffect DEF OthersStay
<1>6. QED
  BY <1>3, <1>5 DEF Narrows

\* What a reconciliation does with its item: it leaves the branch and the
\* worktree alone, and writes the record of a known run or of a commit.
ItemWritten(p, rec) ==
    /\ ledger' = [ledger EXCEPT ![proc[p].item] = rec]
    /\ rec \in Recorded
    /\ \/ /\ rec = [ledger[proc[p].item] EXCEPT !.outcome = "complete"]
          /\ ledger[proc[p].item].outcome \in {"open", "complete"}
          /\ proc[p].item \in KnownRuns
          /\ proc[p].item \notin DOMAIN proc'[p].todo
       \/ /\ rec = [proc[p].todo[proc[p].item] EXCEPT !.commit = TRUE]
          /\ rec.outcome = "open"
          /\ proc[p].item \in CommittedOps

ItemSteps(p) == TakeItem(p) \/ LookUp(p) \/ Judge(p) \/ CompleteState(p) \/ FinishLedger(p)

LEMMA ItemOf ==
  ASSUME IInv, NEW p \in Procs, proc[p].item # None
  PROVE  /\ proc[p].item \in DOMAIN ledger /\ proc[p].item \in DOMAIN proc[p].todo
         /\ proc[p].item \in Ops
         /\ proc[p].todo[proc[p].item] \in Recorded
         /\ ledger[proc[p].item] \in Recorded
<1>1. Typed /\ SnapshotFiled(p) /\ proc[p] \in Command
  BY FiledOf DEF IInv, Typed
<1>2. proc[p].item \in DOMAIN ledger /\ proc[p].item \in DOMAIN proc[p].todo
      /\ proc[p].item \in Ops
  BY <1>1, TypedOps DEF SnapshotFiled
<1>3. proc[p].todo[proc[p].item] \in Recorded
  BY <1>1, <1>2, RecordsType DEF Command
<1>4. ledger[proc[p].item] \in Recorded
  BY <1>1, <1>2, RecordsType DEF Typed
<1>5. QED
  BY <1>2, <1>3, <1>4

LEMMA ItemStepMoves ==
  ASSUME IInv, NEW p \in Procs, ItemSteps(p)
  PROVE  /\ proc[p].pc \in Reconciling /\ UNCHANGED <<log, tree>>
         /\ \/ Narrows(p)
            \/ /\ Ends(p) \/ (proc[p].pc = "checking" /\ Starts(p, "failing"))
               /\ UNCHANGED <<ledger, queue, history>>
         /\ CompleteState(p) \/ UNCHANGED <<queue, history>>
         /\ UNCHANGED ledger \/ \E rec \in Recorded : ItemWritten(p, rec)
<1>0. Typed
  BY DEF IInv
<1>1. CASE TakeItem(p)
  BY <1>1, TakeItemNarrows DEF TakeItem
<1>2. CASE LookUp(p)
  <2> DEFINE o == proc[p].item
             rec == [ledger[o] EXCEPT !.outcome = "complete"]
  <2>0. /\ InHand(p, "look") /\ proc[p].pc \in Reconciling /\ o # None
        /\ UNCHANGED <<log, tree, queue, history>>
    BY <1>2 DEF LookUp, InHand
  <2>1. CASE Become(p, [proc[p] EXCEPT !.step = "judge"]) /\ UNCHANGED ledger
    BY <1>0, <2>0, <2>1, StepNarrows
  <2>2. CASE NextItem(p, TRUE) /\ UNCHANGED ledger
    BY <1>0, <2>0, <2>2, NextItemNarrows
  <2>3. CASE ReconcileRaises(p) /\ UNCHANGED ledger
    BY <1>0, <2>0, <2>3, ReconcileRaisesMoves
  <2>4. CASE RowsOf(o) # {} /\ Terminal(o, "complete") /\ NextItem(p, FALSE)
    <3>1. o \in KnownRuns
      BY <1>0, <2>0, <2>4, ItemOf, RowsKnown
    <3>2. rec \in Recorded
      BY <2>0, ItemOf DEF Recorded, Outcomes
    <3>3. ledger' = [ledger EXCEPT ![o] = rec]
      BY <2>4 DEF Terminal
    <3>4. Narrows(p) /\ o \notin DOMAIN proc'[p].todo
      BY <1>0, <2>4, NextItemNarrows
    <3>5. ItemWritten(p, rec)
      BY <2>4, <3>1, <3>2, <3>3, <3>4 DEF ItemWritten, Terminal, TerminalRefused
    <3>6. QED
      BY <2>0, <3>2, <3>4, <3>5
  <2>5. QED
    BY <1>2, <2>1, <2>2, <2>3, <2>4 DEF LookUp
<1>3. CASE Judge(p)
  <2> DEFINE o == proc[p].item
             read == proc[p].todo[o]
             rec == [read EXCEPT !.commit = TRUE]
  <2>0. /\ InHand(p, "judge") /\ proc[p].pc \in Reconciling /\ o # None
        /\ UNCHANGED <<log, tree, queue, history>>
    BY <1>3 DEF Judge, InHand
  <2>1. CASE ~ExactCommit(o, read)
    BY <1>0, <1>3, <2>0, <2>1, NextItemNarrows DEF Judge
  <2>2. CASE ExactCommit(o, read)
    <3>1. Narrows(p)
      BY <1>0, <1>3, <2>2, StepNarrows DEF Judge
    <3>2. ItemAt(p) /\ o \in DOMAIN proc[p].todo /\ read \in Recorded
      BY <2>0, ItemOf DEF IInv, LedgerInvariant, ProcessAt
    <3>3. rec \in Recorded /\ rec.outcome = "open"
      BY <3>2 DEF ItemAt, Recorded
    <3>4. o \in CommittedOps
      BY <2>2 DEF ExactCommit
    <3>5. ledger' = ledger \/ ledger' = [ledger EXCEPT ![o] = rec]
      BY <1>3, <2>2 DEF Judge
    <3>6. UNCHANGED ledger \/ ItemWritten(p, rec)
      BY <3>3, <3>4, <3>5 DEF ItemWritten
    <3>7. QED
      BY <2>0, <3>1, <3>3, <3>6
  <2>3. QED
    BY <2>1, <2>2
<1>4. CASE CompleteState(p)
  <2>0. /\ proc[p].pc \in Reconciling /\ UNCHANGED <<log, tree, ledger>>
    BY <1>4 DEF CompleteState, InHand
  <2>1. CASE ReconcileRaises(p) /\ UNCHANGED store
    BY <1>0, <1>4, <2>0, <2>1, ReconcileRaisesMoves DEF store
  <2>2. CASE Become(p, [proc[p] EXCEPT !.step = "finish"])
    BY <1>0, <1>4, <2>0, <2>2, StepNarrows
  <2>3. QED
    BY <1>4, <2>1, <2>2 DEF CompleteState
<1>5. CASE FinishLedger(p)
  <2> DEFINE o == proc[p].item
             rec == [ledger[o] EXCEPT !.outcome = "complete"]
  <2>0. /\ InHand(p, "finish") /\ proc[p].pc \in Reconciling /\ o # None
        /\ UNCHANGED <<log, tree, queue, history>>
    BY <1>5 DEF FinishLedger, InHand
  <2>1. CASE ReconcileRaises(p) /\ UNCHANGED ledger
    BY <1>0, <2>0, <2>1, ReconcileRaisesMoves
  <2>2. CASE Phase(o, rec) /\ NextItem(p, FALSE)
    <3>1. o \in KnownRuns
      BY <2>0 DEF IInv, LedgerInvariant, ProcessAt, ItemAt
    <3>2. rec \in Recorded
      BY <2>0, ItemOf DEF Recorded, Outcomes
    <3>3. ledger' = [ledger EXCEPT ![o] = rec]
      BY <2>2 DEF Phase
    <3>4. Narrows(p) /\ o \notin DOMAIN proc'[p].todo
      BY <1>0, <2>2, NextItemNarrows
    <3>5. ItemWritten(p, rec)
      BY <2>2, <3>1, <3>2, <3>3, <3>4 DEF ItemWritten, Phase
    <3>6. QED
      BY <2>0, <3>2, <3>4, <3>5
  <2>3. QED
    BY <1>5, <2>1, <2>2 DEF FinishLedger
<1>6. QED
  BY <1>1, <1>2, <1>3, <1>4, <1>5 DEF ItemSteps

\* The operator moves no process and records nothing; what it closes was not
\* committed, and no command holds the lease meanwhile.
Closes(o, outcome) ==
    /\ o \in OpenOps \ CommittedOps
    /\ lease = None
    /\ ledger' = [ledger EXCEPT ![o] = [ledger[o] EXCEPT !.outcome = outcome]]

LEMMA OperatorMoves ==
  ASSUME IInv, Operator
  PROVE  /\ UNCHANGED <<history, lease, proc>>
         /\ CommittedOps' = CommittedOps
         /\ tree' \cap Ops \subseteq tree
         /\ \/ UNCHANGED ledger
            \/ tree' = {} /\ \E o \in Ops : Closes(o, "cancelled") \/ Closes(o, "reverted")
         /\ UNCHANGED queue \/ \E t \in Tasks : Retry(t) \/ Recover(t)
<1>0. Typed
  BY DEF IInv
<1>1. CASE OutsideCommit
  <2>1. log' = Append(log, Outside) /\ UNCHANGED <<tree, ledger, queue, history, lease, proc>>
    BY <1>1 DEF OutsideCommit
  <2>2. /\ DOMAIN log' = DOMAIN log \cup {Len(log) + 1}
        /\ log'[Len(log) + 1] = Outside
        /\ \A i \in DOMAIN log : log'[i] = log[i] /\ i # Len(log) + 1
    BY <1>0, <2>1 DEF Typed
  <2>3. Range(log') = Range(log) \cup {Outside}
    BY <2>2 DEF Range
  <2>4. QED
    BY <2>1, <2>3, NamesDiffer DEF CommittedOps
<1>2. CASE OutsideCleans
  BY <1>2 DEF OutsideCleans, CommittedOps
<1>3. ASSUME NEW t \in Tasks, Retry(t) \/ Recover(t)
      PROVE  UNCHANGED <<log, tree, ledger, history, lease, proc>>
  BY <1>3 DEF Retry, Recover
<1>4. ASSUME NEW o \in Ops, CancelIntent(o)
      PROVE  /\ UNCHANGED <<log, tree, queue, history, lease, proc>> /\ tree = {}
             /\ Closes(o, "cancelled")
  BY <1>4 DEF CancelIntent, NotStarted, Terminal, Closes
<1>5. ASSUME NEW o \in Ops, RestorePatch(o)
      PROVE  /\ UNCHANGED <<log, queue, history, lease, proc>> /\ tree' = {}
             /\ Closes(o, "reverted")
  BY <1>5 DEF RestorePatch, PatchApplied, Terminal, Closes
<1>6. QED
  BY <1>1, <1>2, <1>3, <1>4, <1>5 DEF Operator, CommittedOps

-----------------------------------------------------------------------------
(***************************************************************************)
(* A patch in the worktree.  Its operation is open, not recorded and not   *)
(* committed; a run that has reverted or committed its patch, or returned, *)
(* has none there.                                                         *)
(***************************************************************************)
PatchOfOpen == tree \cap Ops \subseteq OpenOps \ (KnownRuns \cup CommittedOps)

PatchGoneAt == {"reverted", "rejected", "committed", "noted", "record"}

PatchGone(p) == proc[p].pc \in PatchGoneAt => proc[p].op \notin tree

PatchInvariant == PatchOfOpen /\ \A p \in Procs : PatchGone(p)

\* A step of p that puts no patch but its own in the worktree.
LEMMA PatchKept ==
  ASSUME IInv, PatchInvariant, NEW p \in Procs, OthersStay(p),
         tree' \cap Ops \subseteq tree \cup {proc[p].op},
         PatchOfOpen', PatchGone(p)'
  PROVE  PatchInvariant'
<1> SUFFICES ASSUME NEW q \in Procs \ {p}, proc[q].pc \in PatchGoneAt
             PROVE  proc[q].op \notin tree'
  BY DEF PatchInvariant, PatchGone, OthersStay
<1>1. ProcessAt(q) /\ Typed /\ proc[q].op \notin tree
  BY DEF IInv, LedgerInvariant, PatchInvariant, PatchGone
<1>2. proc[q].op \in Ops
  BY <1>1, TypedOps DEF ProcessAt, OperationAt, PatchGoneAt
<1>3. proc[q].op # proc[p].op
  BY <1>2, NamesDiffer DEF IInv, LedgerInvariant, OwnOperations
<1>4. QED
  BY <1>1, <1>2, <1>3

\* A step that writes none of the files a patch is judged by.
LEMMA PatchQuiet ==
  ASSUME IInv, PatchInvariant, NEW p \in Procs, OthersStay(p),
         UNCHANGED <<log, ledger, history>>, tree' \cap Ops \subseteq tree,
         \/ proc'[p].pc \notin PatchGoneAt
         \/ proc'[p].pc \in PatchGoneAt /\ proc[p].pc \in PatchGoneAt /\ proc'[p].op = proc[p].op
         \/ proc[p].op \notin tree' /\ proc'[p].op = proc[p].op
  PROVE  PatchInvariant'
<1>1. OpenOps' = OpenOps /\ KnownRuns' = KnownRuns /\ CommittedOps' = CommittedOps
  BY DEF OpenOps, KnownRuns, CommittedOps
<1>2. PatchOfOpen'
  BY <1>1 DEF PatchInvariant, PatchOfOpen
<1>3. PatchGone(p)'
  <2> SUFFICES ASSUME proc'[p].pc \in PatchGoneAt
               PROVE  proc'[p].op \notin tree'
    BY DEF PatchGone
  <2>1. CASE proc[p].op \notin tree' /\ proc'[p].op = proc[p].op
    BY <2>1
  <2>2. CASE proc[p].pc \in PatchGoneAt /\ proc'[p].op = proc[p].op
    <3>1. ProcessAt(p) /\ Typed /\ proc[p].op \notin tree
      BY <2>2 DEF IInv, LedgerInvariant, PatchInvariant, PatchGone
    <3>2. proc[p].op \in Ops
      BY <2>2, <3>1, TypedOps DEF ProcessAt, OperationAt, PatchGoneAt
    <3>3. QED
      BY <2>2, <3>1, <3>2
  <2>3. QED
    BY <2>1, <2>2
<1>4. QED
  BY <1>2, <1>3, PatchKept

\* A step out of the run, or into a reconciliation.
LEMMA PatchQuietEnd ==
  ASSUME IInv, PatchInvariant, NEW p \in Procs,
         Ends(p) \/ Starts(p, "failing") \/ Starts(p, "checking")
           \/ Starts(p, "startup") \/ Starts(p, "resolving"),
         UNCHANGED <<log, ledger, history>>, tree' \cap Ops \subseteq tree
  PROVE  PatchInvariant'
<1>1. OthersStay(p) /\ proc'[p].pc \notin PatchGoneAt
  BY DEF Ends, Starts, Idle, PatchGoneAt
<1>2. QED
  BY <1>1, PatchQuiet

\* A step that rewrites one record: it stays open, or has no patch.
LEMMA PatchRewritten ==
  ASSUME IInv, PatchInvariant, NEW p \in Procs, OthersStay(p),
         NEW o \in DOMAIN ledger, NEW rec \in Recorded,
         ledger' = [ledger EXCEPT ![o] = rec], UNCHANGED <<log, history>>,
         tree' \cap Ops \subseteq tree, rec.outcome = "open" \/ o \notin tree',
         PatchGone(p)'
  PROVE  PatchInvariant'
<1>1. OpenOps' = IF rec.outcome = "open" THEN OpenOps \cup {o} ELSE OpenOps \ {o}
  BY RecordChanged DEF IInv
<1>2. KnownRuns' = KnownRuns /\ CommittedOps' = CommittedOps
  BY DEF KnownRuns, CommittedOps
<1>3. PatchOfOpen'
  BY <1>1, <1>2 DEF PatchInvariant, PatchOfOpen
<1>4. QED
  BY <1>3, PatchKept

LEMMA PatchItemStep ==
  ASSUME IInv, PatchInvariant, NEW p \in Procs, ItemSteps(p)
  PROVE  PatchInvariant'
<1>0. Typed /\ proc[p].pc \in Reconciling /\ UNCHANGED <<log, tree>>
  BY ItemStepMoves DEF IInv
<1>1. CASE CompleteState(p) /\ ~UNCHANGED <<queue, history>>
  <2> DEFINE o == proc[p].item
  <2>0. /\ InHand(p, "write") /\ o # None /\ UNCHANGED ledger
        /\ RecordResult(o, proc[p].todo[o].task, TRUE, Full(o))
    BY <1>1 DEF CompleteState, InHand, store
  <2>1. o \in CommittedOps /\ o \in Ops /\ proc[p].todo[o].task \in Tasks
    BY <2>0, ItemOf DEF IInv, LedgerInvariant, ProcessAt, ItemAt, Recorded
  <2>f. Full(o) \in Hashes /\ TRUE \in BOOLEAN
    BY <2>1 DEF Full, Hashes
  <2>2. KnownRuns' = KnownRuns \cup {o}
    BY <2>0, <2>1, <2>f, RecordResultEffect
  <2>3. OpenOps' = OpenOps /\ CommittedOps' = CommittedOps
    BY <1>0, <2>0 DEF OpenOps, CommittedOps
  <2>4. PatchOfOpen'
    BY <1>0, <2>1, <2>2, <2>3 DEF PatchInvariant, PatchOfOpen
  <2>5. Narrows(p)
    BY <1>0, <1>1, StepNarrows DEF CompleteState, store
  <2>6. PatchGone(p)'
    BY <1>0, <2>5 DEF Narrows, PatchGone, PatchGoneAt, Reconciling
  <2>7. QED
    BY <1>0, <2>4, <2>5, <2>6, PatchKept DEF Narrows
<1>2. CASE UNCHANGED <<queue, history>> /\ UNCHANGED ledger
  <2>1. CASE Narrows(p)
    BY <1>0, <1>2, <2>1, PatchQuiet DEF Narrows, PatchGoneAt, Reconciling
  <2>2. CASE ~Narrows(p)
    BY <1>0, <1>2, <2>2, ItemStepMoves, PatchQuietEnd
  <2>3. QED
    BY <2>1, <2>2
<1>3. CASE UNCHANGED <<queue, history>> /\ ledger' # ledger
  <2>1. PICK rec \in Recorded : ItemWritten(p, rec)
    BY <1>3, ItemStepMoves
  <2>2. Narrows(p)
    BY <1>3, ItemStepMoves
  <2>3. PatchGone(p)'
    BY <1>0, <2>2 DEF Narrows, PatchGone, PatchGoneAt, Reconciling
  <2>4. proc[p].item \in DOMAIN ledger /\ proc[p].item \in Ops
    <3>1. proc[p].item # None
      BY <1>3 DEF ItemSteps, TakeItem, LookUp, Judge, CompleteState, FinishLedger, InHand
    <3>2. QED
      BY <3>1, ItemOf
  <2>5. rec.outcome = "open" \/ proc[p].item \notin tree
    BY <2>1, <2>4 DEF ItemWritten, PatchInvariant, PatchOfOpen
  <2>6. QED
    BY <1>0, <1>3, <2>1, <2>2, <2>3, <2>4, <2>5, PatchRewritten DEF ItemWritten, Narrows
<1>4. QED
  BY <1>1, <1>2, <1>3, ItemStepMoves DEF ItemSteps, CompleteState

LEMMA PatchRunPhase ==
  ASSUME IInv, PatchInvariant, NEW p \in Procs, NEW changed \in Recorded,
         NEW next \in Points, RunPhase(p, changed, next),
         UNCHANGED <<log, tree, history>>, proc[p].op \in DOMAIN ledger,
         changed.outcome = ledger[proc[p].op].outcome,
         next \in PatchGoneAt => proc[p].pc \in PatchGoneAt
  PROVE  PatchInvariant'
<1> DEFINE o == proc[p].op
<1>0. Typed
  BY DEF IInv
<1>1. CASE Raise(p) /\ UNCHANGED ledger
  BY <1>0, <1>1, RaiseStarts, PatchQuietEnd
<1>2. CASE Phase(o, changed) /\ Goto(p, next)
  <2>1. changed.outcome = "open" /\ ledger' = [ledger EXCEPT ![o] = changed]
    BY <1>2 DEF Phase
  <2>2. MovesTo(p, next)
    BY <1>0, <1>2, GotoMoves
  <2>3. PatchGone(p)'
    BY <2>2 DEF MovesTo, PatchInvariant, PatchGone
  <2>4. QED
    BY <2>1, <2>2, <2>3, PatchRewritten DEF MovesTo
<1>3. QED
  BY <1>1, <1>2 DEF RunPhase

LEMMA PatchRecordSteps ==
  ASSUME IInv, PatchInvariant, NEW p \in Procs,
         PatchNoted(p) \/ VerifyAccepts(p) \/ CommitNoted(p)
  PROVE  PatchInvariant'
<1> DEFINE old == ledger[proc[p].op]
           made == proc[p].commit # None
<1>1. proc[p].op \in DOMAIN ledger /\ old \in Recorded
  BY RunRecorded DEF PatchNoted, VerifyAccepts, CommitNoted, Begun
<1>2. made \in BOOLEAN
  OBVIOUS
<1>3. CASE PatchNoted(p)
  <2>1. /\ [old EXCEPT !.applied = TRUE] \in Recorded
        /\ [old EXCEPT !.applied = TRUE].outcome = old.outcome
    BY <1>1 DEF Recorded
  <2>2. "verify" \in Points \ PatchGoneAt
    BY DEF Points, UnderLease, PatchGoneAt
  <2>3. QED
    BY <1>1, <1>3, <2>1, <2>2, PatchRunPhase DEF PatchNoted
<1>4. CASE VerifyAccepts(p)
  <2>1. /\ [old EXCEPT !.verified = TRUE] \in Recorded
        /\ [old EXCEPT !.verified = TRUE].outcome = old.outcome
    BY <1>1 DEF Recorded
  <2>2. "verified" \in Points \ PatchGoneAt
    BY DEF Points, UnderLease, PatchGoneAt
  <2>3. QED
    BY <1>1, <1>4, <2>1, <2>2, PatchRunPhase DEF VerifyAccepts
<1>5. CASE CommitNoted(p)
  <2>1. proc[p].pc = "committed" /\ RunPhase(p, [old EXCEPT !.commit = made], "noted")
        /\ UNCHANGED <<log, tree, history>>
    BY <1>5 DEF CommitNoted
  <2> HIDE DEF made
  <2>2. /\ [old EXCEPT !.commit = made] \in Recorded
        /\ [old EXCEPT !.commit = made].outcome = old.outcome
    BY <1>1, <1>2 DEF Recorded
  <2>3. "noted" \in Points /\ "committed" \in PatchGoneAt
    BY DEF Points, UnderLease, PatchGoneAt
  <2>4. QED
    BY <1>1, <2>1, <2>2, <2>3, PatchRunPhase
<1>6. QED
  BY <1>3, <1>4, <1>5

\* Before the patch is applied, and after it is gone.
LEMMA PatchMoveSteps ==
  ASSUME IInv, PatchInvariant, NEW p \in Procs,
         \/ Startup(p) \/ Resolve(p) \/ ReconcileEnds(p) \/ Claim(p) \/ NothingToClaim(p)
         \/ WorkRaises(p) \/ WorkFails(p) \/ Enter(p) \/ WorkContended(p)
         \/ PatchRefused(p) \/ RejectionTold(p) \/ ResultReturned(p)
         \/ JournalContended(p) \/ JournalRaises(p)
         \/ Crash(p) \/ CrashWhileRecording(p)
  PROVE  PatchInvariant'
<1>0. Typed /\ UNCHANGED <<log, tree, ledger, history>> /\ proc[p] \in Command
  BY DEF IInv, Typed, Startup, Resolve, ReconcileEnds, Claim, NothingToClaim, WorkRaises,
         WorkFails, Enter, WorkContended, PatchRefused, RejectionTold, ResultReturned,
         JournalContended, JournalRaises, Crash, CrashWhileRecording, RecordHalf
<1>p. {"startup", "resolving", "checking", "failing", "claim", "intent", "fail", "record"}
        \subseteq Points
  BY DEF Points, Reconciling, UnderLease
<1>1. CASE Leave(p) \/ Raise(p)
  BY <1>0, <1>1, LeaveEnds, RaiseStarts, PatchQuietEnd
<1>2. CASE Startup(p) \/ Resolve(p) \/ Enter(p)
  <2>1. \E pc \in {"startup", "resolving", "checking"} : Starts(p, pc)
    <3>1. \A o \in OpenOps : {o} \subseteq OpenOps
      OBVIOUS
    <3>2. QED
      BY <1>0, <1>2, <1>p, <3>1, ReconcileStarts DEF Startup, Resolve, Enter
  <2>2. QED
    BY <1>0, <2>1, PatchQuietEnd
<1>3. CASE Goto(p, "claim") \/ Goto(p, "fail") \/ Goto(p, "intent")
  <2>1. \E pc \in {"claim", "fail", "intent"} : MovesTo(p, pc)
    BY <1>0, <1>3, <1>p, GotoMoves
  <2>2. QED
    BY <1>0, <2>1, PatchQuiet DEF MovesTo, PatchGoneAt
<1>4. CASE Claim(p)
  <2>1. PICK t \in Tasks, o \in Ops : Become(p, [Idle EXCEPT !.pc = "work", !.task = t, !.op = o])
    BY <1>4 DEF Claim
  <2>2. proc'[p].pc = "work" /\ OthersStay(p)
    BY <1>0, <2>1 DEF Become, Typed, Idle, OthersStay
  <2>3. QED
    BY <1>0, <2>2, PatchQuiet DEF PatchGoneAt
<1>5. CASE WorkFails(p) \/ PatchRefused(p)
  <2>1. proc[p].pc \in {"work", "intent"} /\ proc[p].op \in Ops \ DOMAIN ledger
    BY <1>5 DEF WorkFails, PatchRefused, IInv, LedgerInvariant, ProcessAt, OperationAt
  <2>2. proc[p].op \notin tree'
    BY <1>0, <2>1, TypedOps DEF PatchInvariant, PatchOfOpen
  <2>3. MovesTo(p, "record")
    <3>1. CASE WorkFails(p)
      BY <1>0, <1>p, <3>1, GotoMoves DEF WorkFails
    <3>2. CASE PatchRefused(p)
      BY <1>0, <3>2, ReturnMoves DEF PatchRefused, Hashes
    <3>3. QED
      BY <1>5, <3>1, <3>2
  <2>4. QED
    BY <1>0, <2>2, <2>3, PatchQuiet DEF MovesTo
<1>6. CASE RejectionTold(p) /\ Return(p, FALSE, None)
  <2>1. MovesTo(p, "record")
    BY <1>0, <1>6, ReturnMoves DEF Hashes
  <2>2. QED
    BY <1>0, <1>6, <2>1, PatchQuiet DEF RejectionTold, MovesTo, PatchGoneAt
<1>7. CASE ResultReturned(p)
  <2> DEFINE ok == proc[p].commit # None
             hash == proc[p].commit
  <2>1. Return(p, ok, hash) /\ proc[p].pc = "noted"
    BY <1>7 DEF ResultReturned
  <2>2. ok \in BOOLEAN /\ hash \in Hashes
    BY <1>0 DEF Command
  <2> HIDE DEF ok, hash
  <2>3. MovesTo(p, "record")
    BY <1>0, <2>1, <2>2, ReturnMoves
  <2>4. QED
    BY <1>0, <2>1, <2>3, PatchQuiet DEF MovesTo, PatchGoneAt
<1>8. CASE WorkRaises(p) \/ JournalRaises(p) \/ NothingToClaim(p) \/ WorkContended(p)
             \/ JournalContended(p) \/ Crash(p) \/ CrashWhileRecording(p)
  BY <1>1, <1>8 DEF WorkRaises, JournalRaises, NothingToClaim, WorkContended,
             JournalContended, Crash, CrashWhileRecording
<1>9. QED
  BY <1>1, <1>2, <1>3, <1>4, <1>5, <1>6, <1>7, <1>8 DEF ReconcileEnds, RejectionTold

\* The steps that put the patch in the worktree and take it out.
LEMMA PatchTreeSteps ==
  ASSUME IInv, PatchInvariant, NEW p \in Procs,
         ApplyPatch(p) \/ RunVerification(p) \/ VerifyRejects(p) \/ Commit(p)
  PROVE  PatchInvariant'
<1> DEFINE o == proc[p].op
<1>0. /\ Typed /\ ProcessAt(p) /\ proc[p] \in Command
      /\ UNCHANGED <<ledger, queue, history>>
  BY DEF IInv, LedgerInvariant, Typed, ApplyPatch, RunVerification, VerifyRejects, Commit
<1>1. o \in Ops /\ o \in OpenOps \ (KnownRuns \cup CommittedOps)
  BY <1>0, TypedOps DEF ProcessAt, OperationAt, Begun, ApplyPatch, RunVerification,
                        VerifyRejects, Commit
<1>2. OpenOps' = OpenOps /\ KnownRuns' = KnownRuns
  BY <1>0 DEF OpenOps, KnownRuns
<1>3. CASE Raise(p) /\ UNCHANGED <<log, tree>>
  BY <1>0, <1>3, RaiseStarts, PatchQuietEnd
<1>p. {"applied", "judged", "reverted", "committed"} \subseteq Points
  BY DEF Points, UnderLease
<1>4. CASE ApplyPatch(p) /\ tree' = tree \cup {o} /\ Goto(p, "applied")
  <2>1. MovesTo(p, "applied") /\ UNCHANGED log
    BY <1>0, <1>p, <1>4, GotoMoves DEF ApplyPatch
  <2>2. CommittedOps' = CommittedOps
    BY <2>1 DEF CommittedOps
  <2>3. PatchOfOpen' /\ PatchGone(p)'
    BY <1>1, <1>2, <1>4, <2>1, <2>2 DEF PatchInvariant, PatchOfOpen, PatchGone, MovesTo,
                                        PatchGoneAt
  <2>4. QED
    BY <1>4, <2>1, <2>3, PatchKept DEF MovesTo
<1>5. CASE RunVerification(p)
  <2>1. MovesTo(p, "judged") /\ UNCHANGED log
    BY <1>0, <1>p, <1>5, GotoMoves DEF RunVerification
  <2>2. tree' \cap Ops \subseteq tree
    BY <1>5, NamesDiffer DEF RunVerification
  <2>3. QED
    BY <1>0, <2>1, <2>2, PatchQuiet DEF MovesTo, PatchGoneAt
<1>6. CASE VerifyRejects(p) /\ tree' = tree \ {o} /\ Goto(p, "reverted")
  <2>1. MovesTo(p, "reverted") /\ UNCHANGED log
    BY <1>0, <1>p, <1>6, GotoMoves DEF VerifyRejects
  <2>2. QED
    BY <1>0, <1>6, <2>1, PatchQuiet DEF MovesTo
<1>7. CASE Commit(p) /\ log' = Append(log, o) /\ tree' = tree \ {o}
           /\ Become(p, [proc[p] EXCEPT !.pc = "committed", !.commit = Short(o)])
  <2> DEFINE l == [proc[p] EXCEPT !.pc = "committed", !.commit = Short(o)]
  <2>1. Short(o) \in Hashes
    BY <1>1 DEF Short, Hashes
  <2>2. l \in Command /\ l.pc = "committed" /\ l.op = o
    BY <1>0, <1>p, <2>1 DEF Command
  <2>3. Become(p, l)
    BY <1>7
  <2> HIDE DEF l
  <2>4. proc'[p].op = o /\ OthersStay(p)
    BY <1>0, <2>2, <2>3, BecomeEffect DEF OthersStay
  <2>5. CommittedOps' \subseteq CommittedOps \cup {o}
    BY <1>1, <1>7, CommitLands DEF CommittedOps
  <2>6. PatchOfOpen' /\ PatchGone(p)'
    BY <1>2, <1>7, <2>4, <2>5 DEF PatchInvariant, PatchOfOpen, PatchGone
  <2>7. QED
    BY <1>7, <2>4, <2>6, PatchKept
<1>8. CASE Commit(p) /\ o \notin tree /\ Goto(p, "committed") /\ UNCHANGED <<log, tree>>
  <2>1. MovesTo(p, "committed")
    BY <1>0, <1>p, <1>8, GotoMoves
  <2>2. QED
    BY <1>0, <1>8, <2>1, PatchQuiet DEF MovesTo
<1>9. QED
  BY <1>3, <1>4, <1>5, <1>6, <1>7, <1>8 DEF ApplyPatch, VerifyRejects, Commit

\* The records that begin and end a run.
LEMMA PatchBeginStep ==
  ASSUME IInv, PatchInvariant, NEW p \in Procs, BeginTask(p)
  PROVE  PatchInvariant'
<1>0. Typed /\ UNCHANGED <<log, tree, queue, history>>
  BY DEF IInv, BeginTask
<1>1. CASE Raise(p) /\ UNCHANGED ledger
  BY <1>0, <1>1, RaiseStarts, PatchQuietEnd
<1>2. CASE Goto(p, "begun") /\ ~UNCHANGED ledger
  <2> DEFINE rec == [task |-> proc[p].task, baseline |-> Len(log), applied |-> FALSE,
                     verified |-> FALSE, commit |-> FALSE, outcome |-> "open"]
  <2>1. MovesTo(p, "begun")
    BY <1>0, <1>2, GotoMoves DEF Points, UnderLease
  <2>2. AddRecord(proc[p].op, rec)
    BY <1>2 DEF BeginTask
  <2>3. rec.outcome = "open"
    OBVIOUS
  <2> HIDE DEF rec
  <2>4. OpenOps \subseteq OpenOps'
    BY <2>2, <2>3 DEF AddRecord, OpenOps
  <2>5. KnownRuns' = KnownRuns /\ CommittedOps' = CommittedOps
    BY <1>0 DEF KnownRuns, CommittedOps
  <2>6. PatchOfOpen' /\ PatchGone(p)'
    BY <1>0, <2>1, <2>4, <2>5 DEF PatchInvariant, PatchOfOpen, PatchGone, MovesTo, PatchGoneAt
  <2>7. QED
    BY <1>0, <2>1, <2>6, PatchKept DEF MovesTo
<1>3. CASE UNCHANGED ledger /\ Goto(p, "begun")
  <2>1. MovesTo(p, "begun")
    BY <1>0, <1>3, GotoMoves DEF Points, UnderLease
  <2>2. QED
    BY <1>0, <1>3, <2>1, PatchQuiet DEF MovesTo, PatchGoneAt
<1>4. QED
  BY <1>1, <1>2, <1>3 DEF BeginTask

LEMMA PatchRejectionStep ==
  ASSUME IInv, PatchInvariant, NEW p \in Procs, RejectionNoted(p)
  PROVE  PatchInvariant'
<1> DEFINE o == proc[p].op
           rec == [ledger[o] EXCEPT !.outcome = "reverted"]
<1>0. /\ Typed /\ proc[p].pc = "reverted" /\ UNCHANGED <<log, tree, queue, history>>
  BY DEF IInv, RejectionNoted
<1>1. CASE Raise(p) /\ UNCHANGED ledger
  BY <1>0, <1>1, RaiseStarts, PatchQuietEnd
<1>2. CASE Terminal(o, "reverted") /\ Goto(p, "rejected")
  <2>1. o \in DOMAIN ledger /\ rec \in Recorded
    BY <1>0, RunRecorded DEF Recorded, Outcomes
  <2>2. ledger' = [ledger EXCEPT ![o] = rec]
    BY <1>2 DEF Terminal
  <2> HIDE DEF rec
  <2>3. MovesTo(p, "rejected")
    BY <1>0, <1>2, GotoMoves DEF Points, UnderLease
  <2>4. o \notin tree
    BY <1>0 DEF PatchInvariant, PatchGone, PatchGoneAt
  <2>5. PatchGone(p)'
    BY <1>0, <2>3, <2>4 DEF PatchGone, MovesTo
  <2>6. QED
    BY <1>0, <2>1, <2>2, <2>3, <2>4, <2>5, PatchRewritten DEF MovesTo
<1>3. QED
  BY <1>1, <1>2 DEF RejectionNoted

LEMMA PatchStoreSteps ==
  ASSUME IInv, PatchInvariant, NEW p \in Procs, Record(p) \/ Close(p) \/ RecordFailure(p)
  PROVE  PatchInvariant'
<1> DEFINE o == proc[p].op
<1>0. Typed /\ ProcessAt(p) /\ proc[p] \in Command /\ UNCHANGED <<log, tree>>
  BY DEF IInv, LedgerInvariant, Typed, Record, Close, RecordFailure
<1>1. CASE Leave(p) /\ UNCHANGED <<ledger, history>>
  BY <1>0, <1>1, LeaveEnds, PatchQuietEnd
<1>2. CASE /\ Record(p) /\ RecordResult(o, proc[p].task, proc[p].ok, proc[p].commit)
           /\ IF o \in DOMAIN ledger THEN Goto(p, "close") ELSE Become(p, Idle)
  <2>1. /\ o \in Ops /\ proc[p].task \in Tasks /\ proc[p].ok \in BOOLEAN
        /\ proc[p].commit \in Hashes
    BY <1>0, <1>2 DEF Record, Command, ProcessAt, HasTask, OperationAt, RunPoints, Points
  <2>2. KnownRuns' = KnownRuns \cup {o}
    BY <1>2, <2>1, RecordResultEffect
  <2>3. o \notin tree
    BY <1>2 DEF Record, PatchInvariant, PatchGone, PatchGoneAt
  <2>4. OpenOps' = OpenOps /\ CommittedOps' = CommittedOps
    BY <1>0, <1>2 DEF Record, OpenOps, CommittedOps
  <2>5. OthersStay(p) /\ proc'[p].pc \in {"close", "idle"}
    <3>1. CASE Goto(p, "close")
      BY <1>0, <3>1, GotoMoves DEF MovesTo, Points
    <3>2. CASE Become(p, Idle)
      BY <1>0, <3>2, IdleType, BecomeEffect DEF OthersStay, Idle
    <3>3. QED
      BY <1>2, <3>1, <3>2
  <2>6. PatchOfOpen' /\ PatchGone(p)'
    BY <1>0, <2>2, <2>3, <2>4, <2>5 DEF PatchInvariant, PatchOfOpen, PatchGone, PatchGoneAt
  <2>7. QED
    BY <1>0, <2>5, <2>6, PatchKept
<1>3. CASE Close(p) /\ Phase(o, [ledger[o] EXCEPT !.outcome = "complete"])
  <2> DEFINE rec == [ledger[o] EXCEPT !.outcome = "complete"]
  <2>1. o \in DOMAIN ledger \cap KnownRuns /\ o \in Ops
    BY <1>0, <1>3, TypedOps DEF Close, ProcessAt, OperationAt
  <2>2. ledger[o] \in Recorded
    BY <1>0, <2>1, RecordsType DEF Typed
  <2>3. rec \in Recorded /\ ledger' = [ledger EXCEPT ![o] = rec]
    BY <1>3, <2>2 DEF Recorded, Outcomes, Phase
  <2> HIDE DEF rec
  <2>4. OthersStay(p) /\ PatchGone(p)'
    BY <1>0, <1>3, LeaveEnds DEF Close, Ends, PatchGone, PatchGoneAt, Idle
  <2>5. o \notin tree
    BY <2>1 DEF PatchInvariant, PatchOfOpen
  <2>6. QED
    BY <1>0, <1>3, <2>1, <2>3, <2>4, <2>5, PatchRewritten DEF Close
<1>4. CASE RecordFailure(p)
  <2> DEFINE row == [run |-> None, task |-> proc[p].task, ok |-> FALSE, commit |-> None]
  <2>1. proc[p].task \in Tasks
    BY <1>0, <1>4 DEF RecordFailure, ProcessAt, HasTask, RunPoints, Points
  <2>2. row \in RunRow /\ row.run = None /\ history' = Append(history, row)
    BY <1>4, <2>1 DEF RecordFailure, RunRow, Hashes
  <2> HIDE DEF row
  <2>3. KnownRuns' = KnownRuns
    BY <2>2, RowAppended
  <2>4. OpenOps' = OpenOps /\ CommittedOps' = CommittedOps
    BY <1>0, <1>4 DEF RecordFailure, OpenOps, CommittedOps
  <2>5. OthersStay(p) /\ PatchGone(p)'
    BY <1>0, <1>4, LeaveEnds DEF RecordFailure, Ends, PatchGone, PatchGoneAt, Idle
  <2>6. PatchOfOpen'
    BY <1>0, <2>3, <2>4 DEF PatchInvariant, PatchOfOpen
  <2>7. QED
    BY <1>0, <2>5, <2>6, PatchKept
<1>5. QED
  BY <1>1, <1>2, <1>3, <1>4 DEF Record, Close, store

\* The operator closes an operation over a clean worktree, or takes its patch
\* out of it.
LEMMA PatchOperatorStep ==
  ASSUME IInv, PatchInvariant, Operator
  PROVE  PatchInvariant'
<1>0. Typed /\ UNCHANGED proc /\ KnownRuns' = KnownRuns
  BY OperatorMoves DEF IInv, KnownRuns
<1>1. CommittedOps' = CommittedOps /\ tree' \cap Ops \subseteq tree
  BY OperatorMoves
<1>2. \A o \in tree' : o \in OpenOps => o \in OpenOps'
  BY OperatorMoves DEF OpenOps
<1>3. PatchOfOpen'
  BY <1>0, <1>1, <1>2 DEF PatchInvariant, PatchOfOpen
<1>4. ASSUME NEW p \in Procs PROVE PatchGone(p)'
  <2> SUFFICES ASSUME proc[p].pc \in PatchGoneAt PROVE proc[p].op \notin tree'
    BY <1>0 DEF PatchGone
  <2>1. ProcessAt(p) /\ proc[p].op \notin tree
    BY DEF IInv, LedgerInvariant, PatchInvariant, PatchGone
  <2>2. proc[p].op \in Ops
    BY <1>0, <2>1, TypedOps DEF ProcessAt, OperationAt, PatchGoneAt
  <2>3. QED
    BY <1>1, <2>1, <2>2
<1>5. QED
  BY <1>3, <1>4 DEF PatchInvariant

LEMMA PatchNext == IInv /\ PatchInvariant /\ [Next]_vars => PatchInvariant'
<1> SUFFICES ASSUME IInv, PatchInvariant, [Next]_vars PROVE PatchInvariant'
  OBVIOUS
<1>1. CASE UNCHANGED vars
  BY <1>1 DEF vars, PatchInvariant, PatchOfOpen, PatchGone, OpenOps, KnownRuns, CommittedOps
<1>2. CASE Operator
  BY <1>2, PatchOperatorStep
<1>3. ASSUME NEW p \in Procs, Startup(p) \/ Resolve(p) \/ Step(p) \/ Crash(p)
                                \/ CrashWhileRecording(p)
      PROVE  PatchInvariant'
  <2>1. CASE ItemSteps(p)
    BY <2>1, PatchItemStep
  <2>2. CASE ApplyPatch(p) \/ RunVerification(p) \/ VerifyRejects(p) \/ Commit(p)
    BY <2>2, PatchTreeSteps
  <2>3. CASE PatchNoted(p) \/ VerifyAccepts(p) \/ CommitNoted(p)
    BY <2>3, PatchRecordSteps
  <2>4. CASE BeginTask(p) \/ RejectionNoted(p)
    BY <2>4, PatchBeginStep, PatchRejectionStep
  <2>5. CASE Record(p) \/ Close(p) \/ RecordFailure(p)
    BY <2>5, PatchStoreSteps
  <2>6. QED
    BY <1>3, <2>1, <2>2, <2>3, <2>4, <2>5, PatchMoveSteps DEF Step, ItemSteps
<1>4. QED
  BY <1>1, <1>2, <1>3 DEF Next

\* A patch left in the worktree belongs to an operation that is still open: no
\* process, reconciliation or operator command closes an operation over an
\* uncommitted change of its own, however many processes run.
THEOREM PatchesInTreeAreOpen == Spec => []PatchInTreeIsOpen
<1>1. Init => PatchInvariant
  BY DEF Init, PatchInvariant, PatchOfOpen, PatchGone, PatchGoneAt, Idle
<1>2. PatchInvariant => PatchInTreeIsOpen
  BY DEF PatchInvariant, PatchOfOpen, PatchInTreeIsOpen
<1>3. QED
  BY <1>1, <1>2, PatchNext, IInvAlways, PTL DEF Spec

-----------------------------------------------------------------------------
(***************************************************************************)
(* What a stale record can do.                                             *)
(***************************************************************************)
\* A record that is rewritten keeps a terminal outcome, unless the one it is
\* rewritten from was read before.
OutcomesStay ==
    \A o \in DOMAIN ledger :
       ledger[o].outcome \notin {"open", ledger'[o].outcome} =>
          /\ ledger[o].outcome = "complete" /\ ledger'[o].outcome = "open"
          /\ o \in CommittedOps /\ RowsOf(o) # {}

LEMMA RewriteFinal ==
  ASSUME Typed, NEW o \in DOMAIN ledger, NEW rec, ledger' = [ledger EXCEPT ![o] = rec],
         ledger[o].outcome # "open" => rec.outcome = ledger[o].outcome
  PROVE  OutcomesStay
BY DEF OutcomesStay

LEMMA OutcomesFinal ==
  ASSUME IInv, [Next]_vars
  PROVE  OutcomesStay
<1>0. Typed
  BY DEF IInv
<1>1. CASE UNCHANGED ledger
  BY <1>1 DEF OutcomesStay
<1>2. CASE Operator
  <2>1. ASSUME NEW o, NEW outcome, Closes(o, outcome)
        PROVE  OutcomesStay
    BY <1>0, <2>1, RewriteFinal DEF Closes, OpenOps
  <2>2. QED
    BY <1>1, <1>2, <2>1, OperatorMoves
<1>3. ASSUME NEW p \in Procs, ItemSteps(p), ledger' # ledger
      PROVE  OutcomesStay
  <2> DEFINE o == proc[p].item
  <2>1. PICK rec \in Recorded : ItemWritten(p, rec)
    BY <1>3, ItemStepMoves
  <2>2. o # None /\ proc[p].pc \in Reconciling
    BY <1>3 DEF ItemSteps, TakeItem, LookUp, Judge, CompleteState, FinishLedger, InHand
  <2>3. o \in DOMAIN ledger /\ o \in DOMAIN proc[p].todo /\ ledger[o] \in Recorded
    BY <2>2, ItemOf
  <2>4. CASE o \in CommittedOps /\ rec.outcome = "open"
    <3>1. CASE ledger[o].outcome = "open"
      BY <1>0, <2>1, <2>3, <3>1, RewriteFinal DEF ItemWritten
    <3>2. CASE ledger[o].outcome # "open"
      <4>1. ledger[o].outcome \in {"complete", "reverted", "cancelled"}
        BY <2>3, <3>2 DEF Recorded, Outcomes
      <4>2. ledger[o].outcome = "complete" /\ RowsOf(o) # {}
        BY <2>3, <2>4, <4>1 DEF IInv, LedgerInvariant, OutcomesAreTrue
      <4>3. ledger'[o] = rec /\ \A q \in DOMAIN ledger \ {o} : ledger'[q] = ledger[q]
        BY <1>0, <2>1, <2>3 DEF ItemWritten
      <4>4. QED
        BY <2>4, <4>2, <4>3 DEF OutcomesStay
    <3>3. QED
      BY <3>1, <3>2
  <2>5. CASE /\ rec = [ledger[o] EXCEPT !.outcome = "complete"]
             /\ ledger[o].outcome \in {"open", "complete"}
    <3>1. rec.outcome = "complete"
      BY <2>3, <2>5 DEF Recorded
    <3>2. QED
      BY <1>0, <2>1, <2>3, <2>5, <3>1, RewriteFinal DEF ItemWritten
  <2>6. QED
    BY <2>1, <2>4, <2>5 DEF ItemWritten
<1>4. ASSUME NEW p \in Procs, BeginTask(p)
      PROVE  OutcomesStay
  <2>1. UNCHANGED ledger \/ (proc[p].op \notin DOMAIN ledger
                             /\ \E rec : AddRecord(proc[p].op, rec))
    BY <1>4 DEF BeginTask, IInv, LedgerInvariant, ProcessAt, OperationAt
  <2>2. QED
    BY <1>1, <2>1 DEF AddRecord, OutcomesStay
<1>5. ASSUME NEW o \in DOMAIN ledger, NEW changed, Phase(o, changed)
      PROVE  OutcomesStay
  BY <1>0, <1>5, RewriteFinal DEF Phase
<1>6. ASSUME NEW p \in Procs, RejectionNoted(p)
      PROVE  OutcomesStay
  <2> DEFINE o == proc[p].op
  <2>1. CASE Terminal(o, "reverted")
    <3>1. o \in DOMAIN ledger /\ ledger[o] \in Recorded
      BY <1>6, RunRecorded DEF RejectionNoted
    <3>2. /\ ledger' = [ledger EXCEPT ![o] = [ledger[o] EXCEPT !.outcome = "reverted"]]
          /\ ledger[o].outcome \in {"open", "reverted"}
      BY <2>1 DEF Terminal, TerminalRefused
    <3>3. [ledger[o] EXCEPT !.outcome = "reverted"].outcome = "reverted"
      BY <3>1 DEF Recorded
    <3>4. QED
      BY <1>0, <3>1, <3>2, <3>3, RewriteFinal
  <2>2. QED
    BY <1>1, <1>6, <2>1 DEF RejectionNoted
<1>7. ASSUME NEW p \in Procs, PatchNoted(p) \/ VerifyAccepts(p) \/ CommitNoted(p) \/ Close(p)
      PROVE  OutcomesStay
  <2>1. proc[p].op \in DOMAIN ledger
    <3>1. CASE Close(p)
      BY <3>1 DEF Close, IInv, LedgerInvariant, ProcessAt, OperationAt
    <3>2. CASE ~Close(p)
      BY <1>7, <3>2, RunRecorded DEF PatchNoted, VerifyAccepts, CommitNoted, Begun
    <3>3. QED
      BY <3>1, <3>2
  <2>2. UNCHANGED ledger \/ \E changed : Phase(proc[p].op, changed)
    BY <1>7 DEF PatchNoted, VerifyAccepts, CommitNoted, Close, RunPhase
  <2>3. QED
    BY <1>1, <1>5, <2>1, <2>2
<1>8. ASSUME NEW p \in Procs, Startup(p) \/ Resolve(p) \/ Crash(p) \/ CrashWhileRecording(p)
      PROVE  UNCHANGED ledger
  BY <1>8 DEF Startup, Resolve, Crash, CrashWhileRecording
<1>9. ASSUME NEW p \in Procs, Step(p)
      PROVE  OutcomesStay
  <2>1. CASE \/ ReconcileEnds(p) \/ Claim(p) \/ NothingToClaim(p) \/ WorkRaises(p)
             \/ WorkFails(p) \/ Enter(p) \/ WorkContended(p) \/ PatchRefused(p)
             \/ ApplyPatch(p) \/ RunVerification(p) \/ VerifyRejects(p)
             \/ RejectionTold(p) \/ Commit(p) \/ ResultReturned(p)
             \/ JournalContended(p) \/ JournalRaises(p) \/ Record(p) \/ RecordFailure(p)
    BY <1>1, <2>1 DEF ReconcileEnds, Claim, NothingToClaim, WorkRaises, WorkFails, Enter,
         WorkContended, PatchRefused, ApplyPatch, RunVerification, VerifyRejects,
         RejectionTold, Commit, ResultReturned, JournalContended, JournalRaises, Record,
         RecordFailure
  <2>2. QED
    BY <1>1, <1>3, <1>4, <1>6, <1>7, <1>9, <2>1 DEF Step, ItemSteps
<1>10. CASE UNCHANGED vars
  BY <1>1, <1>10 DEF vars
<1>11. QED
  BY <1>1, <1>2, <1>8, <1>9, <1>10 DEF Next

(* OutcomesStand: whatever processes reconcile at once, a stale record opens  *)
(* again only what is committed and recorded; an operation that was reverted *)
(* or cancelled stays so.                                                   *)
THEOREM OutcomesStandAlways == Spec => OutcomesStand
<1>1. IInv /\ [Next]_vars =>
        [\A o \in DOMAIN ledger :
          ledger[o].outcome \notin {"open", ledger'[o].outcome} =>
             /\ ledger[o].outcome = "complete" /\ ledger'[o].outcome = "open"
             /\ o \in CommittedOps /\ RowsOf(o) # {}]_vars
  BY OutcomesFinal DEF OutcomesStay
<1>2. QED
  BY <1>1, IInvAlways, PTL DEF Spec, OutcomesStand

-----------------------------------------------------------------------------
(***************************************************************************)
(* One command at a time.                                                  *)
(***************************************************************************)
OneCommand == \A p, q \in Procs : p = q

-----------------------------------------------------------------------------
(***************************************************************************)
(* Committed work is not redone.  A run's task is running until its result *)
(* is stored, the only commit of it is the run's own, and the run that has *)
(* made it returns a result that is ok.                                    *)
(***************************************************************************)
\* The points of a run that its commit has been made at.
AfterCommit == {"committed", "noted", "record", "close"}

\* A snapshot has the task of every record as it is.
SnapshotTasks(p) ==
    \A o \in DOMAIN proc[p].todo : proc[p].todo[o].task = ledger[o].task

\* A run works on its own record, and what is committed of its task is that.
TaskOwned(p) ==
    LET l == proc[p] IN
    l.pc \in RunPoints =>
       /\ l.op \in DOMAIN ledger => ledger[l.op].task = l.task
       /\ \A o \in CommittedOps :
             ledger[o].task = l.task => o = l.op /\ l.pc \in AfterCommit

\* Until it is released, the task of a run is marked running.
TaskRunning(p) ==
    proc[p].pc \in RunPoints \ {"close"} => queue[proc[p].task].status = "running"

\* The run that has committed holds the hash, and its result is ok.
CommitHeld(p) ==
    LET l == proc[p] IN
    /\ l.pc \in {"committed", "noted"} =>
          /\ l.op \in OpenOps \ KnownRuns
          /\ l.op \in CommittedOps => l.commit # None
    /\ l.pc \in {"rejected", "record"} => l.op \notin KnownRuns
    /\ l.pc = "record" => (l.op \in CommittedOps => l.ok)

RunOfTask(p) == SnapshotTasks(p) /\ TaskOwned(p) /\ TaskRunning(p) /\ CommitHeld(p)

\* The task of a commit the history has is done.
KnownIsDone ==
    \A o \in CommittedOps \cap KnownRuns : queue[ledger[o].task].status = "done"

WorkInvariant ==
    CommittedIsNeverRedone /\ KnownIsDone /\ \A p \in Procs : RunOfTask(p)

\* No record is moved to another task.
TasksStay ==
    /\ DOMAIN ledger \subseteq DOMAIN ledger'
    /\ \A o \in DOMAIN ledger : ledger'[o].task = ledger[o].task

LEMMA TasksRewritten ==
  ASSUME Typed, NEW o \in DOMAIN ledger, NEW rec \in Recorded,
         ledger' = [ledger EXCEPT ![o] = rec], rec.task = ledger[o].task
  PROVE  TasksStay
BY RecordChanged DEF TasksStay

LEMMA WorkKept ==
  ASSUME OneCommand, IInv, WorkInvariant, NEW p \in Procs, TasksStay,
         UNCHANGED <<log, queue>>, KnownRuns' = KnownRuns, RunOfTask(p)'
  PROVE  WorkInvariant'
<1>1. CommittedOps' = CommittedOps /\ CommittedOps \subseteq DOMAIN ledger
  BY DEF CommittedOps, IInv, LedgerInvariant, CommitsAreIntended
<1>2. CommittedIsNeverRedone' /\ KnownIsDone'
  BY <1>1 DEF WorkInvariant, CommittedIsNeverRedone, KnownIsDone, TasksStay
<1>3. QED
  BY <1>2 DEF WorkInvariant, OneCommand

\* A process at rest has no run.
LEMMA EndedHasNone ==
  ASSUME NEW p \in Procs, Ends(p)
  PROVE  RunOfTask(p)'
BY DEF Ends, Idle, NoRecords, RunOfTask, SnapshotTasks, TaskOwned, TaskRunning, CommitHeld,
       RunPoints

LEMMA WorkEnds ==
  ASSUME OneCommand, IInv, WorkInvariant, NEW p \in Procs, TasksStay,
         UNCHANGED <<log, queue, history>>, Ends(p)
  PROVE  WorkInvariant'
<1>1. KnownRuns' = KnownRuns
  BY DEF KnownRuns
<1>2. QED
  BY <1>1, EndedHasNone, WorkKept

LEMMA WorkStarts ==
  ASSUME OneCommand, IInv, WorkInvariant, NEW p \in Procs,
         UNCHANGED <<log, ledger, queue, history>>,
         \/ Starts(p, "startup") \/ Starts(p, "resolving")
         \/ /\ Starts(p, "checking") \/ Starts(p, "failing")
            /\ proc[p].pc \in RunPoints \ AfterCommit
  PROVE  WorkInvariant'
<1>1. KnownRuns' = KnownRuns /\ CommittedOps' = CommittedOps /\ TasksStay
  BY DEF KnownRuns, CommittedOps, TasksStay
<1>2. SnapshotTasks(p)'
  BY DEF SnapshotTasks, Starts
<1>3. proc[p].pc \in RunPoints \ AfterCommit \/ proc'[p].pc \notin RunPoints
  BY DEF Starts, RunPoints
<1>4. TaskOwned(p)' /\ TaskRunning(p)'
  BY <1>1, <1>3 DEF WorkInvariant, RunOfTask, TaskOwned, TaskRunning, Starts, AfterCommit
<1>5. CommitHeld(p)'
  BY DEF CommitHeld, Starts
<1>6. QED
  BY <1>1, <1>2, <1>4, <1>5, WorkKept DEF RunOfTask

LEMMA RaiseKeepsWork ==
  ASSUME OneCommand, IInv, WorkInvariant, NEW p \in Procs, Raise(p),
         UNCHANGED <<log, ledger, queue, history>>, proc[p].pc \in RunPoints \ AfterCommit
  PROVE  WorkInvariant'
BY RaiseStarts, WorkStarts DEF IInv

\* A step of the run before the commit, or of the handler after a failure.
LEMMA WorkMoves ==
  ASSUME OneCommand, IInv, WorkInvariant, NEW p \in Procs, NEW pc \in RunPoints \ AfterCommit,
         MovesTo(p, pc), proc[p].pc \in RunPoints \ AfterCommit, TasksStay,
         UNCHANGED <<log, queue, history>>,
         proc[p].op \in DOMAIN ledger' => ledger'[proc[p].op].task = proc[p].task,
         pc = "rejected" => proc[p].op \notin KnownRuns
  PROVE  WorkInvariant'
<1>1. KnownRuns' = KnownRuns /\ CommittedOps' = CommittedOps
      /\ CommittedOps \subseteq DOMAIN ledger
  BY DEF KnownRuns, CommittedOps, IInv, LedgerInvariant, CommitsAreIntended
<1>2. SnapshotTasks(p)'
  <2>1. DOMAIN proc[p].todo \subseteq DOMAIN ledger
    BY FiledOf DEF SnapshotFiled
  <2>2. QED
    BY <2>1 DEF WorkInvariant, RunOfTask, SnapshotTasks, MovesTo, TasksStay
<1>3. TaskOwned(p)'
  BY <1>1 DEF WorkInvariant, RunOfTask, TaskOwned, MovesTo, TasksStay
<1>4. TaskRunning(p)'
  BY DEF WorkInvariant, RunOfTask, TaskRunning, MovesTo, AfterCommit
<1>5. CommitHeld(p)'
  BY <1>1 DEF CommitHeld, MovesTo, AfterCommit
<1>6. QED
  BY <1>1, <1>2, <1>3, <1>4, <1>5, WorkKept DEF RunOfTask

\* A result returned without a commit.
LEMMA WorkReturns ==
  ASSUME OneCommand, IInv, WorkInvariant, NEW p \in Procs, MovesTo(p, "record"),
         proc[p].pc \in RunPoints \ AfterCommit, proc[p].op \notin KnownRuns,
         UNCHANGED <<log, ledger, queue, history>>
  PROVE  WorkInvariant'
<1>1. KnownRuns' = KnownRuns /\ CommittedOps' = CommittedOps /\ TasksStay
      /\ CommittedOps \subseteq DOMAIN ledger
  BY DEF KnownRuns, CommittedOps, TasksStay, IInv, LedgerInvariant, CommitsAreIntended
<1>2. SnapshotTasks(p)'
  BY DEF WorkInvariant, RunOfTask, SnapshotTasks, MovesTo
<1>3. TaskOwned(p)' /\ proc[p].op \notin CommittedOps
  BY <1>1 DEF WorkInvariant, RunOfTask, TaskOwned, MovesTo
<1>4. TaskRunning(p)'
  BY DEF WorkInvariant, RunOfTask, TaskRunning, MovesTo, AfterCommit
<1>5. CommitHeld(p)'
  BY <1>1, <1>3 DEF CommitHeld, MovesTo
<1>6. QED
  BY <1>1, <1>2, <1>3, <1>4, <1>5, WorkKept DEF RunOfTask

-----------------------------------------------------------------------------
\* What storing a result does to the queue.
LEMMA QueueHalfEffect ==
  ASSUME Typed, NEW t \in Tasks, NEW ok \in BOOLEAN, NEW hash, QueueHalf(t, ok, hash)
  PROVE  /\ queue'[t].status = IF ok THEN "done" ELSE "failed"
         /\ \A s \in Tasks \ {t} : queue'[s] = queue[s]
<1>1. queue \in [Tasks -> Entry] /\ queue[t] \in Entry
  BY DEF Typed
<1>2. queue' = [queue EXCEPT ![t] = [queue[t] EXCEPT !.status = ResultStatus(ok), !.last = hash]]
  BY DEF QueueHalf
<1>3. [queue[t] EXCEPT !.status = ResultStatus(ok), !.last = hash].status = ResultStatus(ok)
  BY <1>1 DEF Entry
<1>4. QED
  BY <1>1, <1>2, <1>3 DEF ResultStatus

\* The first record of a run: its task has the result's status.
LEMMA ResultStored ==
  ASSUME IInv, NEW o \in Ops, NEW t \in Tasks, NEW ok \in BOOLEAN, NEW hash \in Hashes,
         RecordResult(o, t, ok, hash)
  PROVE  /\ \A s \in Tasks \ {t} : queue'[s] = queue[s]
         /\ o \in KnownRuns => UNCHANGED queue
         /\ o \notin KnownRuns => queue'[t].status = IF ok THEN "done" ELSE "failed"
         /\ KnownRuns' = KnownRuns \cup {o}
<1>0. Typed
  BY DEF IInv
<1>1. KnownRuns' = KnownRuns \cup {o}
  BY RecordResultEffect
<1>2. CASE RowsOf(o) # {}
  BY <1>0, <1>1, <1>2, RowsKnown DEF RecordResult, store
<1>3. CASE RowsOf(o) = {} /\ AlreadyQueued(t, ok, hash)
  BY <1>0, <1>1, <1>3, RowsKnown DEF RecordResult, AlreadyQueued, ResultStatus
<1>4. CASE RowsOf(o) = {} /\ ~AlreadyQueued(t, ok, hash)
  BY <1>0, <1>1, <1>4, RowsKnown, QueueHalfEffect DEF RecordResult
<1>5. QED
  BY <1>2, <1>3, <1>4

LEMMA CommittedTask ==
  ASSUME IInv, NEW o \in CommittedOps
  PROVE  o \in DOMAIN ledger /\ o \in Ops /\ ledger[o].task \in Tasks
<1>1. Typed /\ o \in DOMAIN ledger /\ o \in Ops
  BY TypedOps DEF IInv, LedgerInvariant, CommitsAreIntended
<1>2. ledger[o] \in Recorded
  BY <1>1, RecordsType DEF Typed
<1>3. QED
  BY <1>1, <1>2 DEF Recorded

\* A step that changes the status of one task: it becomes done, or has no
\* commit.
LEMMA StatusKept ==
  ASSUME OneCommand, IInv, WorkInvariant, NEW p \in Procs, NEW t \in Tasks,
         \A s \in Tasks \ {t} : queue'[s] = queue[s], CommittedOps' = CommittedOps, TasksStay,
         \/ /\ queue'[t].status = "done"
            /\ \A o \in CommittedOps : o \in KnownRuns' \ KnownRuns => ledger[o].task = t
         \/ /\ \A o \in CommittedOps : ledger[o].task # t
            /\ \A o \in CommittedOps : o \in KnownRuns' => o \in KnownRuns,
         RunOfTask(p)'
  PROVE  WorkInvariant'
<1>1. \A o \in CommittedOps : /\ o \in DOMAIN ledger
                              /\ ledger[o].task \in Tasks
                              /\ ledger'[o].task = ledger[o].task
  BY CommittedTask DEF TasksStay
<1>2. CommittedIsNeverRedone' /\ KnownIsDone'
  BY <1>1 DEF WorkInvariant, CommittedIsNeverRedone, KnownIsDone
<1>3. QED
  BY <1>2 DEF WorkInvariant, OneCommand

LEMMA NarrowsKeeps ==
  ASSUME IInv, WorkInvariant, NEW p \in Procs, Narrows(p), proc[p].pc \in Reconciling,
         TasksStay, DOMAIN ledger' = DOMAIN ledger, UNCHANGED log
  PROVE  SnapshotTasks(p)' /\ TaskOwned(p)' /\ CommitHeld(p)'
<1>1. CommittedOps' = CommittedOps /\ CommittedOps \subseteq DOMAIN ledger
  BY DEF CommittedOps, IInv, LedgerInvariant, CommitsAreIntended
<1>2. SnapshotTasks(p)'
  <2>1. DOMAIN proc[p].todo \subseteq DOMAIN ledger
    BY FiledOf DEF SnapshotFiled
  <2>2. QED
    BY <2>1 DEF WorkInvariant, RunOfTask, SnapshotTasks, Narrows, TasksStay
<1>3. TaskOwned(p)'
  BY <1>1 DEF WorkInvariant, RunOfTask, TaskOwned, Narrows, TasksStay
<1>4. CommitHeld(p)'
  BY DEF CommitHeld, Narrows, Reconciling
<1>5. QED
  BY <1>2, <1>3, <1>4

LEMMA WorkCompleteStep ==
  ASSUME OneCommand, IInv, WorkInvariant, NEW p \in Procs, CompleteState(p),
         ~ReconcileRaises(p) \/ ~UNCHANGED store
  PROVE  WorkInvariant'
<1> DEFINE o == proc[p].item
           t == proc[p].todo[o].task
<1>0. /\ Typed /\ InHand(p, "write") /\ o # None /\ proc[p].pc \in Reconciling
      /\ UNCHANGED <<log, tree, ledger>>
      /\ RecordResult(o, t, TRUE, Full(o))
      /\ Become(p, [proc[p] EXCEPT !.step = "finish"])
  BY DEF IInv, CompleteState, InHand
<1>1. o \in CommittedOps /\ o \in DOMAIN proc[p].todo /\ o \in Ops /\ t \in Tasks
  BY <1>0, ItemOf DEF IInv, LedgerInvariant, ProcessAt, ItemAt, Recorded
<1>2. ledger[o].task = t
  BY <1>1 DEF WorkInvariant, RunOfTask, SnapshotTasks
<1>3. Full(o) \in Hashes /\ TRUE \in BOOLEAN
  BY <1>1 DEF Full, Hashes
<1>4. /\ \A s \in Tasks \ {t} : queue'[s] = queue[s]
      /\ o \in KnownRuns => UNCHANGED queue
      /\ o \notin KnownRuns => queue'[t].status = "done"
      /\ KnownRuns' = KnownRuns \cup {o}
  BY <1>0, <1>1, <1>3, ResultStored
<1>5. queue'[t].status = "done"
  BY <1>1, <1>2, <1>4 DEF WorkInvariant, KnownIsDone
<1>6. Narrows(p) /\ TasksStay /\ CommittedOps' = CommittedOps
  BY <1>0, StepNarrows DEF TasksStay, CommittedOps
<1>7. SnapshotTasks(p)' /\ TaskOwned(p)' /\ CommitHeld(p)'
  BY <1>0, <1>6, NarrowsKeeps
<1>8. TaskRunning(p)'
  <2> SUFFICES ASSUME proc[p].pc \in RunPoints
               PROVE  queue'[proc[p].task].status = "running"
    BY <1>6 DEF TaskRunning, Narrows
  <2>1. proc[p].pc \notin AfterCommit /\ proc[p].task \in Tasks
    BY <1>0 DEF AfterCommit, Reconciling, IInv, LedgerInvariant, ProcessAt, HasTask
  <2>2. proc[p].task # t
    BY <1>1, <1>2, <2>1 DEF WorkInvariant, RunOfTask, TaskOwned
  <2>3. QED
    BY <1>4, <2>1, <2>2 DEF WorkInvariant, RunOfTask, TaskRunning, AfterCommit
<1>9. QED
  BY <1>1, <1>2, <1>4, <1>5, <1>6, <1>7, <1>8, StatusKept DEF RunOfTask

LEMMA WorkItemStep ==
  ASSUME OneCommand, IInv, WorkInvariant, NEW p \in Procs, ItemSteps(p)
  PROVE  WorkInvariant'
<1>0. Typed /\ proc[p].pc \in Reconciling /\ UNCHANGED log
  BY ItemStepMoves DEF IInv
<1>1. CASE CompleteState(p) /\ ~UNCHANGED <<queue, history>>
  BY <1>1, WorkCompleteStep DEF store
<1>2. CASE UNCHANGED <<queue, history>> /\ ~Narrows(p)
  <2>1. /\ UNCHANGED ledger
        /\ Ends(p) \/ (proc[p].pc = "checking" /\ Starts(p, "failing"))
    BY <1>2, ItemStepMoves
  <2>2. TasksStay
    BY <2>1 DEF TasksStay
  <2>3. proc[p].pc = "checking" => proc[p].pc \in RunPoints \ AfterCommit
    BY DEF RunPoints, Points, Reconciling, AfterCommit
  <2>4. QED
    BY <1>0, <1>2, <2>1, <2>2, <2>3, WorkEnds, WorkStarts
<1>3. CASE UNCHANGED <<queue, history>> /\ Narrows(p)
  <2>1. TasksStay /\ DOMAIN ledger' = DOMAIN ledger
    <3>1. CASE UNCHANGED ledger
      BY <3>1 DEF TasksStay
    <3>2. CASE ledger' # ledger
      <4>1. PICK rec \in Recorded : ItemWritten(p, rec)
        BY <3>2, ItemStepMoves
      <4>2. proc[p].item # None
        BY <3>2 DEF ItemSteps, TakeItem, LookUp, Judge, CompleteState, FinishLedger, InHand
      <4>3. /\ proc[p].item \in DOMAIN ledger /\ proc[p].item \in DOMAIN proc[p].todo
            /\ ledger[proc[p].item] \in Recorded /\ proc[p].todo[proc[p].item] \in Recorded
        BY <4>2, ItemOf
      <4>4. proc[p].todo[proc[p].item].task = ledger[proc[p].item].task
        BY <4>3 DEF WorkInvariant, RunOfTask, SnapshotTasks
      <4>5. rec.task = ledger[proc[p].item].task
        BY <4>1, <4>3, <4>4 DEF ItemWritten, Recorded
      <4>6. TasksStay
        BY <1>0, <4>1, <4>3, <4>5, TasksRewritten DEF ItemWritten
      <4>7. DOMAIN ledger' = DOMAIN ledger
        BY <4>1 DEF ItemWritten
      <4>8. QED
        BY <4>6, <4>7
    <3>3. QED
      BY <3>1, <3>2
  <2>2. SnapshotTasks(p)' /\ TaskOwned(p)' /\ CommitHeld(p)'
    BY <1>0, <1>3, <2>1, NarrowsKeeps
  <2>3. TaskRunning(p)'
    BY <1>3 DEF WorkInvariant, RunOfTask, TaskRunning, Narrows
  <2>4. KnownRuns' = KnownRuns
    BY <1>3 DEF KnownRuns
  <2>5. QED
    BY <1>0, <1>3, <2>1, <2>2, <2>3, <2>4, WorkKept DEF RunOfTask
<1>4. QED
  BY <1>1, <1>2, <1>3, ItemStepMoves DEF ItemSteps, CompleteState

-----------------------------------------------------------------------------
\* The run's own steps.
LEMMA WorkMoveSteps ==
  ASSUME OneCommand, JournalErrors = {}, IInv, WorkInvariant, NEW p \in Procs,
         \/ Startup(p) \/ Resolve(p) \/ ReconcileEnds(p) \/ NothingToClaim(p)
         \/ WorkRaises(p) \/ WorkFails(p) \/ Enter(p)
         \/ PatchRefused(p) \/ ApplyPatch(p) \/ RunVerification(p) \/ VerifyRejects(p)
         \/ RejectionTold(p) \/ JournalContended(p) \/ JournalRaises(p) \/ Crash(p)
  PROVE  WorkInvariant'
<1>0. Typed /\ ProcessAt(p) /\ proc[p] \in Command
  BY DEF IInv, Typed, LedgerInvariant
<1>p. {"startup", "resolving", "checking", "failing", "claim", "intent", "fail", "applied",
       "judged", "reverted", "record", "work", "begun", "verify", "rejected"} \subseteq Points
  BY DEF Points, Reconciling, UnderLease
<1>r. {"checking", "failing", "intent", "fail", "applied", "judged", "reverted", "work",
       "begun", "verify", "rejected"} \subseteq RunPoints \ AfterCommit
  BY <1>p DEF RunPoints, AfterCommit
<1>1. ~JournalContended(p) /\ ~JournalRaises(p)
  BY DEF JournalContended, JournalRaises
<1>2. UNCHANGED <<log, ledger, queue, history>> /\ TasksStay
  BY <1>1 DEF Startup, Resolve, ReconcileEnds, NothingToClaim, WorkRaises, WorkFails, Enter,
      PatchRefused, ApplyPatch, RunVerification, VerifyRejects, RejectionTold, Crash, TasksStay
<1>3. CASE Leave(p)
  BY <1>0, <1>2, <1>3, LeaveEnds, WorkEnds
<1>4. CASE Raise(p) /\ proc[p].pc \in RunPoints \ AfterCommit
  BY <1>2, <1>4, RaiseKeepsWork
<1>5. CASE Startup(p) \/ Resolve(p) \/ Enter(p)
  <2>1. \A o \in OpenOps : {o} \subseteq OpenOps
    OBVIOUS
  <2>2. \/ Starts(p, "startup") \/ Starts(p, "resolving")
        \/ Starts(p, "checking") /\ proc[p].pc = "work"
    BY <1>0, <1>5, <1>p, <2>1, ReconcileStarts DEF Startup, Resolve, Enter
  <2>3. QED
    BY <1>2, <1>r, <2>2, WorkStarts
<1>6. CASE Goto(p, "claim") /\ UNCHANGED ledger
  <2>1. MovesTo(p, "claim")
    BY <1>0, <1>p, <1>6, GotoMoves
  <2>2. RunOfTask(p)'
    BY <1>2, <2>1 DEF WorkInvariant, RunOfTask, SnapshotTasks, TaskOwned, TaskRunning,
                      CommitHeld, MovesTo, RunPoints
  <2>3. KnownRuns' = KnownRuns
    BY <1>2 DEF KnownRuns
  <2>4. QED
    BY <1>2, <2>2, <2>3, WorkKept
<1>7. ASSUME NEW pc \in {"intent", "fail", "applied", "judged", "reverted"}, Goto(p, pc),
             proc[p].pc \in RunPoints \ AfterCommit
      PROVE  WorkInvariant'
  <2>1. MovesTo(p, pc) /\ pc \in RunPoints \ AfterCommit /\ pc # "rejected"
    BY <1>0, <1>p, <1>r, <1>7, GotoMoves
  <2>2. proc[p].op \in DOMAIN ledger => ledger[proc[p].op].task = proc[p].task
    BY <1>7 DEF WorkInvariant, RunOfTask, TaskOwned
  <2>3. QED
    BY <1>2, <1>7, <2>1, <2>2, WorkMoves
<1>8. CASE WorkFails(p) \/ PatchRefused(p) \/ (RejectionTold(p) /\ ~Raise(p))
  <2>1. MovesTo(p, "record")
    BY <1>0, <1>p, <1>8, GotoMoves, ReturnMoves DEF WorkFails, PatchRefused, RejectionTold, Hashes
  <2>2. proc[p].pc \in {"work", "intent", "rejected"}
    BY <1>8 DEF WorkFails, PatchRefused, RejectionTold
  <2>3. proc[p].op \notin KnownRuns
    BY <1>0, <2>2 DEF ProcessAt, OperationAt, WorkInvariant, RunOfTask, CommitHeld
  <2>4. QED
    BY <1>2, <1>r, <2>1, <2>2, <2>3, WorkReturns
<1>9. CASE ReconcileEnds(p)
  <2>1. \/ Leave(p)
        \/ Raise(p) /\ proc[p].pc = "checking"
        \/ Goto(p, "claim")
        \/ Goto(p, "fail") /\ proc[p].pc = "failing"
        \/ Goto(p, "intent") /\ proc[p].pc = "checking"
    BY <1>9, <1>r DEF ReconcileEnds
  <2>2. QED
    BY <1>2, <1>3, <1>4, <1>6, <1>7, <1>r, <2>1
<1>10. CASE ApplyPatch(p) \/ RunVerification(p) \/ VerifyRejects(p)
  <2>1. proc[p].pc \in {"begun", "verify", "judged"}
    BY <1>10 DEF ApplyPatch, RunVerification, VerifyRejects
  <2>2. Raise(p) \/ Goto(p, "applied") \/ Goto(p, "judged") \/ Goto(p, "reverted")
    BY <1>10 DEF ApplyPatch, RunVerification, VerifyRejects
  <2>3. QED
    BY <1>4, <1>7, <1>r, <2>1, <2>2
<1>11. CASE WorkRaises(p) \/ (RejectionTold(p) /\ Raise(p))
  BY <1>4, <1>11, <1>r DEF WorkRaises, RejectionTold
<1>12. QED
  BY <1>1, <1>3, <1>5, <1>8, <1>9, <1>10, <1>11 DEF NothingToClaim, Crash

\* A claim, and a task that is put back: no work of it was committed.
LEMMA WorkClaimStep ==
  ASSUME OneCommand, IInv, WorkInvariant, NEW p \in Procs, Claim(p)
  PROVE  WorkInvariant'
<1>0. Typed /\ UNCHANGED <<log, ledger, history>>
  BY DEF IInv, Claim
<1>1. PICK t \in Tasks, o \in Ops \ UsedOps :
         /\ queue[t].status = "queued"
         /\ queue' = [queue EXCEPT ![t] = [status |-> "running", last |-> None,
                                           attempts |-> queue[t].attempts + 1]]
         /\ Become(p, [Idle EXCEPT !.pc = "work", !.task = t, !.op = o])
  BY DEF Claim
<1>2. queue'[t].status = "running" /\ \A s \in Tasks \ {t} : queue'[s] = queue[s]
  BY <1>0, <1>1 DEF Typed
<1>3. /\ OthersStay(p) /\ proc'[p].pc = "work" /\ proc'[p].task = t /\ proc'[p].op = o
      /\ proc'[p].todo = NoRecords
  BY <1>0, <1>1 DEF Become, Typed, Idle, OthersStay
<1>4. /\ CommittedOps' = CommittedOps /\ KnownRuns' = KnownRuns /\ TasksStay
      /\ CommittedOps \subseteq DOMAIN ledger
  BY <1>0 DEF CommittedOps, KnownRuns, TasksStay, IInv, LedgerInvariant, CommitsAreIntended
<1>5. \A q \in CommittedOps : ledger[q].task # t
  BY <1>1 DEF WorkInvariant, CommittedIsNeverRedone
<1>6. o \notin DOMAIN ledger
  BY <1>1 DEF UsedOps
<1>7. SnapshotTasks(p)' /\ CommitHeld(p)'
  BY <1>3 DEF SnapshotTasks, CommitHeld, NoRecords
<1>8. TaskOwned(p)' /\ TaskRunning(p)'
  BY <1>0, <1>2, <1>3, <1>4, <1>5, <1>6 DEF TaskOwned, TaskRunning
<1>9. QED
  BY <1>1, <1>2, <1>4, <1>5, <1>7, <1>8, StatusKept DEF RunOfTask

LEMMA WorkContendedKeeps ==
  ASSUME OneCommand, IInv, WorkInvariant, NEW p \in Procs, WorkContended(p)
  PROVE  WorkInvariant'
<1>0. /\ Typed /\ proc[p].pc = "work" /\ PutBack(proc[p].task) /\ Leave(p)
      /\ UNCHANGED <<log, ledger, history>>
  BY DEF IInv, WorkContended
<1>1. /\ CommittedOps' = CommittedOps /\ KnownRuns' = KnownRuns /\ TasksStay
  BY <1>0 DEF CommittedOps, KnownRuns, TasksStay
<1>2. proc[p].task \in Tasks
  BY <1>0 DEF IInv, LedgerInvariant, ProcessAt, HasTask, RunPoints, Points
<1>3. \A o \in CommittedOps : ledger[o].task # proc[p].task
  BY <1>0 DEF WorkInvariant, RunOfTask, TaskOwned, RunPoints, Points, AfterCommit
<1>4. \A s \in Tasks \ {proc[p].task} : queue'[s] = queue[s]
  BY <1>0 DEF PutBack, Typed
<1>5. RunOfTask(p)'
  BY <1>0, LeaveEnds, EndedHasNone
<1>6. QED
  BY <1>1, <1>2, <1>3, <1>4, <1>5, StatusKept

\* The run's records: a record is written for its own task and keeps it.
LEMMA WorkRecordSteps ==
  ASSUME OneCommand, IInv, WorkInvariant, NEW p \in Procs,
         PatchNoted(p) \/ VerifyAccepts(p) \/ RejectionNoted(p)
  PROVE  WorkInvariant'
<1> DEFINE o == proc[p].op
           old == ledger[o]
<1>0. /\ Typed /\ ProcessAt(p) /\ UNCHANGED <<log, tree, queue, history>>
      /\ proc[p].pc \in {"applied", "judged", "reverted"}
  BY DEF IInv, LedgerInvariant, PatchNoted, VerifyAccepts, RejectionNoted
<1>1. o \in DOMAIN ledger /\ old \in Recorded
  BY <1>0, RunRecorded DEF Begun
<1>2. /\ proc[p].pc \in RunPoints \ AfterCommit
      /\ {"verify", "verified", "rejected"} \subseteq RunPoints \ AfterCommit
      /\ {"verify", "verified", "rejected"} \subseteq Points
  BY <1>0 DEF RunPoints, Points, UnderLease, AfterCommit
<1>3. old.task = proc[p].task
  BY <1>1, <1>2 DEF WorkInvariant, RunOfTask, TaskOwned
<1>4. CASE Raise(p) /\ UNCHANGED ledger
  BY <1>0, <1>2, <1>4, RaiseKeepsWork
<1>5. ASSUME NEW rec \in Recorded, NEW pc \in {"verify", "verified", "rejected"},
             rec.task = old.task, ledger' = [ledger EXCEPT ![o] = rec], Goto(p, pc),
             pc = "rejected" => proc[p].pc = "reverted"
      PROVE  WorkInvariant'
  <2>1. MovesTo(p, pc)
    BY <1>0, <1>2, <1>5, GotoMoves
  <2>2. TasksStay /\ ledger'[o].task = proc[p].task
    BY <1>0, <1>1, <1>3, <1>5, TasksRewritten, RecordChanged
  <2>3. pc = "rejected" => o \notin KnownRuns
    BY <1>0, <1>5 DEF ProcessAt, OperationAt
  <2>4. QED
    BY <1>0, <1>2, <2>1, <2>2, <2>3, WorkMoves
<1>6. CASE PatchNoted(p)
  <2>1. [old EXCEPT !.applied = TRUE] \in Recorded /\ [old EXCEPT !.applied = TRUE].task = old.task
    BY <1>1 DEF Recorded
  <2>2. QED
    BY <1>4, <1>5, <1>6, <2>1 DEF PatchNoted, RunPhase, Phase
<1>7. CASE VerifyAccepts(p)
  <2>1. [old EXCEPT !.verified = TRUE] \in Recorded /\ [old EXCEPT !.verified = TRUE].task = old.task
    BY <1>1 DEF Recorded
  <2>2. QED
    BY <1>4, <1>5, <1>7, <2>1 DEF VerifyAccepts, RunPhase, Phase
<1>8. CASE RejectionNoted(p)
  <2>1. /\ [old EXCEPT !.outcome = "reverted"] \in Recorded
        /\ [old EXCEPT !.outcome = "reverted"].task = old.task
    BY <1>1 DEF Recorded, Outcomes
  <2>2. Terminal(o, "reverted") => ledger' = [ledger EXCEPT ![o] = [old EXCEPT !.outcome = "reverted"]]
    BY DEF Terminal
  <2>3. QED
    BY <1>4, <1>5, <1>8, <2>1, <2>2 DEF RejectionNoted
<1>9. QED
  BY <1>6, <1>7, <1>8

LEMMA WorkBeginStep ==
  ASSUME OneCommand, IInv, WorkInvariant, NEW p \in Procs, BeginTask(p)
  PROVE  WorkInvariant'
<1> DEFINE o == proc[p].op
           rec == [task |-> proc[p].task, baseline |-> Len(log), applied |-> FALSE,
                   verified |-> FALSE, commit |-> FALSE, outcome |-> "open"]
<1>0. /\ Typed /\ ProcessAt(p) /\ UNCHANGED <<log, tree, queue, history>>
      /\ proc[p].pc = "intent"
  BY DEF IInv, LedgerInvariant, BeginTask
<1>1. proc[p].pc \in RunPoints \ AfterCommit /\ "begun" \in RunPoints \ AfterCommit
      /\ "begun" \in Points
  BY <1>0 DEF RunPoints, Points, UnderLease, AfterCommit
<1>2. CASE Raise(p) /\ UNCHANGED ledger
  BY <1>0, <1>1, <1>2, RaiseKeepsWork
<1>3. CASE AddRecord(o, rec) /\ Goto(p, "begun")
  <2>1. o \notin DOMAIN ledger
    BY <1>0 DEF ProcessAt, OperationAt
  <2>2. rec.task = proc[p].task
    OBVIOUS
  <2>3. AddRecord(o, rec)
    BY <1>3
  <2> HIDE DEF rec
  <2>4. TasksStay /\ ledger'[o].task = proc[p].task
    BY <2>1, <2>2, <2>3 DEF AddRecord, TasksStay
  <2>5. MovesTo(p, "begun")
    BY <1>0, <1>1, <1>3, GotoMoves
  <2>6. QED
    BY <1>0, <1>1, <2>4, <2>5, WorkMoves
<1>4. QED
  BY <1>2, <1>3 DEF BeginTask

\* The commit is the first of its task.
LEMMA WorkCommitStep ==
  ASSUME OneCommand, IInv, WorkInvariant, NEW p \in Procs, Commit(p)
  PROVE  WorkInvariant'
<1> DEFINE o == proc[p].op
           l == [proc[p] EXCEPT !.pc = "committed", !.commit = Short(o)]
<1>0. /\ Typed /\ ProcessAt(p) /\ proc[p] \in Command /\ proc[p].pc = "verified"
      /\ UNCHANGED <<ledger, queue, history>>
  BY DEF IInv, LedgerInvariant, Typed, Commit
<1>1. /\ o \in OpenOps \ (KnownRuns \cup CommittedOps) /\ o \in DOMAIN ledger /\ o \in Ops
  BY <1>0, TypedOps DEF ProcessAt, OperationAt, Begun
<1>p. /\ proc[p].pc \in RunPoints \ AfterCommit
      /\ "committed" \in RunPoints \cap AfterCommit /\ "committed" \in Points
  BY <1>0 DEF RunPoints, Points, UnderLease, AfterCommit
<1>2. /\ OpenOps' = OpenOps /\ KnownRuns' = KnownRuns /\ TasksStay
  BY <1>0 DEF OpenOps, KnownRuns, TasksStay
<1>3. /\ ledger[o].task = proc[p].task
      /\ \A q \in CommittedOps : ledger[q].task # proc[p].task
      /\ queue[proc[p].task].status = "running"
  BY <1>1, <1>p DEF WorkInvariant, RunOfTask, TaskOwned, TaskRunning, AfterCommit
<1>4. CASE Raise(p) /\ UNCHANGED <<log, tree>>
  BY <1>0, <1>4, <1>p, RaiseKeepsWork
<1>5. CASE /\ OthersStay(p) /\ proc'[p].pc = "committed"
           /\ proc'[p].task = proc[p].task /\ proc'[p].op = o
           /\ proc'[p].todo = proc[p].todo
           /\ CommittedOps' \subseteq CommittedOps \cup {o}
           /\ CommittedOps' = CommittedOps \/ proc'[p].commit # None
  <2>1. SnapshotTasks(p)'
    BY <1>0, <1>5 DEF WorkInvariant, RunOfTask, SnapshotTasks
  <2>2. TaskOwned(p)' /\ TaskRunning(p)'
    BY <1>0, <1>3, <1>5, <1>p DEF TaskOwned, TaskRunning
  <2>3. CommitHeld(p)'
    BY <1>1, <1>2, <1>5 DEF CommitHeld
  <2>4. CommittedIsNeverRedone' /\ KnownIsDone'
    BY <1>0, <1>1, <1>2, <1>3, <1>5 DEF WorkInvariant, CommittedIsNeverRedone, KnownIsDone
  <2>5. QED
    BY <2>1, <2>2, <2>3, <2>4 DEF WorkInvariant, RunOfTask, OneCommand
<1>6. CASE Goto(p, "committed") /\ UNCHANGED log
  <2>1. MovesTo(p, "committed")
    BY <1>0, <1>p, <1>6, GotoMoves
  <2>2. CommittedOps' = CommittedOps
    BY <1>6 DEF CommittedOps
  <2>3. QED
    BY <1>5, <2>1, <2>2 DEF MovesTo
<1>7. CASE Become(p, l)
  <2>s. Short(o) \in [op: Ops, full: BOOLEAN]
    BY <1>1 DEF Short
  <2>1. Short(o) \in Hashes /\ Short(o) # None
    BY <2>s, NamesDiffer DEF Hashes
  <2>2. /\ l \in Command /\ l.pc = "committed" /\ l.op = o /\ l.task = proc[p].task
        /\ l.todo = proc[p].todo /\ l.commit # None
    BY <1>0, <1>p, <2>1 DEF Command
  <2>3. Become(p, l)
    BY <1>7
  <2> HIDE DEF l
  <2>4. proc'[p] = l /\ OthersStay(p)
    BY <1>0, <2>2, <2>3, BecomeEffect DEF OthersStay
  <2>5. CommittedOps' \subseteq CommittedOps \cup {o}
    BY CommitLands DEF CommittedOps
  <2>6. QED
    BY <1>5, <2>2, <2>4, <2>5
<1>8. QED
  BY <1>4, <1>6, <1>7 DEF Commit

\* With one command, nothing closes its operation before it notes the commit.
LEMMA WorkNotedStep ==
  ASSUME OneCommand, IInv, WorkInvariant, NEW p \in Procs, CommitNoted(p)
  PROVE  WorkInvariant'
<1> DEFINE o == proc[p].op
           made == proc[p].commit # None
           rec == [ledger[o] EXCEPT !.commit = made]
<1>0. /\ Typed /\ proc[p].pc = "committed" /\ UNCHANGED <<log, tree, queue, history>>
      /\ RunPhase(p, rec, "noted")
  BY DEF IInv, CommitNoted
<1>1. o \in DOMAIN ledger /\ ledger[o] \in Recorded
  BY <1>0, RunRecorded
<1>2. o \in OpenOps \ KnownRuns /\ (o \in CommittedOps => proc[p].commit # None)
  BY <1>0 DEF WorkInvariant, RunOfTask, CommitHeld
<1>3. made \in BOOLEAN
  OBVIOUS
<1> HIDE DEF made
<1>4. rec \in Recorded /\ rec.task = ledger[o].task /\ rec.outcome = ledger[o].outcome
  BY <1>1, <1>3 DEF Recorded
<1>5. ledger' = [ledger EXCEPT ![o] = rec] /\ Goto(p, "noted") /\ rec.outcome = "open"
  BY <1>0, <1>2, <1>4 DEF RunPhase, Phase, OpenOps
<1> HIDE DEF rec
<1>6. MovesTo(p, "noted") /\ proc'[p].commit = proc[p].commit
  BY <1>0, <1>5, GotoMoves DEF Points, UnderLease
<1>7. TasksStay
  BY <1>0, <1>1, <1>4, <1>5, TasksRewritten
<1>8. DOMAIN ledger' = DOMAIN ledger /\ OpenOps' = OpenOps \cup {o}
  BY <1>0, <1>1, <1>4, <1>5, RecordChanged
<1>9. /\ KnownRuns' = KnownRuns /\ CommittedOps' = CommittedOps
      /\ CommittedOps \subseteq DOMAIN ledger /\ DOMAIN proc[p].todo \subseteq DOMAIN ledger
  BY <1>0, FiledOf DEF KnownRuns, CommittedOps, IInv, LedgerInvariant, CommitsAreIntended,
                       SnapshotFiled
<1>10. {"committed", "noted"} \subseteq RunPoints \cap AfterCommit
  BY DEF RunPoints, Points, UnderLease, AfterCommit
<1>11. SnapshotTasks(p)'
  BY <1>6, <1>7, <1>9 DEF WorkInvariant, RunOfTask, SnapshotTasks, MovesTo, TasksStay
<1>12. TaskOwned(p)' /\ TaskRunning(p)'
  BY <1>0, <1>6, <1>7, <1>8, <1>9, <1>10 DEF WorkInvariant, RunOfTask, TaskOwned, TaskRunning,
                                             MovesTo, TasksStay
<1>13. CommitHeld(p)'
  BY <1>2, <1>6, <1>8, <1>9 DEF CommitHeld, MovesTo
<1>14. QED
  BY <1>0, <1>7, <1>9, <1>11, <1>12, <1>13, WorkKept DEF RunOfTask

LEMMA WorkReturnStep ==
  ASSUME OneCommand, IInv, WorkInvariant, NEW p \in Procs, ResultReturned(p)
  PROVE  WorkInvariant'
<1> DEFINE ok == proc[p].commit # None
           hash == proc[p].commit
<1>0. /\ Typed /\ proc[p].pc = "noted" /\ UNCHANGED <<log, tree, ledger, queue, history>>
      /\ Return(p, ok, hash)
  BY DEF IInv, ResultReturned
<1>1. ok \in BOOLEAN /\ hash \in Hashes
  BY <1>0 DEF Typed, Command
<1>2. proc[p].op \notin KnownRuns /\ (proc[p].op \in CommittedOps => ok)
  BY <1>0 DEF WorkInvariant, RunOfTask, CommitHeld
<1> HIDE DEF ok, hash
<1>3. MovesTo(p, "record") /\ proc'[p].ok = ok
  BY <1>0, <1>1, ReturnMoves
<1>4. KnownRuns' = KnownRuns /\ CommittedOps' = CommittedOps /\ TasksStay
  BY <1>0 DEF KnownRuns, CommittedOps, TasksStay
<1>5. {"noted", "record"} \subseteq RunPoints \cap AfterCommit
  BY DEF RunPoints, Points, UnderLease, AfterCommit
<1>6. SnapshotTasks(p)'
  BY <1>0, <1>3 DEF WorkInvariant, RunOfTask, SnapshotTasks, MovesTo
<1>7. TaskOwned(p)' /\ TaskRunning(p)'
  BY <1>0, <1>3, <1>4, <1>5 DEF WorkInvariant, RunOfTask, TaskOwned, TaskRunning, MovesTo
<1>8. CommitHeld(p)'
  BY <1>2, <1>3, <1>4 DEF CommitHeld, MovesTo
<1>9. QED
  BY <1>0, <1>4, <1>6, <1>7, <1>8, WorkKept DEF RunOfTask

-----------------------------------------------------------------------------
\* The run's result reaches the queue: it is ok when its commit was made.
LEMMA WorkResultStored ==
  ASSUME OneCommand, IInv, WorkInvariant, NEW p \in Procs, proc[p].pc = "record",
         UNCHANGED <<log, tree, ledger>>, RunOfTask(p)',
         \A s \in Tasks \ {proc[p].task} : queue'[s] = queue[s],
         queue'[proc[p].task].status = IF proc[p].ok THEN "done" ELSE "failed",
         KnownRuns' \subseteq KnownRuns \cup {proc[p].op}
  PROVE  WorkInvariant'
<1>1. proc[p].pc \in RunPoints /\ proc[p].task \in Tasks
  BY DEF RunPoints, Points, IInv, LedgerInvariant, ProcessAt, HasTask
<1>2. \A o \in CommittedOps : ledger[o].task = proc[p].task <=> o = proc[p].op
  BY <1>1, CommittedTask DEF WorkInvariant, RunOfTask, TaskOwned
<1>3. proc[p].op \in CommittedOps => proc[p].ok
  BY DEF WorkInvariant, RunOfTask, CommitHeld
<1>4. CommittedOps' = CommittedOps /\ TasksStay
  BY DEF CommittedOps, TasksStay
<1>5. CASE proc[p].op \in CommittedOps
  <2>1. queue'[proc[p].task].status = "done"
    BY <1>3, <1>5
  <2>2. \A o \in CommittedOps : o \in KnownRuns' \ KnownRuns => ledger[o].task = proc[p].task
    BY <1>2
  <2>3. QED
    BY <1>1, <1>4, <2>1, <2>2, StatusKept
<1>6. CASE proc[p].op \notin CommittedOps
  <2>1. \A o \in CommittedOps : /\ ledger[o].task # proc[p].task
                                /\ o \in KnownRuns' => o \in KnownRuns
    BY <1>2, <1>6
  <2>2. QED
    BY <1>1, <1>4, <2>1, StatusKept
<1>7. QED
  BY <1>5, <1>6

LEMMA WorkRecordStep ==
  ASSUME OneCommand, IInv, WorkInvariant, NEW p \in Procs, Record(p)
  PROVE  WorkInvariant'
<1>0. /\ Typed /\ ProcessAt(p) /\ proc[p] \in Command /\ proc[p].pc = "record"
      /\ UNCHANGED <<log, tree, ledger>>
  BY DEF IInv, LedgerInvariant, Typed, Record
<1>1. /\ proc[p].op \in Ops /\ proc[p].task \in Tasks
      /\ proc[p].ok \in BOOLEAN /\ proc[p].commit \in Hashes
  BY <1>0 DEF Command, ProcessAt, HasTask, OperationAt, RunPoints, Points
<1>2. CommittedOps' = CommittedOps /\ TasksStay
  BY <1>0 DEF CommittedOps, TasksStay
<1>3. CASE Leave(p) /\ UNCHANGED store
  BY <1>0, <1>2, <1>3, LeaveEnds, WorkEnds DEF store
<1>4. CASE /\ RecordResult(proc[p].op, proc[p].task, proc[p].ok, proc[p].commit)
           /\ IF proc[p].op \in DOMAIN ledger THEN Goto(p, "close") ELSE Become(p, Idle)
  <2>1. proc[p].op \notin KnownRuns
    BY <1>0 DEF WorkInvariant, RunOfTask, CommitHeld
  <2>2. /\ \A s \in Tasks \ {proc[p].task} : queue'[s] = queue[s]
        /\ queue'[proc[p].task].status = IF proc[p].ok THEN "done" ELSE "failed"
        /\ KnownRuns' = KnownRuns \cup {proc[p].op}
    BY <1>1, <1>4, <2>1, ResultStored
  <2>3. RunOfTask(p)'
    <3>1. CASE Goto(p, "close")
      <4>1. MovesTo(p, "close")
        BY <1>0, <3>1, GotoMoves DEF Points
      <4>2. "record" \in RunPoints /\ "close" \in AfterCommit
        BY DEF RunPoints, Points, AfterCommit
      <4>3. SnapshotTasks(p)'
        BY <1>0, <4>1 DEF WorkInvariant, RunOfTask, SnapshotTasks, MovesTo
      <4>4. TaskOwned(p)' /\ TaskRunning(p)'
        BY <1>0, <1>2, <4>1, <4>2 DEF WorkInvariant, RunOfTask, TaskOwned, TaskRunning, MovesTo
      <4>5. CommitHeld(p)'
        BY <4>1 DEF CommitHeld, MovesTo
      <4>6. QED
        BY <4>3, <4>4, <4>5 DEF RunOfTask
    <3>2. CASE Become(p, Idle)
      BY <1>0, <3>2, IdleType, BecomeEffect, EndedHasNone DEF Ends, OthersStay
    <3>3. QED
      BY <1>4, <3>1, <3>2
  <2>4. QED
    BY <1>0, <2>2, <2>3, WorkResultStored
<1>5. QED
  BY <1>3, <1>4 DEF Record

\* A failure is stored only for a task without a commit.
LEMMA WorkFailureStored ==
  ASSUME OneCommand, IInv, WorkInvariant, NEW p \in Procs, proc[p].pc = "fail",
         UNCHANGED <<log, ledger>>, KnownRuns' = KnownRuns, Ends(p), FailureQueued(proc[p].task)
  PROVE  WorkInvariant'
<1>1. proc[p].pc \in RunPoints \ AfterCommit /\ proc[p].task \in Tasks
  BY DEF RunPoints, Points, AfterCommit, IInv, LedgerInvariant, ProcessAt, HasTask
<1>2. \A o \in CommittedOps : ledger[o].task # proc[p].task
  BY <1>1 DEF WorkInvariant, RunOfTask, TaskOwned
<1>3. CommittedOps' = CommittedOps /\ TasksStay
  BY DEF CommittedOps, TasksStay
<1>4. \A s \in Tasks \ {proc[p].task} : queue'[s] = queue[s]
  BY DEF FailureQueued, IInv, Typed
<1>5. QED
  BY <1>1, <1>2, <1>3, <1>4, EndedHasNone, StatusKept

LEMMA WorkFailureStep ==
  ASSUME OneCommand, IInv, WorkInvariant, NEW p \in Procs, RecordFailure(p)
  PROVE  WorkInvariant'
<1> DEFINE row == [run |-> None, task |-> proc[p].task, ok |-> FALSE, commit |-> None]
<1>0. /\ Typed /\ ProcessAt(p) /\ proc[p].pc = "fail" /\ Leave(p)
      /\ FailureQueued(proc[p].task) /\ history' = Append(history, row)
      /\ UNCHANGED <<log, tree, ledger>>
  BY DEF IInv, LedgerInvariant, RecordFailure
<1>1. proc[p].task \in Tasks
  BY <1>0 DEF ProcessAt, HasTask, RunPoints, Points
<1>2. row \in RunRow /\ row.run = None
  BY <1>1 DEF RunRow, Hashes
<1> HIDE DEF row
<1>3. KnownRuns' = KnownRuns
  BY <1>0, <1>2, RowAppended
<1>4. QED
  BY <1>0, <1>3, LeaveEnds, WorkFailureStored

LEMMA WorkCloseStep ==
  ASSUME OneCommand, IInv, WorkInvariant, NEW p \in Procs, Close(p)
  PROVE  WorkInvariant'
<1> DEFINE o == proc[p].op
           rec == [ledger[o] EXCEPT !.outcome = "complete"]
<1>0. /\ Typed /\ ProcessAt(p) /\ proc[p].pc = "close" /\ Leave(p)
      /\ UNCHANGED <<log, tree, queue, history>>
      /\ UNCHANGED ledger \/ ledger' = [ledger EXCEPT ![o] = rec]
  BY DEF IInv, LedgerInvariant, Close, Phase
<1>1. o \in DOMAIN ledger /\ ledger[o] \in Recorded
  BY <1>0, RecordsType DEF ProcessAt, OperationAt, Typed
<1>2. rec \in Recorded /\ rec.task = ledger[o].task
  BY <1>1 DEF Recorded, Outcomes
<1> HIDE DEF rec
<1>3. TasksStay
  <2>1. CASE UNCHANGED ledger
    BY <2>1 DEF TasksStay
  <2>2. CASE ledger' = [ledger EXCEPT ![o] = rec]
    BY <1>0, <1>1, <1>2, <2>2, TasksRewritten
  <2>3. QED
    BY <1>0, <2>1, <2>2
<1>4. QED
  BY <1>0, <1>3, LeaveEnds, WorkEnds

\* A crash between the two files of a result leaves the queue as the result
\* would have left it.
LEMMA WorkCrashStep ==
  ASSUME OneCommand, IInv, WorkInvariant, NEW p \in Procs, CrashWhileRecording(p)
  PROVE  WorkInvariant'
<1>0. /\ Typed /\ ProcessAt(p) /\ proc[p] \in Command /\ Ends(p)
      /\ UNCHANGED <<log, tree, ledger>>
  BY LeaveEnds DEF IInv, LedgerInvariant, Typed, CrashWhileRecording
<1>1. CASE proc[p].pc = "record" /\ RecordHalf(proc[p].op, proc[p].task, proc[p].ok, proc[p].commit)
  <2>1. proc[p].task \in Tasks /\ proc[p].ok \in BOOLEAN
    BY <1>0, <1>1 DEF Command, ProcessAt, HasTask, RunPoints, Points
  <2>2. /\ \A s \in Tasks \ {proc[p].task} : queue'[s] = queue[s]
        /\ queue'[proc[p].task].status = IF proc[p].ok THEN "done" ELSE "failed"
    BY <1>0, <1>1, <2>1, QueueHalfEffect DEF RecordHalf
  <2>3. KnownRuns' = KnownRuns
    BY <1>1 DEF RecordHalf, KnownRuns
  <2>4. QED
    BY <1>0, <1>1, <2>2, <2>3, EndedHasNone, WorkResultStored
<1>2. CASE /\ InHand(p, "write")
           /\ RecordHalf(proc[p].item, proc[p].todo[proc[p].item].task, TRUE, Full(proc[p].item))
  <2> DEFINE o == proc[p].item
             t == proc[p].todo[o].task
  <2>1. o \in CommittedOps /\ o \in DOMAIN proc[p].todo /\ t \in Tasks
    BY <1>2, ItemOf DEF InHand, IInv, LedgerInvariant, ProcessAt, ItemAt, Recorded
  <2>2. QueueHalf(t, TRUE, Full(o)) /\ TRUE \in BOOLEAN
    BY <1>2 DEF RecordHalf
  <2>3. queue'[t].status = "done" /\ \A s \in Tasks \ {t} : queue'[s] = queue[s]
    BY <1>0, <2>1, <2>2, QueueHalfEffect
  <2>4. KnownRuns' = KnownRuns /\ CommittedOps' = CommittedOps /\ TasksStay
    BY <1>0, <1>2 DEF RecordHalf, KnownRuns, CommittedOps, TasksStay
  <2>5. QED
    BY <1>0, <2>1, <2>3, <2>4, EndedHasNone, StatusKept
<1>3. CASE proc[p].pc = "fail" /\ FailureQueued(proc[p].task) /\ UNCHANGED history
  <2>1. KnownRuns' = KnownRuns
    BY <1>3 DEF KnownRuns
  <2>2. QED
    BY <1>0, <1>3, <2>1, WorkFailureStored
<1>4. QED
  BY <1>1, <1>2, <1>3 DEF CrashWhileRecording

-----------------------------------------------------------------------------
\* The operator queues a task again only when it failed, or when its run is
\* gone and the ledger has nothing open for it.
LEMMA WorkQueuedAgain ==
  ASSUME OneCommand, IInv, WorkInvariant, NEW t \in Tasks, Retry(t) \/ Recover(t)
  PROVE  WorkInvariant'
<1>0. /\ Typed /\ UNCHANGED <<log, tree, ledger, history, lease, proc>>
      /\ queue' = [queue EXCEPT ![t].status = "queued"]
  BY DEF IInv, Retry, Recover
<1>1. /\ CommittedOps' = CommittedOps /\ KnownRuns' = KnownRuns /\ OpenOps' = OpenOps
      /\ \A s \in Tasks \ {t} : queue'[s] = queue[s]
  BY <1>0 DEF CommittedOps, KnownRuns, OpenOps, Typed
<1>2. \A o \in CommittedOps : ledger[o].task # t
  <2>1. CASE Retry(t)
    BY <2>1 DEF Retry, WorkInvariant, CommittedIsNeverRedone
  <2>2. CASE Recover(t)
    <3> SUFFICES ASSUME NEW o \in CommittedOps, ledger[o].task = t PROVE FALSE
      OBVIOUS
    <3>1. CASE o \in KnownRuns
      BY <2>2, <3>1 DEF Recover, WorkInvariant, KnownIsDone
    <3>2. CASE o \notin KnownRuns
      BY <2>2, <3>2, UnrecordedIsOpen DEF Recover
    <3>3. QED
      BY <3>1, <3>2
  <2>3. QED
    BY <2>1, <2>2
<1>3. CommittedIsNeverRedone' /\ KnownIsDone'
  BY <1>0, <1>1, <1>2, CommittedTask DEF WorkInvariant, CommittedIsNeverRedone, KnownIsDone
<1>4. ASSUME NEW p \in Procs
      PROVE  RunOfTask(p)'
  <2>1. SnapshotTasks(p)' /\ TaskOwned(p)' /\ CommitHeld(p)'
    BY <1>0, <1>1 DEF WorkInvariant, RunOfTask, SnapshotTasks, TaskOwned, CommitHeld
  <2>2. TaskRunning(p)'
    <3> SUFFICES ASSUME proc[p].pc \in RunPoints \ {"close"}
                 PROVE  queue'[proc[p].task].status = "running"
      BY <1>0 DEF TaskRunning
    <3>1. proc[p].task \in Tasks /\ queue[proc[p].task].status = "running"
      BY DEF WorkInvariant, RunOfTask, TaskRunning, IInv, LedgerInvariant, ProcessAt, HasTask
    <3>2. proc[p].task # t
      BY <3>1 DEF Retry, Recover, Interrupted
    <3>3. QED
      BY <1>1, <3>1, <3>2
  <2>3. QED
    BY <2>1, <2>2 DEF RunOfTask
<1>5. QED
  BY <1>3, <1>4 DEF WorkInvariant

LEMMA WorkOperatorStep ==
  ASSUME OneCommand, IInv, WorkInvariant, Operator
  PROVE  WorkInvariant'
<1>0. /\ Typed /\ UNCHANGED <<history, lease, proc>> /\ CommittedOps' = CommittedOps
      /\ KnownRuns' = KnownRuns
  BY OperatorMoves DEF IInv, KnownRuns
<1>1. CASE \E t \in Tasks : Retry(t) \/ Recover(t)
  BY <1>1, WorkQueuedAgain
<1>2. CASE UNCHANGED queue
  <2>1. /\ TasksStay /\ DOMAIN ledger' = DOMAIN ledger
        /\ OpenOps' = OpenOps \/ lease = None
    <3>1. CASE UNCHANGED ledger
      BY <3>1 DEF TasksStay, OpenOps
    <3>2. ASSUME NEW o \in Ops, NEW outcome \in {"cancelled", "reverted"}, Closes(o, outcome)
          PROVE  TasksStay /\ DOMAIN ledger' = DOMAIN ledger /\ lease = None
      <4>1. o \in DOMAIN ledger /\ ledger[o] \in Recorded
        BY <1>0, <3>2, RecordsType DEF Closes, OpenOps, Typed
      <4>2. /\ [ledger[o] EXCEPT !.outcome = outcome] \in Recorded
            /\ [ledger[o] EXCEPT !.outcome = outcome].task = ledger[o].task
        BY <4>1 DEF Recorded, Outcomes
      <4>3. QED
        BY <1>0, <3>2, <4>1, <4>2, TasksRewritten DEF Closes
    <3>3. QED
      BY <3>1, <3>2, OperatorMoves
  <2>2. CommittedOps \subseteq DOMAIN ledger
    BY DEF IInv, LedgerInvariant, CommitsAreIntended
  <2>3. CommittedIsNeverRedone' /\ KnownIsDone'
    BY <1>0, <1>2, <2>1, <2>2 DEF WorkInvariant, CommittedIsNeverRedone, KnownIsDone, TasksStay
  <2>4. ASSUME NEW p \in Procs
        PROVE  RunOfTask(p)'
    <3>1. DOMAIN proc[p].todo \subseteq DOMAIN ledger /\ HoldsLease(p) /\ None \notin Procs
      BY FiledOf, NamesDiffer DEF SnapshotFiled, IInv, LedgerInvariant, ProcessAt
    <3>2. SnapshotTasks(p)' /\ TaskOwned(p)' /\ TaskRunning(p)'
      BY <1>0, <1>2, <2>1, <2>2, <3>1 DEF WorkInvariant, RunOfTask, SnapshotTasks, TaskOwned,
                                          TaskRunning, TasksStay
    <3>3. lease = None => proc[p].pc \notin {"committed", "noted"}
      BY <3>1 DEF HoldsLease, UnderLease
    <3>4. CommitHeld(p)'
      BY <1>0, <2>1, <3>3 DEF WorkInvariant, RunOfTask, CommitHeld
    <3>5. QED
      BY <3>2, <3>4 DEF RunOfTask
  <2>5. QED
    BY <2>3, <2>4 DEF WorkInvariant
<1>3. QED
  BY <1>1, <1>2, OperatorMoves

LEMMA WorkNext ==
  ASSUME OneCommand, JournalErrors = {}
  PROVE  IInv /\ WorkInvariant /\ [Next]_vars => WorkInvariant'
<1> SUFFICES ASSUME IInv, WorkInvariant, [Next]_vars PROVE WorkInvariant'
  OBVIOUS
<1>1. ASSUME NEW p \in Procs, Startup(p) \/ Resolve(p) \/ Step(p) \/ Crash(p)
                                \/ CrashWhileRecording(p)
      PROVE  WorkInvariant'
  <2>1. CASE ItemSteps(p)
    BY <2>1, WorkItemStep
  <2>2. CASE \/ Startup(p) \/ Resolve(p) \/ ReconcileEnds(p) \/ NothingToClaim(p)
             \/ WorkRaises(p) \/ WorkFails(p) \/ Enter(p)
             \/ PatchRefused(p) \/ ApplyPatch(p) \/ RunVerification(p) \/ VerifyRejects(p)
             \/ RejectionTold(p) \/ JournalContended(p) \/ JournalRaises(p) \/ Crash(p)
    BY <2>2, WorkMoveSteps
  <2>3. CASE Claim(p) \/ WorkContended(p) \/ BeginTask(p)
    BY <2>3, WorkClaimStep, WorkContendedKeeps, WorkBeginStep
  <2>4. CASE PatchNoted(p) \/ VerifyAccepts(p) \/ RejectionNoted(p)
    BY <2>4, WorkRecordSteps
  <2>5. CASE Commit(p) \/ CommitNoted(p) \/ ResultReturned(p)
    BY <2>5, WorkCommitStep, WorkNotedStep, WorkReturnStep
  <2>6. CASE Record(p) \/ Close(p) \/ RecordFailure(p) \/ CrashWhileRecording(p)
    BY <2>6, WorkRecordStep, WorkCloseStep, WorkFailureStep, WorkCrashStep
  <2>7. QED
    BY <1>1, <2>1, <2>2, <2>3, <2>4, <2>5, <2>6 DEF Step, ItemSteps
<1>2. CASE Operator
  BY <1>2, WorkOperatorStep
<1>3. CASE UNCHANGED vars
  BY <1>3 DEF vars, WorkInvariant, CommittedIsNeverRedone, KnownIsDone, RunOfTask,
      SnapshotTasks, TaskOwned, TaskRunning, CommitHeld, CommittedOps, KnownRuns, OpenOps
<1>4. QED
  BY <1>1, <1>2, <1>3 DEF Next

\* Committed work is accepted or waits to be recorded: while one command runs
\* at a time and its journal can be written, no crash, failure, retry, recovery
\* or reconciliation leaves the task of a commit failed or queued.
THEOREM CommittedStaysAccepted ==
  ASSUME OneCommand, JournalErrors = {}
  PROVE  Spec => []CommittedIsNeverRedone
<1>1. Init => WorkInvariant
  BY DEF Init, WorkInvariant, CommittedIsNeverRedone, KnownIsDone, RunOfTask, SnapshotTasks,
      TaskOwned, TaskRunning, CommitHeld, CommittedOps, Range, Idle, NoRecords, RunPoints
<1>2. IInv /\ WorkInvariant /\ [Next]_vars => WorkInvariant'
  BY WorkNext
<1>3. WorkInvariant => CommittedIsNeverRedone
  BY DEF WorkInvariant
<1>4. QED
  BY <1>1, <1>2, <1>3, IInvAlways, PTL DEF Spec
=============================================================================
