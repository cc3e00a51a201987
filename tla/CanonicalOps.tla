---------------------------- MODULE CanonicalOps ----------------------------
(***************************************************************************)
(* The canonical repository and the durable operation ledger               *)
(* (operations.py), driven by `queue-run-next` (cli.py, supervisor.py),    *)
(* startup reconciliation and the operator's `reconcile-apply`.            *)
(*                                                                         *)
(* A run of a task owns one operation id, which is also its run id.  The   *)
(* run holds the repository execution lease from the blocking check to the *)
(* commit; it writes the StateStore record and closes the ledger record    *)
(* after the lease is released.  A process may stop between any two writes *)
(* of a file.                                                              *)
(*                                                                         *)
(* Abstractions.  A patch, its file evidence and the commit made of it are *)
(* named by the operation.  HEAD is the length of the linear branch `log`. *)
(* The execution lease is the one module FileLease shows to be exclusive   *)
(* and freed by a crash.  The state lease makes each StateStore call one   *)
(* step, except that a crash may separate its two file writes.             *)
(***************************************************************************)
EXTENDS Integers, Sequences, FiniteSets, Functions

CONSTANTS
    Procs,        \* processes that run a command on the repository
    Tasks,        \* the queued task ids
    Ops,          \* operation (= run) ids, one per run that claims a task
    MaxAttempts,  \* bound: claims of one task
    MaxOutside,   \* bound: commits a person makes on the branch
    MayCrash,     \* whether a process may stop between two writes
    MayLitter,    \* whether a verification command may leave untracked files
    JournalErrors,\* how InteractionJournal.record may fail during a run
    Outside, Litter, None

\* The names are apart; None is no hash either.
ASSUME NamesDiffer ==
    /\ None \notin Procs \cup Ops
    /\ Outside \notin Ops
    /\ Litter \notin Ops
    /\ None \notin [op: Ops, full: BOOLEAN]

\* record() appends under the state lease: somebody else may hold that lease
\* for too long, or the append may fail.
ASSUME JournalErrorsKnown == JournalErrors \subseteq {"contended", "raised"}

ASSUME BoundsAreNat == MaxAttempts \in Nat /\ MaxOutside \in Nat

VARIABLES
    log,      \* the canonical branch: per commit its operation, or Outside
    tree,     \* what differs from HEAD: operations' patches, litter
    ledger,   \* operations/*.json: operation id -> record
    queue,    \* queue.json: task -> its current entry
    history,  \* run-history.jsonl
    lease,    \* the repository execution lease: its holder, or None
    proc      \* per process, the command it is in

store == <<queue, history>>
git   == <<log, tree>>
vars  == <<log, tree, ledger, queue, history, lease, proc>>

-----------------------------------------------------------------------------
Outcomes == {"open", "complete", "reverted", "cancelled"}
Statuses == {"queued", "running", "done", "failed"}

Recorded == [task: Tasks, baseline: Nat, applied: BOOLEAN, verified: BOOLEAN,
             commit: BOOLEAN, outcome: Outcomes]

\* A commit hash as recorded: abbreviated by the run, in full by a
\* reconciliation.  The two spellings of one commit are different strings.
Hashes == [op: Ops, full: BOOLEAN] \cup {None}

Short(o) == [op |-> o, full |-> FALSE]
Full(o)  == [op |-> o, full |-> TRUE]

Entry  == [status: Statuses, last: Hashes, attempts: Nat]
RunRow == [run: Ops \cup {None}, task: Tasks, ok: BOOLEAN, commit: Hashes]

\* The commands that reconcile, and the rest of a run's program points.
Reconciling == {"startup", "resolving", "checking", "failing"}
UnderLease  == {"startup", "resolving", "checking", "intent", "begun",
                "applied", "verify", "judged", "verified", "reverted",
                "rejected", "committed", "noted"}
Points      == Reconciling \cup UnderLease
                 \cup {"idle", "claim", "work", "record", "close", "fail"}

NoRecords == [o \in {} |-> None]

\* todo: the records() snapshot still to be classified; item: the one in
\* hand; step: how far it got; blocked: some item stayed non-terminal.
Idle == [pc |-> "idle", task |-> None, op |-> None, ok |-> FALSE,
         commit |-> None, todo |-> NoRecords, item |-> None, step |-> "look",
         blocked |-> FALSE]

NotRun == [status |-> "queued", last |-> None, attempts |-> 0]

Init ==
    /\ log = <<>>
    /\ tree = {}
    /\ ledger = NoRecords
    /\ queue = [t \in Tasks |-> NotRun]
    /\ history = <<>>
    /\ lease = None
    /\ proc = [p \in Procs |-> Idle]

-----------------------------------------------------------------------------
(***************************************************************************)
(* The ledger and the branch, as a classification reads them.              *)
(***************************************************************************)
OpenOps == {o \in DOMAIN ledger : ledger[o].outcome = "open"}

CommittedOps == Range(log) \cap Ops

PositionOf(o) == CHOOSE i \in DOMAIN log : log[i] = o

RowsOf(o) == {i \in DOMAIN history : history[i].run = o}

\* The operations whose run the StateStore has recorded.
KnownRuns == {history[i].run : i \in DOMAIN history} \ {None}

\* The guards of commit_exists_state_missing: trailer, exact parent, a durable
\* result payload and a clean worktree.  rec is the record as it was read.
ExactCommit(o, rec) ==
    /\ o \in CommittedOps
    /\ PositionOf(o) = rec.baseline + 1
    /\ rec.verified
    /\ tree = {}

\* Slip: a clean worktree is taken for an untouched baseline.
NotStartedByTree(o) == RowsOf(o) = {} /\ tree = {}

NotStarted(o) ==
    /\ RowsOf(o) = {}
    /\ o \notin CommittedOps
    /\ Len(log) = ledger[o].baseline
    /\ tree = {}

PatchApplied(o) ==
    /\ RowsOf(o) = {}
    /\ o \notin CommittedOps
    /\ Len(log) = ledger[o].baseline
    /\ ledger[o].applied
    /\ tree = {o}

\* A new file in operations/.
AddRecord(o, rec) ==
    ledger' = [q \in DOMAIN ledger \cup {o} |-> IF q = o THEN rec ELSE ledger[q]]

\* OperationLedger.phase: refused once the record is terminal.
Phase(o, changed) ==
    /\ ledger[o].outcome = "open"
    /\ ledger' = [ledger EXCEPT ![o] = changed]

\* OperationLedger.terminal: idempotent for the same outcome only.
TerminalRefused(o, outcome) == ledger[o].outcome \notin {"open", outcome}

Terminal(o, outcome) ==
    /\ ~TerminalRefused(o, outcome)
    /\ ledger' = [ledger EXCEPT ![o].outcome = outcome]

-----------------------------------------------------------------------------
(***************************************************************************)
(* HohStateStore.record_result.                                            *)
(***************************************************************************)
ResultStatus(ok) == IF ok THEN "done" ELSE "failed"

SameRun(row, t, ok, hash) == row.task = t /\ row.ok = ok /\ row.commit = hash

\* A retry of the same write finds the queue half of it already there.
AlreadyQueued(t, ok, hash) ==
    queue[t].status = ResultStatus(ok) /\ queue[t].last = hash

ResultRefused(o, t, ok, hash) ==
    IF RowsOf(o) # {}
    THEN \E i \in RowsOf(o) : ~SameRun(history[i], t, ok, hash)
    ELSE ~AlreadyQueued(t, ok, hash) /\ queue[t].status # "running"

QueueHalf(t, ok, hash) ==
    queue' = [queue EXCEPT ![t].status = ResultStatus(ok), ![t].last = hash]

\* Slip: the run id is not looked up before the record is appended.
RecordResultTwice(o, t, ok, hash) ==
    /\ ~ResultRefused(o, t, ok, hash)
    /\ QueueHalf(t, ok, hash)
    /\ history' = Append(history,
                    [run |-> o, task |-> t, ok |-> ok, commit |-> hash])

RecordResult(o, t, ok, hash) ==
    /\ ~ResultRefused(o, t, ok, hash)
    /\ IF RowsOf(o) # {}
       THEN UNCHANGED store
       ELSE /\ IF AlreadyQueued(t, ok, hash)
               THEN UNCHANGED queue
               ELSE QueueHalf(t, ok, hash)
            /\ history' = Append(history,
                            [run |-> o, task |-> t, ok |-> ok, commit |-> hash])

\* queue.json is replaced, and the process stops before the history line.
RecordHalf(o, t, ok, hash) ==
    /\ ~ResultRefused(o, t, ok, hash)
    /\ RowsOf(o) = {}
    /\ ~AlreadyQueued(t, ok, hash)
    /\ QueueHalf(t, ok, hash)
    /\ UNCHANGED history

-----------------------------------------------------------------------------
(***************************************************************************)
(* Moves of a process.                                                     *)
(***************************************************************************)
Become(p, local) == proc' = [proc EXCEPT ![p] = local]

Goto(p, pc) == Become(p, [proc[p] EXCEPT !.pc = pc])

Release(p) == lease' = IF lease = p THEN None ELSE lease

Leave(p) == Become(p, Idle) /\ Release(p)

\* records(): the files as they are now, read before any is classified.
Snapshot(ops) == [o \in ops |-> ledger[o]]

Reconcile(p, pc, ops) ==
    Become(p, [proc[p] EXCEPT !.pc = pc, !.todo = Snapshot(ops), !.item = None,
                              !.step = "look", !.blocked = FALSE])

\* An exception in the run: the lease is given up, and the handler reconciles
\* without taking it again.
Raise(p) == Release(p) /\ Reconcile(p, "failing", OpenOps)

\* A StateStoreError or ledger error escapes reconcile().
ReconcileRaises(p) == IF proc[p].pc = "checking" THEN Raise(p) ELSE Leave(p)

-----------------------------------------------------------------------------
(***************************************************************************)
(* OperationLedger.reconcile(auto_complete_state=True): each record of the *)
(* snapshot is looked up in the history, judged against the branch, and    *)
(* completed when its evidence is exact.                                   *)
(***************************************************************************)

\* Slip: the loop does not move past a record.
DroppedNone(l) == l.todo

Dropped(l) == [o \in DOMAIN l.todo \ {l.item} |-> l.todo[o]]

\* The item in hand is done with; blocked says it stays non-terminal.
NextItem(p, blocked) ==
    Become(p, [proc[p] EXCEPT !.todo = Dropped(proc[p]), !.item = None,
                              !.step = "look",
                              !.blocked = proc[p].blocked \/ blocked])

InHand(p, step) ==
    /\ proc[p].pc \in Reconciling
    /\ proc[p].item # None
    /\ proc[p].step = step

TakeItem(p) ==
    /\ proc[p].pc \in Reconciling
    /\ proc[p].item = None
    /\ \E o \in DOMAIN proc[p].todo :
          Become(p, [proc[p] EXCEPT !.item = o, !.step = "look"])
    /\ UNCHANGED <<log, tree, ledger, queue, history, lease>>

\* _state_complete, then finish_ledger when the run's record exists.
LookUp(p) ==
    LET o == proc[p].item IN
    /\ InHand(p, "look")
    /\ \/ /\ RowsOf(o) = {}
          /\ Become(p, [proc[p] EXCEPT !.step = "judge"])
          /\ UNCHANGED <<ledger, lease>>
       \/ /\ \E i \in RowsOf(o) : history[i].task # proc[p].todo[o].task
          /\ NextItem(p, TRUE)
          /\ UNCHANGED <<ledger, lease>>
       \/ /\ RowsOf(o) # {}
          /\ \A i \in RowsOf(o) : history[i].task = proc[p].todo[o].task
          /\ IF TerminalRefused(o, "complete")
             THEN ReconcileRaises(p) /\ UNCHANGED ledger
             ELSE /\ Terminal(o, "complete")
                  /\ NextItem(p, FALSE)
                  /\ UNCHANGED lease
    /\ UNCHANGED <<log, tree, queue, history>>

\* Slip: every classified record is written back as it was read.
JudgeRewrites(p) ==
    LET o == proc[p].item  rec == proc[p].todo[proc[p].item] IN
    /\ InHand(p, "judge")
    /\ ledger' = [ledger EXCEPT ![o] = [rec EXCEPT !.commit = ExactCommit(o, rec)]]
    /\ IF ExactCommit(o, rec)
       THEN Become(p, [proc[p] EXCEPT !.step = "write"])
       ELSE NextItem(p, TRUE)
    /\ UNCHANGED <<log, tree, queue, history, lease>>

\* The Git half of _classify.  An exact commit the record lacks is written
\* into the record as it was read.
Judge(p) ==
    LET o == proc[p].item  rec == proc[p].todo[proc[p].item] IN
    /\ InHand(p, "judge")
    /\ IF ExactCommit(o, rec)
       THEN /\ ledger' = IF rec.commit THEN ledger
                         ELSE [ledger EXCEPT ![o] = [rec EXCEPT !.commit = TRUE]]
            /\ Become(p, [proc[p] EXCEPT !.step = "write"])
       ELSE NextItem(p, TRUE) /\ UNCHANGED ledger
    /\ UNCHANGED <<log, tree, queue, history, lease>>

\* _complete_state: record_result with the hash in full.
CompleteState(p) ==
    LET o == proc[p].item  t == proc[p].todo[proc[p].item].task IN
    /\ InHand(p, "write")
    /\ \/ /\ ResultRefused(o, t, TRUE, Full(o))
          /\ ReconcileRaises(p)
          /\ UNCHANGED store
       \/ /\ RecordResult(o, t, TRUE, Full(o))
          /\ Become(p, [proc[p] EXCEPT !.step = "finish"])
          /\ UNCHANGED lease
    /\ UNCHANGED <<log, tree, ledger>>

\* _complete_state: phase(state_recorded), then terminal(complete).
FinishLedger(p) ==
    LET o == proc[p].item IN
    /\ InHand(p, "finish")
    /\ \/ /\ ledger[o].outcome # "open"
          /\ ReconcileRaises(p)
          /\ UNCHANGED ledger
       \/ /\ Phase(o, [ledger[o] EXCEPT !.outcome = "complete"])
          /\ NextItem(p, FALSE)
          /\ UNCHANGED lease
    /\ UNCHANGED <<log, tree, queue, history>>

\* The report is ready.  Blocking evidence ends a startup and a failed run, and
\* is an exception inside the run that was about to change the repository.
ReconcileEnds(p) ==
    /\ proc[p].pc \in Reconciling
    /\ proc[p].item = None
    /\ DOMAIN proc[p].todo = {}
    /\ \/ proc[p].pc = "resolving" /\ Leave(p)
       \/ proc[p].pc \in {"startup", "failing"} /\ proc[p].blocked /\ Leave(p)
       \/ proc[p].pc = "startup" /\ ~proc[p].blocked /\ Goto(p, "claim") /\ Release(p)
       \/ proc[p].pc = "failing" /\ ~proc[p].blocked /\ Goto(p, "fail") /\ UNCHANGED lease
       \/ proc[p].pc = "checking" /\ proc[p].blocked /\ Raise(p)
       \/ proc[p].pc = "checking" /\ ~proc[p].blocked /\ Goto(p, "intent") /\ UNCHANGED lease
    /\ UNCHANGED <<log, tree, ledger, queue, history>>

-----------------------------------------------------------------------------
(***************************************************************************)
(* queue-run-next: _startup_reconcile, claim_next, the Worker.             *)
(***************************************************************************)
Startup(p) ==
    /\ proc[p].pc = "idle"
    /\ lease = None
    /\ lease' = p
    /\ Reconcile(p, "startup", OpenOps)
    /\ UNCHANGED <<log, tree, ledger, queue, history>>

UsedOps == DOMAIN ledger \cup {proc[p].op : p \in Procs}
             \cup {history[i].run : i \in DOMAIN history}

\* claim_next under the state lease, and OperationContext.create.
Claim(p) ==
    /\ proc[p].pc = "claim"
    /\ \E t \in Tasks, o \in Ops \ UsedOps :
          /\ queue[t].status = "queued"
          /\ queue[t].attempts < MaxAttempts
          /\ queue' = [queue EXCEPT ![t] = [status |-> "running", last |-> None,
                                            attempts |-> queue[t].attempts + 1]]
          /\ Become(p, [Idle EXCEPT !.pc = "work", !.task = t, !.op = o])
    /\ UNCHANGED <<log, tree, ledger, history, lease>>

NothingToClaim(p) ==
    /\ proc[p].pc = "claim"
    /\ \A t \in Tasks :
          queue[t].status # "queued" \/ queue[t].attempts >= MaxAttempts
    /\ Leave(p)
    /\ UNCHANGED <<log, tree, ledger, queue, history>>

\* The Worker raises: no canonical work was begun.
WorkRaises(p) ==
    /\ proc[p].pc = "work"
    /\ Raise(p)
    /\ UNCHANGED <<log, tree, ledger, queue, history>>

\* The Worker's job is marked failed: a result that is not ok.
WorkFails(p) ==
    /\ proc[p].pc = "work"
    /\ Goto(p, "record")
    /\ UNCHANGED <<log, tree, ledger, queue, history, lease>>

\* Slip: the canonical work is done without the execution lease.
EnterUnlocked(p) ==
    /\ proc[p].pc = "work"
    /\ Reconcile(p, "checking", OpenOps)
    /\ UNCHANGED <<log, tree, ledger, queue, history, lease>>

\* execute_worker_completion: the lease, then assert_no_blocking.
Enter(p) ==
    /\ proc[p].pc = "work"
    /\ lease = None
    /\ lease' = p
    /\ Reconcile(p, "checking", OpenOps)
    /\ UNCHANGED <<log, tree, ledger, queue, history>>

\* recover_running; on another status it raises, and nothing is changed.
PutBack(t) == queue' = IF queue[t].status = "running"
                       THEN [queue EXCEPT ![t].status = "queued"] ELSE queue

\* LockContendedError: the task is put back.
WorkContended(p) ==
    /\ proc[p].pc = "work"
    /\ lease \notin {p, None}
    /\ PutBack(proc[p].task)
    /\ Leave(p)
    /\ UNCHANGED <<log, tree, ledger, history>>

-----------------------------------------------------------------------------
(***************************************************************************)
(* _execute_worker_completion_locked.                                      *)
(***************************************************************************)
\* The run is over with this result; the lease is given up before it is stored.
Return(p, ok, hash) ==
    /\ Become(p, [proc[p] EXCEPT !.pc = "record", !.ok = ok, !.commit = hash])
    /\ Release(p)

\* No patch, or the patch policy refuses it.
PatchRefused(p) ==
    /\ proc[p].pc = "intent"
    /\ Return(p, FALSE, None)
    /\ UNCHANGED <<log, tree, ledger, queue, history>>

\* begin_task, or its file evidence cannot be derived.
BeginTask(p) ==
    LET o == proc[p].op IN
    /\ proc[p].pc = "intent"
    /\ \/ /\ AddRecord(o, [task |-> proc[p].task, baseline |-> Len(log),
                             applied |-> FALSE, verified |-> FALSE,
                             commit |-> FALSE, outcome |-> "open"])
          /\ Goto(p, "begun")
          /\ UNCHANGED lease
       \/ Raise(p) /\ UNCHANGED ledger
    /\ UNCHANGED <<log, tree, queue, history>>

\* apply_patch, or its GitError.
ApplyPatch(p) ==
    /\ proc[p].pc = "begun"
    /\ \/ tree' = tree \cup {proc[p].op} /\ Goto(p, "applied") /\ UNCHANGED lease
       \/ Raise(p) /\ UNCHANGED tree
    /\ UNCHANGED <<log, ledger, queue, history>>

\* A ledger.phase call of the run: the next point, or its exception.
RunPhase(p, changed, pc) ==
    \/ Phase(proc[p].op, changed) /\ Goto(p, pc) /\ UNCHANGED lease
    \/ ledger[proc[p].op].outcome # "open" /\ Raise(p) /\ UNCHANGED ledger

PatchNoted(p) ==
    /\ proc[p].pc = "applied"
    /\ RunPhase(p, [ledger[proc[p].op] EXCEPT !.applied = TRUE], "verify")
    /\ UNCHANGED <<log, tree, queue, history>>

\* The verification commands run on the tree.  They may undo the patch's
\* effect, or leave changes of their own.
RunVerification(p) ==
    /\ proc[p].pc = "verify"
    /\ \E undone \in SUBSET {proc[p].op}, left \in SUBSET {Litter} :
          /\ left # {} => MayLitter
          /\ tree' = (tree \ undone) \cup left
    /\ Goto(p, "judged")
    /\ UNCHANGED <<log, ledger, queue, history, lease>>

\* The deterministic and the semantic verifier accept the result.
VerifyAccepts(p) ==
    /\ proc[p].pc = "judged"
    /\ RunPhase(p, [ledger[proc[p].op] EXCEPT !.verified = TRUE], "verified")
    /\ UNCHANGED <<log, tree, queue, history>>

\* One of them rejects it: revert_patch, which fails on a changed tree.
VerifyRejects(p) ==
    /\ proc[p].pc = "judged"
    /\ \/ /\ proc[p].op \in tree
          /\ tree' = tree \ {proc[p].op}
          /\ Goto(p, "reverted")
          /\ UNCHANGED lease
       \/ /\ proc[p].op \notin tree \/ Litter \in tree
          /\ Raise(p)
          /\ UNCHANGED tree
    /\ UNCHANGED <<log, ledger, queue, history>>

RejectionNoted(p) ==
    LET o == proc[p].op IN
    /\ proc[p].pc = "reverted"
    /\ IF TerminalRefused(o, "reverted")
       THEN Raise(p) /\ UNCHANGED ledger
       ELSE Terminal(o, "reverted") /\ Goto(p, "rejected") /\ UNCHANGED lease
    /\ UNCHANGED <<log, tree, queue, history>>

\* The customer is told; the notification may fail.
RejectionTold(p) ==
    /\ proc[p].pc = "rejected"
    /\ Return(p, FALSE, None) \/ Raise(p)
    /\ UNCHANGED <<log, tree, ledger, queue, history>>

\* stage_paths and commit_staged: a commit, none when nothing is staged, or
\* a GitError.
Commit(p) ==
    LET o == proc[p].op IN
    /\ proc[p].pc = "verified"
    /\ \/ /\ o \in tree
          /\ log' = Append(log, o)
          /\ tree' = tree \ {o}
          /\ Become(p, [proc[p] EXCEPT !.pc = "committed", !.commit = Short(o)])
          /\ UNCHANGED lease
       \/ /\ o \notin tree
          /\ Goto(p, "committed")
          /\ UNCHANGED <<log, tree, lease>>
       \/ Raise(p) /\ UNCHANGED <<log, tree>>
    /\ UNCHANGED <<ledger, queue, history>>

\* Slip: the operation is closed with the commit, before the run is recorded.
CommitNotedCloses(p) ==
    LET o == proc[p].op IN
    /\ proc[p].pc = "committed"
    /\ RunPhase(p, [ledger[o] EXCEPT !.commit = proc[p].commit # None,
                                     !.outcome = "complete"], "noted")
    /\ UNCHANGED <<log, tree, queue, history>>

\* phase(commit_created)
CommitNoted(p) ==
    LET o == proc[p].op IN
    /\ proc[p].pc = "committed"
    /\ RunPhase(p, [ledger[o] EXCEPT !.commit = proc[p].commit # None], "noted")
    /\ UNCHANGED <<log, tree, queue, history>>

\* Slip: a result is ok although nothing was committed.
ResultReturnedOk(p) ==
    /\ proc[p].pc = "noted"
    /\ Return(p, TRUE, proc[p].commit)
    /\ UNCHANGED <<log, tree, ledger, queue, history>>

\* HarnessRunResult.ok: a result without a commit is not ok.
ResultReturned(p) ==
    /\ proc[p].pc = "noted"
    /\ Return(p, proc[p].commit # None, proc[p].commit)
    /\ UNCHANGED <<log, tree, ledger, queue, history>>

\* Where the run writes to the interaction journal.
Journaling == {"work", "intent", "verify", "judged", "rejected", "noted"}

\* The journal is contended: for the caller that is a LockContendedError as if
\* the execution lease had been refused, and the task is put back.
JournalContended(p) ==
    /\ proc[p].pc \in Journaling
    /\ "contended" \in JournalErrors
    /\ PutBack(proc[p].task)
    /\ Leave(p)
    /\ UNCHANGED <<log, tree, ledger, history>>

\* It cannot be written: an exception like any other.
JournalRaises(p) ==
    /\ proc[p].pc \in Journaling
    /\ "raised" \in JournalErrors
    /\ Raise(p)
    /\ UNCHANGED <<log, tree, ledger, queue, history>>

-----------------------------------------------------------------------------
(***************************************************************************)
(* _record_worker_result and the failure handler: no execution lease.      *)
(***************************************************************************)
Record(p) ==
    LET l == proc[p] IN
    /\ l.pc = "record"
    /\ \/ /\ ResultRefused(l.op, l.task, l.ok, l.commit)
          /\ Leave(p)
          /\ UNCHANGED store
       \/ /\ RecordResult(l.op, l.task, l.ok, l.commit)
          /\ IF l.op \in DOMAIN ledger THEN Goto(p, "close") ELSE Become(p, Idle)
          /\ UNCHANGED lease
    /\ UNCHANGED <<log, tree, ledger>>

\* phase(state_recorded), then terminal(complete).
Close(p) ==
    LET o == proc[p].op IN
    /\ proc[p].pc = "close"
    /\ \/ Phase(o, [ledger[o] EXCEPT !.outcome = "complete"])
       \/ ledger[o].outcome # "open" /\ UNCHANGED ledger
    /\ Leave(p)
    /\ UNCHANGED <<log, tree, queue, history>>

\* record_failure: no check of the task's status, and a run id of its own.
FailureQueued(t) ==
    queue' = [queue EXCEPT ![t].status = "failed", ![t].last = None]

RecordFailure(p) ==
    LET t == proc[p].task IN
    /\ proc[p].pc = "fail"
    /\ FailureQueued(t)
    /\ history' = Append(history,
                    [run |-> None, task |-> t, ok |-> FALSE, commit |-> None])
    /\ Leave(p)
    /\ UNCHANGED <<log, tree, ledger>>

-----------------------------------------------------------------------------
(***************************************************************************)
(* A process stops: the kernel frees its lease, nothing else is undone.    *)
(***************************************************************************)
Crash(p) ==
    /\ MayCrash
    /\ proc[p].pc # "idle"
    /\ Leave(p)
    /\ UNCHANGED <<log, tree, ledger, queue, history>>

\* It stops between the two files of a StateStore write.
CrashWhileRecording(p) ==
    LET l == proc[p] IN
    /\ MayCrash
    /\ \/ l.pc = "record" /\ RecordHalf(l.op, l.task, l.ok, l.commit)
       \/ InHand(p, "write") /\ RecordHalf(l.item, l.todo[l.item].task, TRUE, Full(l.item))
       \/ l.pc = "fail" /\ FailureQueued(l.task) /\ UNCHANGED history
    /\ Leave(p)
    /\ UNCHANGED <<log, tree, ledger>>

-----------------------------------------------------------------------------
(***************************************************************************)
(* The operator: queue-retry, queue-recover, reconcile-apply.              *)
(***************************************************************************)
Retry(t) ==
    /\ queue[t].status = "failed"
    /\ queue' = [queue EXCEPT ![t].status = "queued"]
    /\ UNCHANGED <<log, tree, ledger, history, lease, proc>>

\* --confirm: the operator has made sure that no process runs the task.
Interrupted(t) == \A p \in Procs : proc[p].task # t

\* Slip: the ledger is not asked whether the task has unresolved evidence.
RecoverUnguarded(t) ==
    /\ Interrupted(t)
    /\ queue[t].status = "running"
    /\ queue' = [queue EXCEPT ![t].status = "queued"]
    /\ UNCHANGED <<log, tree, ledger, history, lease, proc>>

\* Refused while the ledger has an unresolved operation of the task.
Recover(t) ==
    /\ Interrupted(t)
    /\ queue[t].status = "running"
    /\ \A o \in OpenOps : ledger[o].task # t
    /\ queue' = [queue EXCEPT ![t].status = "queued"]
    /\ UNCHANGED <<log, tree, ledger, history, lease, proc>>

\* complete-state and finish-ledger, through the steps of a reconciliation.
Resolve(p) ==
    /\ proc[p].pc = "idle"
    /\ lease = None
    /\ lease' = p
    /\ \E o \in OpenOps : Reconcile(p, "resolving", {o})
    /\ UNCHANGED <<log, tree, ledger, queue, history>>

\* Slip: the cancelled intent's file is removed.
CancelIntentDeletes(o) ==
    /\ lease = None
    /\ o \in OpenOps
    /\ NotStarted(o)
    /\ ledger' = [q \in DOMAIN ledger \ {o} |-> ledger[q]]
    /\ UNCHANGED <<log, tree, queue, history, lease, proc>>

CancelIntent(o) ==
    /\ lease = None
    /\ o \in OpenOps
    /\ NotStarted(o)
    /\ Terminal(o, "cancelled")
    /\ UNCHANGED <<log, tree, queue, history, lease, proc>>

\* Slip: the operation is closed and the patch left where it is.
RestorePatchUnrestored(o) ==
    /\ lease = None
    /\ o \in OpenOps
    /\ PatchApplied(o)
    /\ Terminal(o, "reverted")
    /\ UNCHANGED <<log, tree, queue, history, lease, proc>>

\* _restore_recorded_baseline puts the recorded paths back.
RestorePatch(o) ==
    /\ lease = None
    /\ o \in OpenOps
    /\ PatchApplied(o)
    /\ tree' = tree \ {o}
    /\ Terminal(o, "reverted")
    /\ UNCHANGED <<log, queue, history, lease, proc>>

\* A person works in the repository: a commit of their own at any time, or a
\* clean-up of the worktree while no command changes it.
OutsideCommit ==
    /\ Cardinality({i \in DOMAIN log : log[i] = Outside}) < MaxOutside
    /\ log' = Append(log, Outside)
    /\ UNCHANGED <<tree, ledger, queue, history, lease, proc>>

OutsideCleans ==
    /\ lease = None
    /\ tree # {}
    /\ tree' = {}
    /\ UNCHANGED <<log, ledger, queue, history, lease, proc>>

-----------------------------------------------------------------------------
\* The steps a command takes once it is started.
Step(p) ==
    \/ TakeItem(p) \/ LookUp(p) \/ Judge(p) \/ CompleteState(p)
    \/ FinishLedger(p) \/ ReconcileEnds(p)
    \/ Claim(p) \/ NothingToClaim(p)
    \/ WorkRaises(p) \/ WorkFails(p) \/ Enter(p) \/ WorkContended(p)
    \/ PatchRefused(p) \/ BeginTask(p) \/ ApplyPatch(p) \/ PatchNoted(p)
    \/ RunVerification(p) \/ VerifyAccepts(p) \/ VerifyRejects(p)
    \/ RejectionNoted(p) \/ RejectionTold(p) \/ Commit(p) \/ CommitNoted(p) \/ ResultReturned(p)
    \/ JournalContended(p) \/ JournalRaises(p)
    \/ Record(p) \/ Close(p) \/ RecordFailure(p)

Operator ==
    \/ \E t \in Tasks : Retry(t) \/ Recover(t)
    \/ \E o \in Ops : CancelIntent(o) \/ RestorePatch(o)
    \/ OutsideCommit \/ OutsideCleans

Next ==
    \/ \E p \in Procs : \/ Startup(p) \/ Resolve(p)
                        \/ Step(p)
                        \/ Crash(p) \/ CrashWhileRecording(p)
    \/ Operator

Spec == Init /\ [][Next]_vars

\* A started command runs on: its Worker, its subprocesses and its lease and
\* file operations all end or time out.  Nothing makes anybody start one.
FairSpec == Spec /\ \A p \in Procs : WF_vars(Step(p))

-----------------------------------------------------------------------------
RecordsOK(records) ==
    /\ DOMAIN records \subseteq Ops
    /\ \A o \in DOMAIN records : records[o] \in Recorded

CommandOK(l) ==
    /\ l.pc \in Points
    /\ l.task \in Tasks \cup {None}
    /\ l.op \in Ops \cup {None}
    /\ l.commit \in Hashes
    /\ RecordsOK(l.todo)
    /\ DOMAIN l.todo \subseteq DOMAIN ledger
    /\ l.item \in DOMAIN l.todo \cup {None}

\* The files and the program points hold what the code can put there.
TypeOK ==
    /\ log \in Seq(Ops \cup {Outside})
    /\ tree \subseteq Ops \cup {Litter}
    /\ RecordsOK(ledger)
    /\ queue \in [Tasks -> Entry]
    /\ history \in Seq(RunRow)
    /\ lease \in Procs \cup {None}
    /\ \A p \in Procs : CommandOK(proc[p])

-----------------------------------------------------------------------------
(***************************************************************************)
(* What the ledger and the lease are for.                                  *)
(***************************************************************************)
\* An outcome says what happened: `complete` has its run in the history, and a
\* reverted or cancelled operation left no commit on the branch.
OutcomesAreTrue ==
    \A o \in DOMAIN ledger :
       /\ ledger[o].outcome = "complete" => RowsOf(o) # {}
       /\ ledger[o].outcome \in {"reverted", "cancelled"} => o \notin CommittedOps

\* A commit the StateStore does not know of is never forgotten: its operation
\* stays open, which blocks every later canonical change.
UnrecordedCommitBlocks ==
    \A o \in CommittedOps :
       RowsOf(o) = {} => o \in DOMAIN ledger /\ ledger[o].outcome = "open"

\* A patch left in the worktree belongs to an operation that is still open, so
\* nobody closes an operation over an uncommitted change of its own.
PatchInTreeIsOpen == tree \cap Ops \subseteq OpenOps

\* A task's record says `done` only for a commit of that task on the branch.
DoneIsCommitted ==
    \A t \in Tasks : queue[t].status = "done" =>
       /\ queue[t].last # None
       /\ queue[t].last.op \in CommittedOps
       /\ ledger[queue[t].last.op].task = t

\* However often a write is repeated, an operation has one run record.
OneRunPerOperation == \A o \in Ops : Cardinality(RowsOf(o)) <= 1

\* Committed work is accepted or waits to be recorded: it is never failed or
\* queued, from where it would be run and committed a second time.
CommittedIsNeverRedone ==
    \A o \in CommittedOps : queue[ledger[o].task].status \in {"running", "done"}

\* One task has one commit, whatever crashed and was reconciled in between.
CommittedOnce ==
    \A o, q \in CommittedOps : ledger[o].task = ledger[q].task => o = q

\* The repository is changed by an operation only for the process that holds
\* the lease, and only while no other operation has an unrecorded run.
CanonicalStepsAreExclusive ==
    [][\A o \in Ops :
          (o \in tree' \cup Range(log')) /\ (o \notin tree \cup Range(log))
             => /\ lease # None
                /\ proc[lease].op = o
                /\ o \in OpenOps
                /\ \A q \in OpenOps \ {o} : RowsOf(q) # {}]_vars

\* A run that has returned its result can record it.
ResultIsRecordable ==
    \A p \in Procs : proc[p].pc = "record" =>
       ~ResultRefused(proc[p].op, proc[p].task, proc[p].ok, proc[p].commit)

\* A recorded run can close its operation.
RecordedRunCloses ==
    \A p \in Procs : proc[p].pc = "close" => ledger[proc[p].op].outcome = "open"

\* Startup can complete every operation whose evidence it found exact.
StartupCompletes ==
    \A p \in Procs : InHand(p, "write") =>
       ~ResultRefused(proc[p].item, proc[p].todo[proc[p].item].task, TRUE,
                      Full(proc[p].item))

\* What is written when an operation ends stands, though a classification may
\* write a record back as it read it, long after: one that was reverted or
\* cancelled is never open again, and one that is complete only while its
\* commit is on the branch and its run recorded, so that the next
\* reconciliation completes it again and nobody redoes the work.
OutcomesStand ==
    [][\A o \in DOMAIN ledger :
          ledger[o].outcome \notin {"open", ledger'[o].outcome} =>
             /\ ledger[o].outcome = "complete" /\ ledger'[o].outcome = "open"
             /\ o \in CommittedOps /\ RowsOf(o) # {}]_vars

\* The ledger does what it promises to the branch and the StateStore.
Promise == INSTANCE AbstractLedger WITH
              intended <- DOMAIN ledger, landed <- CommittedOps, known <- KnownRuns

ImplementsLedger == Promise!ASpec

-----------------------------------------------------------------------------
(***************************************************************************)
(* Why they hold: what a process may rely on at each of its points.        *)
(***************************************************************************)
RunPoints == Points \ {"idle", "startup", "resolving", "claim"}

Begun == {"begun", "applied", "verify", "judged", "verified"}

OneRowPerRun ==
    \A i, j \in DOMAIN history :
       history[i].run = history[j].run /\ history[i].run # None => i = j

CommitsAreIntended == CommittedOps \subseteq DOMAIN ledger

OwnOperations ==
    \A p, q \in Procs :
       p # q /\ proc[p].op # None => proc[p].op # proc[q].op

HoldsLease(p) == proc[p].pc \in UnderLease => lease = p

HasTask(p) == proc[p].pc \in RunPoints => proc[p].task \in Tasks

\* The operation is new until the intent is on disk, then open and its own
\* until it is committed, and stays on disk.
OperationAt(p) ==
    LET pc == proc[p].pc  o == proc[p].op IN
    /\ pc \in {"work", "checking", "intent"} =>
          o \in Ops \ (DOMAIN ledger \cup KnownRuns)
    /\ pc \in Begun \cup {"reverted"} => o \in OpenOps \ (KnownRuns \cup CommittedOps)
    /\ pc \in {"committed", "noted"} => o \in DOMAIN ledger
    /\ pc \in {"rejected", "record"} => o \in Ops
    /\ pc = "close" => o \in DOMAIN ledger \cap KnownRuns

\* A snapshot was taken of open records; what was found of the one in hand
\* stays true while it is acted upon.
ItemAt(p) ==
    LET l == proc[p] IN
    /\ \A o \in DOMAIN l.todo : l.todo[o].outcome = "open"
    /\ InHand(p, "write") => l.item \in CommittedOps
    /\ InHand(p, "finish") => l.item \in KnownRuns

\* What the check under the lease has shown stays true under the lease.
OthersRecorded(p) ==
    LET l == proc[p] IN
    /\ l.pc = "checking" /\ ~l.blocked => OpenOps \subseteq KnownRuns \cup DOMAIN l.todo
    /\ l.pc \in Begun \cup {"intent"} => OpenOps \subseteq KnownRuns \cup {l.op}

ProcessAt(p) == HoldsLease(p) /\ HasTask(p) /\ OperationAt(p) /\ ItemAt(p)
                  /\ OthersRecorded(p)

\* The inductive invariant of a run, a reconciliation and the operator.
LedgerInvariant ==
    /\ TypeOK
    /\ OutcomesAreTrue
    /\ OneRowPerRun
    /\ CommitsAreIntended
    /\ OwnOperations
    /\ \A p \in Procs : ProcessAt(p)

-----------------------------------------------------------------------------
\* A command that has begun ends, and the lease it holds with it.
CommandsEnd == \A p \in Procs : proc[p].pc # "idle" ~> proc[p].pc = "idle"
=============================================================================
