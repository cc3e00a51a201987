------------------------------ MODULE Rollback ------------------------------
(***************************************************************************)
(* rollback.py: reverting the commit of a `done` task, next to commands    *)
(* that run tasks, enqueue an id again, or reconcile the ledger.           *)
(*                                                                         *)
(* A rollback holds the repository execution lease from its first check to *)
(* its terminal ledger record.  The state lease is free between any two    *)
(* StateStore calls, so tasks are claimed, enqueued and fail meanwhile: a  *)
(* claim does not take the execution lease.  What a run does to the branch *)
(* is one step here; CanonicalOps has it in full.                          *)
(*                                                                         *)
(* A run is named by its number, and so is its commit; a rollback by its   *)
(* operation id, and so is the commit it makes.  A patch is named by its   *)
(* operation.  The isolated attempt has a worktree of its own.             *)
(***************************************************************************)
EXTENDS Integers, Sequences, FiniteSets, SequencesExt

CONSTANTS
    Procs,       \* processes that run one command after another
    Tasks,       \* task ids
    DependsOn,   \* task -> the ids it depends on
    Ops,         \* rollback operation ids
    MaxEntries,  \* bound: queue entries
    MaxRuns,     \* bound: successful runs
    MayCrash,    \* whether a process may stop between two writes
    MayLitter,   \* whether a check may leave untracked files
    Litter, None

ASSUME RollbackConstants ==
    /\ IsFiniteSet(Tasks) /\ DependsOn \in [Tasks -> SUBSET Tasks]
    /\ None \notin Procs \cup Ops
    /\ \A o \in Ops : o \notin Nat

VARIABLES
    queue,    \* queue.json, oldest entry first
    history,  \* run-history.jsonl: the task of each successful run
    log,      \* the branch: run numbers and rollback operations
    tree,     \* what differs from HEAD in the canonical worktree
    ledger,   \* operations/*.json of the rollbacks
    records,  \* rollback-records.jsonl; failed attempts are not looked at again
    lease,    \* the repository execution lease
    proc      \* per process, the command it is in

vars == <<queue, history, log, tree, ledger, records, lease, proc>>

-----------------------------------------------------------------------------
Active    == {"running", "review_pending", "rework_required", "escalated"}
Statuses  == {"queued", "running", "done", "failed", "rolled_back"}
Outcomes  == {"open", "complete", "reverted", "cancelled"}
Runs      == 1..MaxRuns

\* rollback_record in the ledger: written with the phases verified and
\* commit_created, by two calls with two timestamps.
Evidence  == {"none", "provisional", "final"}

Entry     == [id: Tasks, status: Statuses, run: Nat, by: Ops \cup {None}]
Operation == [task: Tasks, run: Nat, baseline: Nat, applied: BOOLEAN,
              evidence: Evidence, commit: BOOLEAN, outcome: Outcomes]
Row       == [op: Ops, task: Tasks, run: Nat, evidence: Evidence]

NoRecords == [o \in {} |-> None]

\* The points at which a command reconciles, and those of a rollback.
Reconciling == {"startup", "checking", "integrating", "failing"}
Rolling     == {"planning", "isolated", "tested", "begun", "applied", "restored",
                "verified", "committed", "noted", "stored"}
Points      == Reconciling \cup Rolling
                 \cup {"idle", "ready", "working", "integrate", "fail"}

Idle == [pc |-> "idle", task |-> None, run |-> 0, op |-> None,
         todo |-> NoRecords, item |-> None, step |-> "look", blocked |-> FALSE]

\* Tasks are done, or not yet, when the first command starts; what depends on
\* a task that is not done is queued.
Init ==
    \E done \in SUBSET Tasks :
       /\ \A t \in done : DependsOn[t] \subseteq done
       /\ history = SetToSeq(done)
       /\ queue = [i \in 1..Cardinality(Tasks) |->
                     LET order == SetToSeq(done) \o SetToSeq(Tasks \ done) IN
                     [id |-> order[i],
                      status |-> IF order[i] \in done THEN "done" ELSE "queued",
                      run |-> IF order[i] \in done THEN i ELSE 0, by |-> None]]
       /\ log = [i \in 1..Cardinality(done) |-> i]
       /\ tree = {}
       /\ ledger = NoRecords
       /\ records = {}
       /\ lease = None
       /\ proc = [p \in Procs |-> Idle]

-----------------------------------------------------------------------------
(***************************************************************************)
(* The StateStore.                                                         *)
(***************************************************************************)
EntriesOf(t) == {i \in DOMAIN queue : queue[i].id = t}

Newest(S) == CHOOSE i \in S : \A j \in S : j <= i

\* _get_task and latest_task: an id names its last entry.
Latest(t) == queue[Newest(EntriesOf(t))]

SetLatest(t, entry) == queue' = [queue EXCEPT ![Newest(EntriesOf(t))] = entry]

\* _latest_successful_run: 0 when there is none.
LatestRun(t) ==
    LET its == {r \in DOMAIN history : history[r] = t} IN
    IF its = {} THEN 0 ELSE Newest(its)

\* downstream_tasks: what depends on t, directly or through others.  A chain
\* of dependents is no longer than the set of tasks.
Downstream(t) ==
    LET Dependents(S) == S \cup {d \in Tasks : DependsOn[d] \cap S # {}}
        reach[n \in 0..Cardinality(Tasks)] ==
            IF n = 0 THEN {t} ELSE Dependents(reach[n - 1])
    IN reach[Cardinality(Tasks)] \ {t}

\* mark_rolled_back finds its own work by the text of last_error.
AlreadyMarked(t, o) == Latest(t).status = "rolled_back" /\ Latest(t).by = o

\* Slip: whatever the task is doing, it is marked.
MarksAnyTask(row) == FALSE

\* complete_rollback raises: the latest entry of the id is something else by
\* now, or the record was stored with other evidence.
CompleteRefused(row) ==
    \/ Latest(row.task).status # "done" /\ ~AlreadyMarked(row.task, row.op)
    \/ \E old \in records : old.op = row.op /\ old # row

MarkRolledBack(t, o) ==
    IF AlreadyMarked(t, o) THEN UNCHANGED queue
    ELSE SetLatest(t, [Latest(t) EXCEPT !.status = "rolled_back", !.by = o])

CompleteRollback(row) ==
    /\ ~CompleteRefused(row)
    /\ MarkRolledBack(row.task, row.op)
    /\ records' = records \cup {row}

RowOf(o, rec) == [op |-> o, task |-> rec.task, run |-> rec.run, evidence |-> rec.evidence]

-----------------------------------------------------------------------------
(***************************************************************************)
(* The ledger.                                                             *)
(***************************************************************************)
OpenOps == {o \in DOMAIN ledger : ledger[o].outcome = "open"}

OnBranch(x) == \E i \in DOMAIN log : log[i] = x

\* _state_complete for a rollback.
StateComplete(o) == \E row \in records : row.op = o

ExactCommit(o, rec) ==
    /\ rec.baseline + 1 \in DOMAIN log
    /\ log[rec.baseline + 1] = o
    /\ rec.evidence # "none"
    /\ tree = {}

NotStarted(o) ==
    /\ ~StateComplete(o) /\ ~OnBranch(o)
    /\ Len(log) = ledger[o].baseline /\ tree = {}

PatchApplied(o) ==
    /\ ~StateComplete(o) /\ ~OnBranch(o)
    /\ Len(log) = ledger[o].baseline /\ ledger[o].applied /\ tree = {o}

Closed(o, outcome) == ledger[o].outcome \notin {"open", outcome}

Become(p, local) == proc' = [proc EXCEPT ![p] = local]
Goto(p, pc)      == Become(p, [proc[p] EXCEPT !.pc = pc])
Release(p)       == lease' = IF lease = p THEN None ELSE lease
Leave(p)         == Become(p, Idle) /\ Release(p)

\* reconcile() works on the records as they are when it starts.
Reconcile(p, local) ==
    Become(p, [local EXCEPT !.todo = [o \in OpenOps |-> ledger[o]],
                            !.item = None, !.step = "look", !.blocked = FALSE])

NextItem(p, blocked) ==
    Become(p, [proc[p] EXCEPT
        !.todo = [o \in DOMAIN proc[p].todo \ {proc[p].item} |-> proc[p].todo[o]],
        !.item = None, !.step = "look", !.blocked = proc[p].blocked \/ blocked])

-----------------------------------------------------------------------------
(***************************************************************************)
(* OperationLedger.reconcile(auto_complete_state=True), rollback side.     *)
(***************************************************************************)
InHand(p, step) ==
    /\ proc[p].pc \in Reconciling
    /\ proc[p].item # None
    /\ proc[p].step = step

TakeItem(p) ==
    /\ proc[p].pc \in Reconciling /\ proc[p].item = None
    /\ \E o \in DOMAIN proc[p].todo : Become(p, [proc[p] EXCEPT !.item = o])
    /\ UNCHANGED <<queue, history, log, tree, ledger, records, lease>>

\* An exception in the run: the lease is given up, and the handler of
\* _run_next_queued_task reconciles without taking it again.
Raise(p) == Release(p) /\ Reconcile(p, [proc[p] EXCEPT !.pc = "failing"])

\* A StateStore or ledger error leaves reconcile().
Escapes(p) == IF proc[p].pc = "integrating" THEN Raise(p) ELSE Leave(p)

\* state_complete: close the ledger record.
LookUp(p) ==
    LET o == proc[p].item IN
    /\ InHand(p, "look")
    /\ \/ /\ ~StateComplete(o)
          /\ Become(p, [proc[p] EXCEPT !.step = "judge"])
          /\ UNCHANGED <<ledger, lease>>
       \/ /\ StateComplete(o) /\ Closed(o, "complete")
          /\ Escapes(p)
          /\ UNCHANGED ledger
       \/ /\ StateComplete(o) /\ ~Closed(o, "complete")
          /\ ledger' = [ledger EXCEPT ![o].outcome = "complete"]
          /\ NextItem(p, FALSE)
          /\ UNCHANGED lease
    /\ UNCHANGED <<queue, history, log, tree, records>>

\* commit_exists_state_missing: the record as it was read, with the commit
\* filled in, is written back.
Judge(p) ==
    LET o == proc[p].item  rec == proc[p].todo[proc[p].item] IN
    /\ InHand(p, "judge")
    /\ IF ExactCommit(o, rec)
       THEN /\ ledger' = IF rec.commit THEN ledger
                         ELSE [ledger EXCEPT ![o] = [rec EXCEPT !.commit = TRUE]]
            /\ Become(p, [proc[p] EXCEPT !.step = "write"])
       ELSE NextItem(p, TRUE) /\ UNCHANGED ledger
    /\ UNCHANGED <<queue, history, log, tree, records, lease>>

\* _complete_state: complete_rollback with the evidence of the ledger.
CompleteState(p) ==
    LET o == proc[p].item  row == RowOf(o, proc[p].todo[o]) IN
    /\ InHand(p, "write")
    /\ \/ /\ CompleteRefused(row)
          /\ Escapes(p)
          /\ UNCHANGED <<queue, records>>
       \/ /\ CompleteRollback(row)
          /\ Become(p, [proc[p] EXCEPT !.step = "finish"])
          /\ UNCHANGED lease
    /\ UNCHANGED <<history, log, tree, ledger>>

FinishLedger(p) ==
    LET o == proc[p].item IN
    /\ InHand(p, "finish")
    /\ IF ledger[o].outcome # "open"
       THEN Escapes(p) /\ UNCHANGED ledger
       ELSE /\ ledger' = [ledger EXCEPT ![o].outcome = "complete"]
            /\ NextItem(p, FALSE)
            /\ UNCHANGED lease
    /\ UNCHANGED <<queue, history, log, tree, records>>

\* Slip: blocking evidence does not stop a rollback.
ReconcileEndsUnblocked(p) ==
    LET l == proc[p] IN
    /\ l.pc \in Reconciling /\ l.item = None /\ DOMAIN l.todo = {}
    /\ \/ l.pc = "startup" /\ Goto(p, "ready") /\ Release(p)
       \/ l.pc = "checking" /\ Goto(p, "planning") /\ UNCHANGED lease
       \/ l.pc = "integrating" /\ Goto(p, "integrate") /\ UNCHANGED lease
       \/ l.pc = "failing" /\ Goto(p, "fail") /\ UNCHANGED lease
    /\ UNCHANGED <<queue, history, log, tree, ledger, records>>

\* The report is ready.  assert_no_blocking raises on blocking evidence.
ReconcileEnds(p) ==
    LET l == proc[p] IN
    /\ l.pc \in Reconciling /\ l.item = None /\ DOMAIN l.todo = {}
    /\ \/ l.pc = "startup" /\ ~l.blocked /\ Goto(p, "ready") /\ Release(p)
       \/ l.pc = "startup" /\ l.blocked /\ Leave(p)
       \/ l.pc = "checking" /\ ~l.blocked /\ Goto(p, "planning") /\ UNCHANGED lease
       \/ l.pc = "checking" /\ l.blocked /\ Leave(p)
       \/ l.pc = "integrating" /\ ~l.blocked /\ Goto(p, "integrate") /\ UNCHANGED lease
       \/ l.pc = "integrating" /\ l.blocked /\ Raise(p)
       \/ l.pc = "failing" /\ ~l.blocked /\ Goto(p, "fail") /\ UNCHANGED lease
       \/ l.pc = "failing" /\ l.blocked /\ Leave(p)
    /\ UNCHANGED <<queue, history, log, tree, ledger, records>>

-----------------------------------------------------------------------------
(***************************************************************************)
(* queue-run-next: reconcile under the lease, claim without it, integrate  *)
(* under it again.                                                         *)
(***************************************************************************)
NoneActive(t) == \A i \in EntriesOf(t) : queue[i].status \notin Active \cup {"queued"}

\* enqueue: a finished id gets a new entry.
Enqueue(t) ==
    /\ Len(queue) < MaxEntries
    /\ NoneActive(t)
    /\ queue' = Append(queue, [id |-> t, status |-> "queued", run |-> 0, by |-> None])
    /\ UNCHANGED <<history, log, tree, ledger, records, lease, proc>>

Startup(p) ==
    /\ proc[p].pc = "idle"
    /\ Len(history) < MaxRuns
    /\ lease = None
    /\ lease' = p
    /\ Reconcile(p, [Idle EXCEPT !.pc = "startup"])
    /\ UNCHANGED <<queue, history, log, tree, ledger, records>>

Claim(p) ==
    /\ proc[p].pc = "ready"
    /\ \E t \in Tasks :
          /\ Latest(t).status = "queued"
          /\ \A d \in DependsOn[t] : Latest(d).status = "done"
          /\ SetLatest(t, [Latest(t) EXCEPT !.status = "running"])
          /\ Become(p, [proc[p] EXCEPT !.pc = "working", !.task = t])
    /\ UNCHANGED <<history, log, tree, ledger, records, lease>>

NothingToClaim(p) ==
    /\ proc[p].pc = "ready"
    /\ \A t \in Tasks : Latest(t).status = "queued" =>
          \E d \in DependsOn[t] : Latest(d).status # "done"
    /\ Leave(p)
    /\ UNCHANGED <<queue, history, log, tree, ledger, records>>

\* The Worker is done: its patch is integrated under the lease, behind
\* assert_no_blocking.
WorkReturns(p) ==
    /\ proc[p].pc = "working"
    /\ lease = None
    /\ lease' = p
    /\ Reconcile(p, [proc[p] EXCEPT !.pc = "integrating"])
    /\ UNCHANGED <<queue, history, log, tree, ledger, records>>

\* The lease is busy for too long: recover_running puts the task back.
WorkContended(p) ==
    /\ proc[p].pc = "working"
    /\ lease # None
    /\ SetLatest(proc[p].task, [Latest(proc[p].task) EXCEPT !.status = "queued"])
    /\ Leave(p)
    /\ UNCHANGED <<history, log, tree, ledger, records>>

WorkRaises(p) ==
    /\ proc[p].pc = "working"
    /\ Raise(p)
    /\ UNCHANGED <<queue, history, log, tree, ledger, records>>

\* The run's commit and record (CanonicalOps has the steps in between).
Integrate(p) ==
    LET r == Len(history) + 1  t == proc[p].task IN
    /\ proc[p].pc = "integrate"
    /\ r <= MaxRuns
    /\ log' = Append(log, r)
    /\ history' = Append(history, t)
    /\ SetLatest(t, [Latest(t) EXCEPT !.status = "done", !.run = r])
    /\ Leave(p)
    /\ UNCHANGED <<tree, ledger, records>>

IntegrateFails(p) ==
    /\ proc[p].pc = "integrate"
    /\ Raise(p)
    /\ UNCHANGED <<queue, history, log, tree, ledger, records>>

\* record_failure
Fail(p) ==
    /\ proc[p].pc = "fail"
    /\ SetLatest(proc[p].task, [Latest(proc[p].task) EXCEPT !.status = "failed"])
    /\ Leave(p)
    /\ UNCHANGED <<history, log, tree, ledger, records>>

-----------------------------------------------------------------------------
(***************************************************************************)
(* apply_rollback                                                          *)
(***************************************************************************)

\* lease.hold, then assert_no_blocking.  r is the commit the operator expects.
BeginRollback(p, t, r) ==
    /\ proc[p].pc = "idle"
    /\ r \in DOMAIN history
    /\ Ops \ DOMAIN ledger # {}
    /\ lease = None
    /\ lease' = p
    /\ Reconcile(p, [Idle EXCEPT !.pc = "checking", !.task = t, !.run = r])
    /\ UNCHANGED <<queue, history, log, tree, ledger, records>>

\* plan_rollback finds no blocker for the commit of run r.
Eligible(t, r) ==
    /\ Latest(t).status = "done" /\ Latest(t).run = r
    /\ LatestRun(t) = r
    /\ OnBranch(r)
    /\ tree = {}
    /\ \A i \in DOMAIN queue : queue[i].status \notin Active
    /\ \A d \in Downstream(t) : Latest(d).status \notin Active \cup {"done"}
    /\ \A row \in records : row.run # r

AlreadyRolledBack(t, r) == \E row \in records : row.task = t /\ row.run = r

\* A repeated request returns the record there is, a refused one raises; else
\* the attempt gets a worktree at HEAD.
Plan(p) ==
    LET l == proc[p] IN
    /\ l.pc = "planning"
    /\ IF ~AlreadyRolledBack(l.task, l.run) /\ Eligible(l.task, l.run)
       THEN Goto(p, "isolated") /\ UNCHANGED lease
       ELSE Leave(p)
    /\ UNCHANGED <<queue, history, log, tree, ledger, records>>

\* git revert, the operator's checks and the patch's scope, all in the
\* isolated worktree; any of them may fail, and that is recorded.
TestApart(p) ==
    /\ proc[p].pc = "isolated"
    /\ \/ Goto(p, "tested") /\ UNCHANGED lease
       \/ Leave(p)
    /\ UNCHANGED <<queue, history, log, tree, ledger, records>>

\* The plan is made again, then the intent is written.
Revalidate(p) ==
    LET l == proc[p] IN
    /\ l.pc = "tested"
    /\ \/ /\ ~Eligible(l.task, l.run)
          /\ Leave(p)
          /\ UNCHANGED ledger
       \/ /\ Eligible(l.task, l.run)
          /\ \E o \in Ops \ DOMAIN ledger :
                /\ ledger' = [q \in DOMAIN ledger \cup {o} |->
                      IF q = o THEN [task |-> l.task, run |-> l.run,
                                     baseline |-> Len(log), applied |-> FALSE,
                                     evidence |-> "none", commit |-> FALSE,
                                     outcome |-> "open"]
                      ELSE ledger[q]]
                /\ Become(p, [l EXCEPT !.pc = "begun", !.op = o])
          /\ UNCHANGED lease
    /\ UNCHANGED <<queue, history, log, tree, records>>

\* A GitError of apply_patch is recorded, and the operation stays open.
Apply(p) ==
    /\ proc[p].pc = "begun"
    /\ \/ tree' = tree \cup {proc[p].op} /\ Goto(p, "applied") /\ UNCHANGED lease
       \/ UNCHANGED tree /\ Leave(p)
    /\ UNCHANGED <<queue, history, log, ledger, records>>

\* phase(patch_applied) and the checks in the canonical worktree, which may
\* leave files or undo the patch.  A failed check: the paths are restored.
\* phase() raises when another process closed the operation.
Check(p) ==
    LET o == proc[p].op  litter == IF MayLitter THEN {Litter} ELSE {} IN
    /\ proc[p].pc = "applied"
    /\ \/ /\ ledger[o].outcome # "open"
          /\ Leave(p)
          /\ UNCHANGED <<tree, ledger>>
       \/ /\ ledger[o].outcome = "open"
          /\ ledger' = [ledger EXCEPT ![o].applied = TRUE]
          /\ \/ tree' \in {tree, tree \cup litter, tree \ {o}} /\ Goto(p, "verified")
             \/ tree' \in {tree \ {o}, (tree \ {o}) \cup litter} /\ Goto(p, "restored")
          /\ UNCHANGED lease
    /\ UNCHANGED <<queue, history, log, records>>

\* The failed attempt is recorded, and the operation ends as reverted.
EndReverted(p) ==
    LET o == proc[p].op IN
    /\ proc[p].pc = "restored"
    /\ ledger' = IF Closed(o, "reverted") THEN ledger
                 ELSE [ledger EXCEPT ![o].outcome = "reverted"]
    /\ Leave(p)
    /\ UNCHANGED <<queue, history, log, tree, records>>

\* phase(verified) with the provisional record, then stage and commit.  A
\* GitError restores the paths; no change to commit raises past the handler.
Commit(p) ==
    LET o == proc[p].op IN
    /\ proc[p].pc = "verified"
    /\ \/ /\ ledger[o].outcome # "open"
          /\ Leave(p)
          /\ UNCHANGED <<log, tree, ledger>>
       \/ /\ ledger[o].outcome = "open"
          /\ ledger' = [ledger EXCEPT ![o].evidence = "provisional"]
          /\ tree' = tree \ {o}
          /\ \/ o \in tree /\ log' = Append(log, o)
                /\ Goto(p, "committed") /\ UNCHANGED lease
             \/ UNCHANGED log /\ Goto(p, "restored") /\ UNCHANGED lease
             \/ o \notin tree /\ UNCHANGED log /\ Leave(p)
    /\ UNCHANGED <<queue, history, records>>

\* phase(commit_created) with the final record.
NoteCommit(p) ==
    LET o == proc[p].op IN
    /\ proc[p].pc = "committed"
    /\ \/ /\ ledger[o].outcome # "open"
          /\ Leave(p)
          /\ UNCHANGED ledger
       \/ /\ ledger[o].outcome = "open"
          /\ ledger' = [ledger EXCEPT ![o].evidence = "final", ![o].commit = TRUE]
          /\ Goto(p, "noted")
          /\ UNCHANGED lease
    /\ UNCHANGED <<queue, history, log, tree, records>>

FinalRow(p) == [op |-> proc[p].op, task |-> proc[p].task, run |-> proc[p].run,
                evidence |-> "final"]

StoreRollback(p) ==
    /\ proc[p].pc = "noted"
    /\ \/ /\ CompleteRefused(FinalRow(p))
          /\ Leave(p)
          /\ UNCHANGED <<queue, records>>
       \/ /\ CompleteRollback(FinalRow(p))
          /\ Goto(p, "stored")
          /\ UNCHANGED lease
    /\ UNCHANGED <<history, log, tree, ledger>>

\* phase(state_recorded), terminal(complete).
EndComplete(p) ==
    LET o == proc[p].op IN
    /\ proc[p].pc = "stored"
    /\ ledger' = IF ledger[o].outcome # "open" THEN ledger
                 ELSE [ledger EXCEPT ![o].outcome = "complete"]
    /\ Leave(p)
    /\ UNCHANGED <<queue, history, log, tree, records>>

-----------------------------------------------------------------------------
(***************************************************************************)
(* Crashes, and what an operator does with the evidence left behind.       *)
(***************************************************************************)
Crash(p) ==
    /\ MayCrash
    /\ proc[p].pc # "idle"
    /\ Leave(p)
    /\ UNCHANGED <<queue, history, log, tree, ledger, records>>

\* complete_rollback stops between queue.json and rollback-records.jsonl.
CrashWhileStoring(p) ==
    /\ MayCrash
    /\ \E row \in {FinalRow(p)} \cup
            (IF InHand(p, "write")
             THEN {RowOf(proc[p].item, proc[p].todo[proc[p].item])} ELSE {}) :
          /\ proc[p].pc = "noted" \/ InHand(p, "write")
          /\ InHand(p, "write") => row.op = proc[p].item
          /\ ~CompleteRefused(row)
          /\ MarkRolledBack(row.task, row.op)
    /\ Leave(p)
    /\ UNCHANGED <<history, log, tree, ledger, records>>

\* reconcile-apply cancel-intent and restore-patch, under the lease.
Cancel(o) ==
    /\ lease = None /\ o \in OpenOps /\ NotStarted(o)
    /\ ledger' = [ledger EXCEPT ![o].outcome = "cancelled"]
    /\ UNCHANGED <<queue, history, log, tree, records, lease, proc>>

Restore(o) ==
    /\ lease = None /\ o \in OpenOps /\ PatchApplied(o)
    /\ tree' = {}
    /\ ledger' = [ledger EXCEPT ![o].outcome = "reverted"]
    /\ UNCHANGED <<queue, history, log, records, lease, proc>>

\* A person removes what the checks left behind.
RemoveLitter ==
    /\ Litter \in tree
    /\ tree' = tree \ {Litter}
    /\ UNCHANGED <<queue, history, log, ledger, records, lease, proc>>

-----------------------------------------------------------------------------
Step(p) ==
    \/ TakeItem(p) \/ LookUp(p) \/ Judge(p) \/ CompleteState(p) \/ FinishLedger(p)
    \/ ReconcileEnds(p)
    \/ Claim(p) \/ NothingToClaim(p) \/ WorkReturns(p) \/ WorkContended(p)
    \/ WorkRaises(p) \/ Integrate(p) \/ IntegrateFails(p) \/ Fail(p)
    \/ Plan(p) \/ TestApart(p) \/ Revalidate(p) \/ Apply(p) \/ Check(p)
    \/ EndReverted(p) \/ Commit(p) \/ NoteCommit(p) \/ StoreRollback(p)
    \/ EndComplete(p)

Next ==
    \/ \E p \in Procs : Step(p) \/ Startup(p) \/ Crash(p) \/ CrashWhileStoring(p)
    \/ \E p \in Procs, t \in Tasks, r \in Runs : BeginRollback(p, t, r)
    \/ \E t \in Tasks : Enqueue(t)
    \/ \E o \in Ops : Cancel(o) \/ Restore(o)
    \/ RemoveLitter

Spec == Init /\ [][Next]_vars

-----------------------------------------------------------------------------
\* Records of operations: the ledger, and what a reconciliation read of it.
RecordsOK(f) == DOMAIN f \subseteq Ops /\ f \in [DOMAIN f -> Operation]

CommandOK(l) ==
    /\ l \in [pc : Points, task : Tasks \cup {None}, run : Nat, op : Ops \cup {None},
              todo : {l.todo}, item : Ops \cup {None},
              step : {"look", "judge", "write", "finish"}, blocked : BOOLEAN]
    /\ RecordsOK(l.todo)

TypeOK ==
    /\ queue \in Seq(Entry) /\ history \in Seq(Tasks) /\ log \in Seq(Nat \cup Ops)
    /\ tree \subseteq Ops \cup {Litter}
    /\ RecordsOK(ledger)
    /\ records \subseteq Row
    /\ lease \in Procs \cup {None}
    /\ DOMAIN proc = Procs
    /\ \A p \in Procs : CommandOK(proc[p])

\* No run is reverted by two commits, and no revert is committed twice.
OneRevertEach ==
    \A i, j \in DOMAIN log :
        /\ log[i] \in Ops
        /\ log[j] \in Ops
        /\ ledger[log[i]].run = ledger[log[j]].run
        => i = j

(* A revert the StateStore does not know of stays the last commit, and open: *)
(* nothing is built on it before it is recorded.                             *)
UnrecordedRevertBlocks ==
    \A o \in DOMAIN ledger : OnBranch(o) /\ ~StateComplete(o) =>
        ledger[o].outcome = "open" /\ log[Len(log)] = o

(* apply_rollback: a commit is reverted at most once, and a revert is never  *)
(* reverted, whatever crashes and is tried again; and a revert that no       *)
(* record tells of yet keeps every other run and rollback from the branch.   *)
RevertedOnce == OneRevertEach /\ UnrecordedRevertBlocks

\* An entry says that operation o reverted its run.
Marked(o) == \E i \in DOMAIN queue :
                /\ queue[i].status = "rolled_back"
                /\ queue[i].by = o
                /\ queue[i].run = ledger[o].run

(* complete_rollback: an operation that ended as complete has its commit, its *)
(* record and its mark on the entry of the run it reverted; a record has the  *)
(* commit, too.                                                               *)
RollbackAgrees ==
    /\ \A row \in records : OnBranch(row.op)
    /\ \A o \in DOMAIN ledger : ledger[o].outcome = "complete" =>
          StateComplete(o) /\ Marked(o)

(* mark_rolled_back looks up the last entry of the id, not the run: it never *)
(* marks a later lifecycle of the id for the revert of an earlier one.       *)
MarksTheTarget ==
    \A i \in DOMAIN queue : queue[i].by # None =>
        queue[i].run = ledger[queue[i].by].run

(* "Queued downstream tasks ... remain queued and cannot run" once their     *)
(* dependency is rolled back (docs/architecture.md).                         *)
DependentsWait ==
    \A t \in Tasks : Latest(t).status = "rolled_back" =>
        \A d \in Downstream(t) : Latest(d).status \notin {"running", "done"}

(* A revert that was committed can be recorded: the task it was planned for  *)
(* is still the one complete_rollback finds.                                 *)
CommittedRollbackCompletes ==
    \A p \in Procs : proc[p].pc = "noted" => ~CompleteRefused(FinalRow(p))

-----------------------------------------------------------------------------
(* What a rollback relies on                                                 *)

Begun     == {"begun", "applied", "restored", "verified", "committed", "noted", "stored"}
Committed == {"committed", "noted", "stored"}
Working   == {"working", "integrating", "integrate", "failing", "fail"}

\* Points at which a command has the execution lease.
Leased == {"startup", "checking", "integrating", "integrate"} \cup Rolling

\* A revert that is on the branch and that the StateStore does not know of.
Unrecorded(o) == OnBranch(o) /\ ~StateComplete(o)

\* The revert of run r of task t may be recorded of the latest entry only if
\* that is the entry of the run.
TargetIs(t, r, o) ==
    Latest(t).status = "done" \/ AlreadyMarked(t, o) => Latest(t).run = r

TargetOf(o) == TargetIs(ledger[o].task, ledger[o].run, o)

QueueAgrees ==
    /\ \A t \in Tasks : EntriesOf(t) # {}
    /\ \A i \in DOMAIN queue : queue[i].by # None => OnBranch(queue[i].by)

LedgerAgrees ==
    /\ \A i \in DOMAIN log : log[i] \in Ops => log[i] \in DOMAIN ledger
    /\ \A row \in records : /\ row.op \in DOMAIN ledger /\ OnBranch(row.op)
                            /\ row.run = ledger[row.op].run
                            /\ Marked(row.op)
    /\ \A o \in DOMAIN ledger :
          /\ ledger[o].outcome = "complete" => StateComplete(o)
          /\ ledger[o].outcome \in {"reverted", "cancelled"} => ~OnBranch(o)
          /\ Unrecorded(o) => /\ log[Len(log)] = o
                              /\ TargetOf(o)

\* What a reconciliation read stays true but for the progress of the record.
SnapshotAt(l) ==
    /\ \A o \in DOMAIN l.todo : /\ o \in DOMAIN ledger
                                /\ l.todo[o].task = ledger[o].task
                                /\ l.todo[o].run = ledger[o].run
                                /\ l.todo[o].outcome = "open"
    /\ l.item = None => l.step = "look"
    /\ l.item # None =>
          /\ l.pc \in Reconciling /\ l.item \in DOMAIN l.todo
          /\ l.step \in {"write", "finish"} => OnBranch(l.item)
          /\ l.step = "finish" => StateComplete(l.item)

\* Under the lease every other revert is recorded, or is in the report to come.
OthersRecorded(l) ==
    /\ l.pc \in {"checking", "integrating"} /\ ~l.blocked =>
          \A o \in Ops : Unrecorded(o) => o \in DOMAIN l.todo
    /\ l.pc = "integrate" \/ l.pc \in Rolling =>
          \A o \in Ops : Unrecorded(o) => o = l.op

\* The operation of a rollback: of its run, which no record names before the
\* commit; and the entry it will mark.
OwnOperation(l) ==
    /\ l.pc \in Begun <=> l.op # None
    /\ l.pc \in Begun =>
          /\ l.op \in DOMAIN ledger
          /\ ledger[l.op].task = l.task /\ ledger[l.op].run = l.run
    /\ l.pc \in Begun \ Committed =>
          /\ ~OnBranch(l.op)
          /\ TargetIs(l.task, l.run, l.op)
          /\ \A row \in records : row.run # l.run
    /\ l.pc \in Committed => OnBranch(l.op)
    /\ l.pc = "stored" => StateComplete(l.op)

\* What a command takes for granted where it is.
Rely(l) ==
    /\ l.pc \in Working \cup Rolling \cup {"checking"} => l.task \in Tasks
    /\ l.pc \in Working => Latest(l.task).status = "running"
    /\ SnapshotAt(l) /\ OthersRecorded(l) /\ OwnOperation(l)

\* A task is worked on by one command.
OneWorker ==
    \A p, q \in Procs : /\ p # q /\ proc[p].pc \in Working /\ proc[q].pc \in Working
                        => proc[p].task # proc[q].task

(* The inductive invariant of this module.                                   *)
RollbackInvariant ==
    /\ OneRevertEach /\ QueueAgrees /\ LedgerAgrees /\ OneWorker
    /\ \A p \in Procs : (proc[p].pc \in Leased => lease = p) /\ Rely(proc[p])
=============================================================================
