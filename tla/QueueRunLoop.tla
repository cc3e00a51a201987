---------------------------- MODULE QueueRunLoop ----------------------------
(***************************************************************************)
(* `queue-run-loop` (cli.py): batches of tasks whose workers prepare their  *)
(* patches side by side in isolated worktrees, integrated one after the     *)
(* other, until the queue is empty, a limit is reached or something blocks; *)
(* then the final audit.  The loop reads and writes the queue in separate   *)
(* transactions, and other commands change it in between.                   *)
(*                                                                          *)
(* A task is its latest queue entry and a number: lower numbers are offered *)
(* first.  What an integration does to the branch is in CanonicalOps, what  *)
(* a review does in TaskLifecycle; here both are their outcome.             *)
(***************************************************************************)
EXTENDS Integers, Sequences, FiniteSets, SequencesExt

CONSTANTS
    Loops,       \* processes, each one queue-run-loop command
    Tasks,       \* task numbers, in schedule order
    DependsOn,   \* task -> the tasks it depends on
    Overlaps,    \* pairs of tasks whose allowed_paths conflict
    Configs,     \* the configurations and options the command may start with
    MaxOthers    \* bound: steps of other commands on the queue

\* What every instance takes of its constants.
Config == [required : BOOLEAN, automatic : BOOLEAN, isolated : BOOLEAN,
           parallelism : Nat, max : Nat, audit : BOOLEAN]

ConstantsOK ==
    /\ Tasks \subseteq Nat /\ IsFiniteSet(Tasks)
    /\ \A pair \in Overlaps : <<pair[2], pair[1]>> \in Overlaps
    /\ Configs \subseteq Config
    /\ MaxOthers \in Nat

ASSUME LoopConstants == ConstantsOK

VARIABLES
    status,   \* queue.json: the status of each task
    dirty,    \* whether another command has the canonical worktree in use
    loop,     \* per loop, where it is and what it holds in memory
    others    \* steps other commands have taken

vars == <<status, dirty, loop, others>>

-----------------------------------------------------------------------------
Waiting  == {"review_pending", "rework_required", "escalated"}
Statuses == {"absent", "queued", "running", "done", "failed", "rolled_back"} \cup Waiting

\* What one round of the loop reports of a task: the lifecycle_status.
Exceptions == {"claim_contended", "reconciliation_blocked", "failed", "setup_failed",
               "escalation"}
Decisions  == {"critic_done", "rework_required", "escalated"}
Kinds      == Exceptions \cup Decisions \cup
                {"empty", "dependency_blocked", "rejected", "done", "review_pending"}

Prepared == {"none", "patch", "nopatch", "error"}

\* fate: the last status this command wrote for each task it claimed.
Fresh(c) ==
    [pc |-> "start", config |-> c, pending |-> <<>>, batch |-> <<>>,
     prepared |-> [t \in Tasks |-> "none"], completed |-> 0, blocked |-> FALSE,
     fate |-> [t \in Tasks |-> "none"], exit |-> "none"]

Init ==
    /\ status \in [Tasks -> {"absent", "queued", "running", "failed"}]
    /\ dirty = FALSE
    /\ \E c \in Configs : loop = [l \in Loops |-> Fresh(c)]
    /\ others = 0

-----------------------------------------------------------------------------
(***************************************************************************)
(* The schedule.                                                           *)
(***************************************************************************)
IsReady(t) == status[t] = "queued" /\ \A d \in DependsOn[t] : status[d] = "done"

\* Tasks in schedule order.
InOrder(S) == CHOOSE s \in [1..Cardinality(S) -> S] :
                 \A i, j \in DOMAIN s : i < j => s[i] < s[j]

\* schedule().ready
Ready      == {t \in Tasks : IsReady(t)}
ReadyTasks == InOrder(Ready)

Blocked == {t \in Tasks : status[t] = "queued" /\ ~IsReady(t)}

Conflict(t, u) == t = u \/ <<t, u>> \in Overlaps

\* Slip: the first ready tasks, whatever their scopes.
ScheduleBatchUnscoped(limit) ==
    SubSeq(ReadyTasks, 1, IF Len(ReadyTasks) < limit THEN Len(ReadyTasks) ELSE limit)

\* schedule_batch: each ready task in turn joins the selected ones before it,
\* unless it conflicts with one of them or the limit is reached.
Joins(t, selected, limit) ==
    LET earlier == {u \in selected : u < t} IN
    Cardinality(earlier) < limit /\ \A u \in earlier : ~Conflict(t, u)

Selected(limit) ==
    CHOOSE S \in SUBSET Ready : \A t \in Ready : t \in S <=> Joins(t, S, limit)

ScheduleBatch(limit) == InOrder(Selected(limit))

\* The loop runs one task at a time unless workers are isolated and no review
\* gate is on.
Parallelism(c) == IF c.isolated /\ ~c.required THEN c.parallelism ELSE 1

Remaining(l) ==
    LET c == loop[l].config  left == c.max - loop[l].completed IN
    IF c.max > 0 /\ left < Parallelism(c) THEN left ELSE Parallelism(c)

Become(l, local) == loop' = [loop EXCEPT ![l] = local]
Goto(l, pc)      == Become(l, [loop[l] EXCEPT !.pc = pc])
Exit(l, code)    == Become(l, [loop[l] EXCEPT !.pc = "exit", !.exit = code])
Raise(l)         == Exit(l, "raised")

\* One outcome of a round, for the loop to look at.
Report(l, kind) ==
    Become(l, [loop[l] EXCEPT !.pc = "take", !.pending = Append(@, kind)])

\* The outcome of one task of the batch, and what was last written of it.
ReportTask(l, kind, fate) ==
    LET t == Head(loop[l].batch)  rest == Tail(loop[l].batch) IN
    Become(l, [loop[l] EXCEPT
        !.pending = Append(@, kind), !.fate[t] = fate, !.batch = rest,
        !.pc = IF rest = <<>> THEN "take" ELSE "integrate"])

\* An exception that nothing catches, in the middle of a batch.
RaiseOf(l, fate) ==
    Become(l, [loop[l] EXCEPT !.pc = "exit", !.exit = "raised",
                              !.fate[Head(loop[l].batch)] = fate])

SetStatus(t, s) == status' = [status EXCEPT ![t] = s]

-----------------------------------------------------------------------------
(***************************************************************************)
(* Before the first round.                                                 *)
(***************************************************************************)
\* A parallelism below 1 and a notifier that cannot be built end the command.
Start(l) ==
    /\ loop[l].pc = "start"
    /\ \/ loop[l].config.parallelism < 1 /\ Exit(l, "refused")
       \/ Exit(l, "refused")
       \/ loop[l].config.parallelism >= 1 /\ Goto(l, "stale")
    /\ UNCHANGED <<status, dirty, others>>

\* Any running task may be older than the limit.
CheckStale(l) ==
    /\ loop[l].pc = "stale"
    /\ \/ (\E t \in Tasks : status[t] = "running") /\ Exit(l, "blocked")
       \/ Goto(l, "waiting")
    /\ UNCHANGED <<status, dirty, others>>

WaitingTasks == {t \in Tasks : status[t] \in Waiting}

CheckWaiting(l) ==
    /\ loop[l].pc = "waiting"
    /\ IF loop[l].config.required /\ WaitingTasks # {}
       THEN Exit(l, CHOOSE s \in Waiting :
                      /\ \E t \in WaitingTasks : status[t] = s
                      /\ s = "rework_required" => \A t \in WaitingTasks : status[t] # "escalated"
                      /\ s = "review_pending" => \A t \in WaitingTasks : status[t] = s)
       ELSE Goto(l, "take")
    /\ UNCHANGED <<status, dirty, others>>

-----------------------------------------------------------------------------
(***************************************************************************)
(* A round: one task, or a batch.                                          *)
(***************************************************************************)
LimitReached(l) == loop[l].config.max > 0 /\ loop[l].completed >= loop[l].config.max

EndOfLimit(l) ==
    /\ loop[l].pc = "take" /\ LimitReached(l)
    /\ Exit(l, "max_tasks_reached")
    /\ UNCHANGED <<status, dirty, others>>

Round(l) ==
    /\ loop[l].pc = "take" /\ ~LimitReached(l) /\ loop[l].pending = <<>>
    /\ Goto(l, IF Remaining(l) <= 1 THEN "one" ELSE "batch")
    /\ UNCHANGED <<status, dirty, others>>

\* _startup_reconcile: the execution lease is taken, or the ledger blocks.
Startup(l) ==
    /\ loop[l].pc \in {"one", "batch"}
    /\ \/ Report(l, "claim_contended")
       \/ Report(l, "reconciliation_blocked")
       \/ Goto(l, IF loop[l].pc = "one" THEN "select" ELSE "schedule")
    /\ UNCHANGED <<status, dirty, others>>

\* One task or none: the round of a single task, which reconciles again.
PlanBatch(l) ==
    /\ loop[l].pc = "schedule"
    /\ Goto(l, IF Len(ScheduleBatch(Remaining(l))) <= 1 THEN "one" ELSE "claim")
    /\ UNCHANGED <<status, dirty, others>>

\* claim_batch schedules anew, so it may claim other tasks, or none: a thread
\* pool of no threads raises.  So does the journal.
ClaimBatch(l) ==
    LET batch == ScheduleBatch(Remaining(l)) IN
    /\ loop[l].pc = "claim"
    /\ status' = [t \in Tasks |-> IF t \in ToSet(batch) THEN "running" ELSE status[t]]
    /\ LET claimed == [loop[l] EXCEPT
               !.batch = batch,
               !.fate = [t \in Tasks |-> IF t \in ToSet(batch) THEN "running" ELSE @[t]],
               !.prepared = [t \in Tasks |-> "none"]]
       IN \/ batch # <<>> /\ Become(l, [claimed EXCEPT !.pc = "collect"])
          \/ Become(l, [claimed EXCEPT !.pc = "exit", !.exit = "raised"])
    /\ UNCHANGED <<dirty, others>>

\* An isolated attempt: refused in a worktree that is not clean; a worker that
\* fails, or moves HEAD, has no patch.
Prepare(l, t) ==
    /\ loop[l].pc = "collect"
    /\ t \in ToSet(loop[l].batch) /\ loop[l].prepared[t] = "none"
    /\ \E result \in (IF dirty THEN {"error"} ELSE {"patch", "nopatch", "error"}) :
          Become(l, [loop[l] EXCEPT !.prepared[t] = result])
    /\ UNCHANGED <<status, dirty, others>>

Collected(l) ==
    /\ loop[l].pc = "collect"
    /\ \A t \in ToSet(loop[l].batch) : loop[l].prepared[t] # "none"
    /\ Goto(l, "integrate")
    /\ UNCHANGED <<status, dirty, others>>

SelectOne(l) ==
    /\ loop[l].pc = "select"
    /\ \/ ReadyTasks # <<>> /\ Goto(l, "claim_one")
       \/ ReadyTasks = <<>> /\ Blocked # {} /\ Report(l, "dependency_blocked")
       \/ ReadyTasks = <<>> /\ Blocked = {} /\ Report(l, "empty")
    /\ UNCHANGED <<status, dirty, others>>

\* claim_next schedules anew; with a review gate the attempts may be used up.
ClaimOne(l) ==
    /\ loop[l].pc = "claim_one"
    /\ IF ReadyTasks = <<>> THEN Report(l, "empty") /\ UNCHANGED status
       ELSE LET t == Head(ReadyTasks) IN
            \/ /\ SetStatus(t, "running")
               /\ Become(l, [loop[l] EXCEPT !.pc = "work", !.batch = <<t>>,
                    !.fate[t] = "running", !.prepared[t] = "none"])
            \/ /\ loop[l].config.required
               /\ SetStatus(t, "escalated")
               /\ Report(l, "escalation")
    /\ UNCHANGED <<dirty, others>>

\* _run_worker_work_item: whatever the worker raises is raised below.
WorkOne(l) ==
    /\ loop[l].pc = "work"
    /\ \E result \in {"patch", "nopatch"} :
          Become(l, [loop[l] EXCEPT !.pc = "integrate", !.prepared[Head(loop[l].batch)] = result])
    /\ UNCHANGED <<status, dirty, others>>

-----------------------------------------------------------------------------
(***************************************************************************)
(* The integration of the task at the head of the batch.                   *)
(***************************************************************************)
AtHead(l, t) == loop[l].pc = "integrate" /\ Head(loop[l].batch) = t

\* record_failure does not look at the status.
FailedToPrepare(l, t) ==
    /\ AtHead(l, t) /\ loop[l].prepared[t] = "error"
    /\ SetStatus(t, "failed") /\ ReportTask(l, "failed", "failed")
    /\ UNCHANGED <<dirty, others>>

\* recover_running takes a running task only.
Contended(l, t) ==
    /\ AtHead(l, t) /\ loop[l].prepared[t] # "error"
    /\ \/ /\ status[t] = "running"
          /\ SetStatus(t, "queued") /\ ReportTask(l, "claim_contended", "queued")
       \/ status[t] # "running" /\ RaiseOf(l, "running") /\ UNCHANGED status
    /\ UNCHANGED <<dirty, others>>

\* Any other exception: reconciled; an open operation keeps the task running.
Raised(l, t) ==
    /\ AtHead(l, t) /\ loop[l].prepared[t] # "error"
    /\ \/ /\ ReportTask(l, "reconciliation_blocked", "running") /\ UNCHANGED status
       \/ SetStatus(t, "failed") /\ ReportTask(l, "failed", "failed")
    /\ UNCHANGED <<dirty, others>>

\* record_result of a result that is not ok; when the verifier rejected it the
\* operation is closed already and phase() raises.
Rejected(l, t) ==
    /\ AtHead(l, t) /\ loop[l].prepared[t] # "error"
    /\ \/ status[t] # "running" /\ RaiseOf(l, "running") /\ UNCHANGED status
       \/ /\ status[t] = "running" /\ SetStatus(t, "failed")
          /\ \/ ReportTask(l, "rejected", "failed")
             \/ RaiseOf(l, "failed")
    /\ UNCHANGED <<dirty, others>>

\* record_result of a commit, and with a review gate the bundle and the critic.
Accepted(l, t) ==
    LET c == loop[l].config IN
    /\ AtHead(l, t) /\ loop[l].prepared[t] = "patch"
    /\ \/ status[t] # "running" /\ RaiseOf(l, "running") /\ UNCHANGED status
       \/ /\ status[t] = "running"
          /\ \E outcome \in
                IF ~c.required THEN {<<"done", "done">>}
                ELSE {<<"setup_failed", "failed">>, <<"setup_failed", "review_pending">>}
                     \cup (IF c.automatic
                           THEN {<<"critic_done", "done">>,
                                 <<"rework_required", "rework_required">>,
                                 <<"escalated", "escalated">>}
                           ELSE {<<"review_pending", "review_pending">>}) :
                SetStatus(t, outcome[2]) /\ ReportTask(l, outcome[1], outcome[2])
    /\ UNCHANGED <<dirty, others>>

-----------------------------------------------------------------------------
(***************************************************************************)
(* The loop takes one outcome after another.                               *)
(***************************************************************************)
Takes(l, kinds) ==
    /\ loop[l].pc = "take" /\ ~LimitReached(l)
    /\ loop[l].pending # <<>> /\ Head(loop[l].pending) \in kinds

Rest(l) == [loop[l] EXCEPT !.pending = Tail(@)]

TakeEmpty(l) ==
    /\ Takes(l, {"empty"})
    /\ IF loop[l].config.audit THEN Goto(l, "handoff") ELSE Exit(l, "empty")
    /\ UNCHANGED <<status, dirty, others>>

TakeDependency(l) ==
    /\ Takes(l, {"dependency_blocked"})
    /\ Exit(l, "dependency_blocked")
    /\ UNCHANGED <<status, dirty, others>>

\* A decision of the critic: only an approval lets the loop go on.
TakeDecision(l) ==
    /\ Takes(l, Decisions)
    /\ Become(l, [Rest(l) EXCEPT !.completed = @ + 1,
         !.pc = IF Head(loop[l].pending) = "critic_done" THEN "take" ELSE "exit",
         !.exit = IF Head(loop[l].pending) = "critic_done" THEN "none"
                  ELSE Head(loop[l].pending)])
    /\ UNCHANGED <<status, dirty, others>>

\* A bundle that waits for a decision from outside.
TakeBundle(l) ==
    /\ Takes(l, {"review_pending"})
    /\ Become(l, [loop[l] EXCEPT !.completed = @ + 1, !.pc = "exit",
                                 !.exit = "review_pending"])
    /\ UNCHANGED <<status, dirty, others>>

IsBlocker(kind) == kind \in Exceptions \cup {"rejected"}

\* Slip: contention only means that the task is taken again.
TakeBlockerRetrying(l) ==
    /\ Takes(l, {kind \in Kinds : IsBlocker(kind)})
    /\ LET retry == Head(loop[l].pending) = "claim_contended" IN
       Become(l, [Rest(l) EXCEPT !.blocked = ~retry,
         !.pc = IF Rest(l).pending = <<>> /\ ~retry THEN "exit" ELSE "take",
         !.exit = IF Rest(l).pending = <<>> /\ ~retry THEN "blocked" ELSE "none"])
    /\ UNCHANGED <<status, dirty, others>>

\* A blocker ends the command once the outcomes of its batch are taken.
TakeBlocker(l) ==
    /\ Takes(l, {kind \in Kinds : IsBlocker(kind)})
    /\ Become(l, [Rest(l) EXCEPT !.blocked = TRUE,
         !.pc = IF Rest(l).pending = <<>> THEN "exit" ELSE "take",
         !.exit = IF Rest(l).pending = <<>> THEN "blocked" ELSE "none"])
    /\ UNCHANGED <<status, dirty, others>>

\* Slip: what blocked earlier in the batch is forgotten.
TakeDoneForgetting(l) ==
    /\ Takes(l, {kind \in Kinds : ~IsBlocker(kind)} \ (Decisions \cup
              {"empty", "dependency_blocked", "review_pending"}))
    /\ Become(l, [Rest(l) EXCEPT !.completed = @ + 1])
    /\ UNCHANGED <<status, dirty, others>>

TakeDone(l) ==
    LET ends == loop[l].blocked /\ Rest(l).pending = <<>> IN
    /\ Takes(l, {kind \in Kinds : ~IsBlocker(kind)} \ (Decisions \cup
              {"empty", "dependency_blocked", "review_pending"}))
    /\ Become(l, [Rest(l) EXCEPT !.completed = @ + 1,
         !.pc = IF ends THEN "exit" ELSE "take",
         !.exit = IF ends THEN "blocked" ELSE "none"])
    /\ UNCHANGED <<status, dirty, others>>

-----------------------------------------------------------------------------
(***************************************************************************)
(* The final audit.                                                        *)
(***************************************************************************)
RolledBack == {t \in Tasks : status[t] = "rolled_back"}
Unresolved == {t \in Tasks : status[t] \in {"queued", "running", "failed"} \cup Waiting}

\* The status is read once; rolled-back tasks, reviews without an approval,
\* unresolved tasks and open operations each refuse the handoff.
Handoff(l) ==
    /\ loop[l].pc = "handoff"
    /\ \/ RolledBack # {} /\ Exit(l, "rollback_blocked")
       \/ RolledBack = {} /\ Exit(l, "review_blocked")
       \/ RolledBack = {} /\ Exit(l, "task_state_blocked")
       \/ RolledBack = {} /\ Unresolved = {} /\ Goto(l, "audit")
    /\ UNCHANGED <<status, dirty, others>>

RunAudit(l) ==
    /\ loop[l].pc = "audit"
    /\ \E verdict \in {"ready", "audit_failed"} : Exit(l, verdict)
    /\ UNCHANGED <<status, dirty, others>>

-----------------------------------------------------------------------------
(***************************************************************************)
(* Other commands: they enqueue, claim, finish, recover and roll back tasks *)
(* and use the canonical worktree.  An interrupted run is recovered by an   *)
(* operator who may be wrong about it.                                      *)
(***************************************************************************)
OtherMoves ==
    [absent |-> {"queued"}, queued |-> {"running"},
     running |-> {"queued", "done", "failed", "review_pending"},
     done |-> {"queued", "rolled_back"}, failed |-> {"queued"}, rolled_back |-> {"queued"},
     review_pending |-> {"done", "rework_required", "escalated"},
     rework_required |-> {"queued"}, escalated |-> {"queued", "failed"}]

Other ==
    /\ others < MaxOthers
    /\ others' = others + 1
    /\ \/ \E t \in Tasks : \E s \in OtherMoves[status[t]] :
             /\ s = "running" => IsReady(t)
             /\ SetStatus(t, s)
             /\ UNCHANGED dirty
       \/ dirty' = ~dirty /\ UNCHANGED status
    /\ UNCHANGED loop

-----------------------------------------------------------------------------
Integrate(l) ==
    \E t \in Tasks : \/ FailedToPrepare(l, t) \/ Contended(l, t) \/ Raised(l, t)
                     \/ Rejected(l, t) \/ Accepted(l, t)

Step(l) ==
    \/ Start(l) \/ CheckStale(l) \/ CheckWaiting(l)
    \/ EndOfLimit(l) \/ Round(l) \/ Startup(l) \/ PlanBatch(l) \/ ClaimBatch(l)
    \/ (\E t \in Tasks : Prepare(l, t)) \/ Collected(l) \/ SelectOne(l) \/ ClaimOne(l)
    \/ WorkOne(l)
    \/ Integrate(l)
    \/ TakeEmpty(l) \/ TakeDependency(l) \/ TakeDecision(l) \/ TakeBundle(l)
    \/ TakeBlocker(l) \/ TakeDone(l) \/ Handoff(l) \/ RunAudit(l)

Next == (\E l \in Loops : Step(l)) \/ Other

Spec == Init /\ [][Next]_vars

\* Nothing stops a command between two of its steps but a crash; every wait in
\* it (worker, commands, leases) has a timeout.
FairSpec == Spec /\ \A l \in Loops : WF_vars(Step(l))

-----------------------------------------------------------------------------
Places == {"start", "stale", "waiting", "take", "one", "batch", "schedule", "claim",
           "collect", "select", "claim_one", "work", "integrate", "handoff", "audit", "exit"}

Exits == {"none", "refused", "raised", "blocked", "max_tasks_reached", "empty",
          "dependency_blocked", "rollback_blocked", "review_blocked", "task_state_blocked",
          "ready", "audit_failed"} \cup Waiting

Local == [pc : Places, config : Config, pending : Seq(Kinds), batch : Seq(Tasks),
          prepared : [Tasks -> Prepared], completed : Nat, blocked : BOOLEAN,
          fate : [Tasks -> Statuses \cup {"none"}], exit : Exits]

TypeOK ==
    /\ status \in [Tasks -> Statuses]
    /\ dirty \in BOOLEAN
    /\ loop \in [Loops -> Local]
    /\ others \in 0..MaxOthers

(* The command exits with 0 only when every task it claimed was closed or    *)
(* handed to a reviewer, however far into a batch something went wrong, and  *)
(* when it completed no more tasks than it was told to.                      *)
Succeeds == {"empty", "ready", "review_pending", "max_tasks_reached"}

ExitIsHonest ==
    \A l \in Loops :
        /\ loop[l].exit \in Succeeds =>
              \A t \in Tasks : loop[l].fate[t] \in {"none", "done", "review_pending"}
        /\ loop[l].config.max > 0 => loop[l].completed <= loop[l].config.max

(* Tasks of one batch have disjoint scopes, whatever was queued between the  *)
(* plan of the batch and its claim.                                          *)
BatchApart ==
    \A l \in Loops : \A i, j \in DOMAIN loop[l].batch :
        i # j => ~Conflict(loop[l].batch[i], loop[l].batch[j])

(* "Preparation overlaps only when allowed_paths scopes do not overlap"      *)
(* (README.md): also between two commands.                                   *)
PreparationApart ==
    LET Preparing(l) == IF loop[l].pc \in {"collect", "work"}
                        THEN ToSet(loop[l].batch) ELSE {}
    IN \A l, m \in Loops : \A t \in Preparing(l), u \in Preparing(m) :
          <<l, t>> # <<m, u>> => ~Conflict(t, u)

-----------------------------------------------------------------------------
(* What the loop relies on                                                   *)

\* An outcome after which the command does not succeed.
Ends(kind) == IsBlocker(kind) \/ kind \in {"rework_required", "escalated"}

\* Outcomes that only a round of one task has.
OfOneTask == Decisions \cup {"empty", "dependency_blocked", "review_pending"}

Good == {"none", "done", "review_pending"}

\* A task that did not end well is in hand still, or an outcome that ends the
\* command is still to be taken, or was.
Accounted(p) ==
    \A t \in Tasks : \/ p.fate[t] \in Good
                     \/ t \in ToSet(p.batch)
                     \/ \E i \in DOMAIN p.pending : Ends(p.pending[i])
                     \/ p.blocked

\* A round begins with nothing in hand, and ends when its outcomes are taken.
InRound(p) ==
    /\ p.exit = "none"
    /\ p.pc \notin {"take", "handoff", "audit"} =>
          ~p.blocked /\ (p.pc # "integrate" => p.pending = <<>>)
    /\ p.pc \in {"collect", "work", "integrate"} <=> p.batch # <<>>
    /\ p.blocked => p.pending # <<>>
    /\ p.pc \in {"start", "stale", "waiting"} =>
          p.completed = 0 /\ \A t \in Tasks : p.fate[t] = "none"
    /\ p.pc \in {"handoff", "audit"} => p.pending = <<"empty">>
    /\ \A i \in DOMAIN p.pending :
          p.pending[i] \in OfOneTask => Len(p.pending) = 1 /\ p.batch = <<>> /\ ~p.blocked

\* What is in hand fits into the limit, and with a review gate is one task.
Room(p) == IF p.config.max > 0 THEN p.config.max - p.completed ELSE 1
InLimits(p) ==
    /\ p.config.required => Len(p.pending) + Len(p.batch) <= 1
    /\ p.config.max > 0 => p.completed + Len(p.pending) + Len(p.batch) <= p.config.max
    /\ p.pc \in {"one", "batch", "schedule", "claim", "select", "claim_one"} => Room(p) >= 1
    /\ p.pc \in {"batch", "schedule", "claim"} => ~p.config.required

(* The inductive invariant of this module.                                   *)
LoopInvariant ==
    /\ ExitIsHonest
    /\ BatchApart
    /\ \A l \in Loops : loop[l].pc # "exit" =>
          Accounted(loop[l]) /\ InRound(loop[l]) /\ InLimits(loop[l])

(* A command ends: a task that was requeued is not run again and again.      *)
LoopsReturn == \A l \in Loops : <>(loop[l].pc = "exit")
=============================================================================
