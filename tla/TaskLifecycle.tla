--------------------------- MODULE TaskLifecycle ---------------------------
(* The task queue of state.py and everything that moves a task through it:  *)
(* the queue commands that claim and run tasks, the three-head review       *)
(* (bundle, critic, decision, rework) and the operator's commands.  Every   *)
(* StateStore method is one transaction under the state lease (FileLease),  *)
(* so it is one step here; a command is several steps, and other commands   *)
(* or a crash come in between.  What a run does to the canonical repository *)
(* is CanonicalOps; here it commits or not, and ends with a result, an      *)
(* exception or contention, before or after its commit.                     *)

EXTENDS Naturals, Sequences

CONSTANTS
  Ids,          \* work item ids
  Workers,      \* concurrent queue-run commands
  Required,     \* three_head.required
  Automatic,    \* critic.automatic
  MaxAttempts,  \* three_head.max_attempts
  Batches,      \* the enqueue batches offered: sequences of [id, deps, pri]
  MaxEntries,   \* bound on the length of the queue file
  MaxRuns,      \* bound on the number of claims
  None

(* What every instance takes of its constants.                              *)
ConstantsOK ==
  /\ Required \in BOOLEAN /\ Automatic \in BOOLEAN
  /\ MaxAttempts \in Nat \ {0}
  /\ Batches \subseteq Seq([id : Ids, deps : SUBSET Ids, pri : Nat])
  /\ MaxEntries \in Nat /\ MaxRuns \in Nat
  /\ None \notin Ids /\ None \notin Nat

ASSUME TaskConstants == ConstantsOK

VARIABLES
  queue,      \* queue.json: the sequence of QueueTask entries
  history,    \* history.jsonl: the sequence of RunRecords
  bundles,    \* the runs whose review bundle is in the index
  decisions,  \* review decisions: [bundle, verdict], a bundle named by its run
  proc,       \* the queue commands, each with what it remembers
  runs,       \* the number of run ids handed out
  open,       \* the committed runs whose operation is not terminal
  rolling,    \* the task of a rollback between its checks and its record
  alone,      \* whether commands are started one at a time only, for good
  orderly     \* whether a command that commits then records or dies, and no
              \* task with a committed, unrecorded run is recovered, for good

vars == <<queue, history, bundles, decisions, proc, runs, open, rolling, alone,
          orderly>>

Active == {"queued", "running", "review_pending", "rework_required",
           "escalated"}
Statuses == Active \cup {"done", "failed", "rolled_back"}
Verdicts == {"approve", "reject", "escalate"}
(* HarnessRunResult.ok: a run without a commit is not ok.                   *)
Results == {"commit", "fail"}

Run == 1..MaxRuns
Entry == [id : Ids, deps : SUBSET Ids, pri : Nat, status : Statuses,
          attempts : Nat, commit : Run \cup {None},
          bundle : Run \cup {None}, decision : Run \cup {None}]
(* record_failure gives its record an id of its own, here None.             *)
RunRecord == [run : Run \cup {None}, id : Ids, result : Results]

(* Where a queue command is: "snapshot" and "repair" belong to              *)
(* _reconcile_pending_review_setup, "work" is the agent turn and the        *)
(* canonical integration, "reconciling" its except handler, "record" to     *)
(* "failSetup" are _record_worker_result.                                   *)
Places == {"idle", "snapshot", "repair", "claim", "work", "reconciling",
           "record", "close", "export", "attach", "critic", "judging",
           "failing", "failSetup"}

Proc == [at : Places, id : Ids \cup {None}, run : Run \cup {None},
         result : Results \cup {None}, seen : Nat, todo : SUBSET (Ids \X Run)]

Idle == [at |-> "idle", id |-> None, run |-> None, result |-> None,
         seen |-> 0, todo |-> {}]

Init == /\ queue = <<>>
        /\ history = <<>>
        /\ bundles = {}
        /\ decisions = {}
        /\ proc = [w \in Workers |-> Idle]
        /\ runs = 0
        /\ open = {}
        /\ rolling = None
        /\ alone \in BOOLEAN
        /\ orderly \in BOOLEAN

-----------------------------------------------------------------------------
(* Queue helpers                                                            *)

EntriesOf(id) == {i \in DOMAIN queue : queue[i].id = id}
Known(id) == EntriesOf(id) # {}
LatestIndex(id) ==
  CHOOSE i \in EntriesOf(id) : \A j \in EntriesOf(id) : j <= i
Latest(id) == queue[LatestIndex(id)]
OldestIndex(id) ==
  CHOOSE i \in EntriesOf(id) : \A j \in EntriesOf(id) : i <= j
Status(id) == IF Known(id) THEN Latest(id).status ELSE "missing"

(* _update_task and _replace_task: one entry, the latest of its id, changes.*)
SetLatest(id, entry) == queue' = [queue EXCEPT ![LatestIndex(id)] = entry]

(* _dependency_blockers is empty.                                           *)
DepsDone(entry) == \A d \in entry.deps : Status(d) = "done"

Ready == {i \in DOMAIN queue : queue[i].status = "queued" /\ DepsDone(queue[i])}

(* Highest priority first, then the order of the queue file.                *)
Before(i, j) == \/ queue[i].pri > queue[j].pri
                \/ queue[i].pri = queue[j].pri /\ i <= j
Selected == CHOOSE i \in Ready : \A j \in Ready : Before(i, j)

(* No set of nodes in which each depends on another one of the set.         *)
Acyclic(deps) ==
  \A S \in SUBSET DOMAIN deps : S # {} => \E n \in S : deps[n] \cap S = {}

(* Slip: the graph is looked at without the tasks that failed.              *)
EnqueueGraphQueued(batch) ==
  LET item(id) == {k \in DOMAIN batch : batch[k].id = id}
      known == {id \in Ids : item(id) # {} \/ Known(id)}
      unresolved == {id \in known :
                       item(id) # {} \/ Status(id) \notin {"done", "failed"}}
      deps == [id \in unresolved |->
                 IF item(id) # {} THEN batch[CHOOSE k \in item(id) : TRUE].deps
                                  ELSE Latest(id).deps]
  IN /\ \A k \in DOMAIN batch : batch[k].deps \subseteq known
     /\ Acyclic(deps)

(* _validate_enqueue_graph: dependencies are known, and the latest entries  *)
(* that are not done, with the batch on top, have no cycle.                 *)
EnqueueGraphOK(batch) ==
  LET item(id) == {k \in DOMAIN batch : batch[k].id = id}
      known == {id \in Ids : item(id) # {} \/ Known(id)}
      unresolved == {id \in known : item(id) # {} \/ Status(id) # "done"}
      deps == [id \in unresolved |->
                 IF item(id) # {} THEN batch[CHOOSE k \in item(id) : TRUE].deps
                                  ELSE Latest(id).deps]
  IN /\ \A k \in DOMAIN batch : batch[k].deps \subseteq known
     /\ Acyclic(deps)

-----------------------------------------------------------------------------
(* enqueue_many                                                             *)

NewEntry(item) == [id |-> item.id, deps |-> item.deps, pri |-> item.pri,
                   status |-> "queued", attempts |-> 0, commit |-> None,
                   bundle |-> None, decision |-> None]

(* Slip: only a running task refuses a second entry.                        *)
EnqueueTwice(batch) ==
  /\ Len(queue) + Len(batch) <= MaxEntries
  /\ \A k, l \in DOMAIN batch : batch[k].id = batch[l].id => k = l
  /\ \A k \in DOMAIN batch : \A i \in EntriesOf(batch[k].id) :
       queue[i].status # "running"
  /\ EnqueueGraphOK(batch)
  /\ queue' = queue \o [k \in DOMAIN batch |-> NewEntry(batch[k])]
  /\ UNCHANGED <<history, bundles, decisions, proc, runs, open, rolling>>

Enqueue(batch) ==
  /\ Len(queue) + Len(batch) <= MaxEntries
  /\ \A k, l \in DOMAIN batch : batch[k].id = batch[l].id => k = l
  /\ \A k \in DOMAIN batch : \A i \in EntriesOf(batch[k].id) :
       queue[i].status \notin Active
  /\ EnqueueGraphOK(batch)
  /\ queue' = queue \o [k \in DOMAIN batch |-> NewEntry(batch[k])]
  /\ UNCHANGED <<history, bundles, decisions, proc, runs, open, rolling>>

-----------------------------------------------------------------------------
(* A queue command (_run_next_queued_task)                                  *)

Goto(w, place) == proc' = [proc EXCEPT ![w].at = place]
Finish(w) == proc' = [proc EXCEPT ![w] = Idle]

(* It begins, once the startup reconciliation (under the execution lease)   *)
(* leaves no unfinished rollback and no committed run open; the review      *)
(* repair reads the history first.                                          *)
Begin(w) ==
  /\ proc[w].at = "idle"
  /\ alone => \A v \in Workers : proc[v].at = "idle"
  /\ rolling = None
  /\ open = {}
  /\ proc' = [proc EXCEPT ![w].at = IF Required THEN "snapshot" ELSE "claim",
                          ![w].seen = IF Required THEN Len(history) ELSE 0]
  /\ UNCHANGED <<queue, history, bundles, decisions, runs, open, rolling>>

(* The latest committed run of a task in the first n records.               *)
CommittedRuns(id, n) ==
  {i \in 1..n : history[i].id = id /\ history[i].result = "commit"}
LastCommitted(id, n) ==
  history[CHOOSE i \in CommittedRuns(id, n) :
            \A j \in CommittedRuns(id, n) : j <= i].run

Unbundled == {queue[i].id : i \in {j \in DOMAIN queue :
                queue[j].status = "review_pending" /\ queue[j].bundle = None}}

(* _reconcile_pending_review_setup: the review-pending tasks without a      *)
(* bundle, each paired with the latest committed run the command has seen.  *)
(* A task without such a run ends the command (ReconciliationBlockedError). *)
ListUnbundled(w) ==
  /\ proc[w].at = "snapshot"
  /\ IF \E id \in Unbundled : CommittedRuns(id, proc[w].seen) = {}
       THEN Finish(w)
       ELSE proc' = [proc EXCEPT
              ![w].at = IF Unbundled = {} THEN "claim" ELSE "repair",
              ![w].seen = 0,
              ![w].todo = {<<id, LastCommitted(id, proc[w].seen)>> :
                             id \in Unbundled}]
  /\ UNCHANGED <<queue, history, bundles, decisions, runs, open, rolling>>

(* export_review_bundle is idempotent.                                      *)
RepairExport(w) ==
  /\ proc[w].at = "repair"
  /\ \E pair \in proc[w].todo :
       /\ pair[2] \notin bundles
       /\ bundles' = bundles \cup {pair[2]}
  /\ UNCHANGED <<queue, history, decisions, proc, runs, open, rolling>>

(* attach_review_bundle looks at the status only, not at the run.           *)
AttachBundle(id, bundle) == SetLatest(id, [Latest(id) EXCEPT !.bundle = bundle])

RepairAttach(w) ==
  /\ proc[w].at = "repair"
  /\ \E pair \in proc[w].todo :
       /\ pair[2] \in bundles
       /\ IF Status(pair[1]) = "review_pending"
            THEN /\ AttachBundle(pair[1], pair[2])
                 /\ proc' = [proc EXCEPT
                      ![w].todo = @ \ {pair},
                      ![w].at = IF proc[w].todo = {pair} THEN "claim" ELSE @]
            ELSE Finish(w) /\ UNCHANGED queue
  /\ UNCHANGED <<history, bundles, decisions, runs, open, rolling>>

(* Slip: one attempt too many.                                              *)
ClaimOnceMore(w) ==
  LET entry == queue[Selected] IN
  /\ proc[w].at = "claim"
  /\ Ready # {}
  /\ runs < MaxRuns
  /\ entry.attempts <= MaxAttempts
  /\ runs' = runs + 1
  /\ SetLatest(entry.id, [Latest(entry.id) EXCEPT
       !.status = "running", !.attempts = @ + 1, !.commit = None])
  /\ proc' = [proc EXCEPT ![w].at = "work", ![w].id = entry.id,
                          ![w].run = runs + 1]
  /\ UNCHANGED <<history, bundles, decisions, open, rolling>>

(* claim_next: the selected task starts running with a new run id, or, in   *)
(* required mode, escalates at its attempt limit.                           *)
Claim(w) ==
  LET entry == queue[Selected] IN
  /\ proc[w].at = "claim"
  /\ Ready # {}
  /\ IF Required /\ entry.attempts >= MaxAttempts
       THEN /\ SetLatest(entry.id, [Latest(entry.id) EXCEPT !.status = "escalated"])
            /\ Finish(w)
            /\ UNCHANGED runs
       ELSE /\ runs < MaxRuns
            /\ runs' = runs + 1
            /\ SetLatest(entry.id, [Latest(entry.id) EXCEPT
                 !.status = "running", !.attempts = @ + 1, !.commit = None])
            /\ proc' = [proc EXCEPT ![w].at = "work", ![w].id = entry.id,
                                    ![w].run = runs + 1]
  /\ UNCHANGED <<history, bundles, decisions, open, rolling>>

(* Nothing is ready: empty or dependency_blocked.                           *)
NothingToClaim(w) ==
  /\ proc[w].at = "claim"
  /\ Ready = {}
  /\ Finish(w)
  /\ UNCHANGED <<queue, history, bundles, decisions, runs, open, rolling>>

Fresh(run) == \A i \in DOMAIN history : history[i].run # run
Pair(w) == <<proc[w].id, proc[w].run>>
HasCommitted(w) == Pair(w) \in open \/ ~Fresh(proc[w].run)

(* The canonical integration commits, under the execution lease and after   *)
(* assert_no_blocking.                                                      *)
WorkCommits(w) ==
  /\ proc[w].at = "work"
  /\ ~HasCommitted(w)
  /\ open = {}
  /\ rolling = None
  /\ open' = {Pair(w)}
  /\ UNCHANGED <<queue, history, bundles, decisions, proc, runs, rolling>>

(* The agent turn and the canonical integration return a result.            *)
WorkReturns(w) ==
  /\ proc[w].at = "work"
  /\ proc' = [proc EXCEPT ![w].at = "record",
                          ![w].result = IF HasCommitted(w) THEN "commit" ELSE "fail"]
  /\ UNCHANGED <<queue, history, bundles, decisions, runs, open, rolling>>

(* LockContendedError, of the execution lease or after the commit of a      *)
(* state lease: recover_running gives the task back.                        *)
WorkContended(w) ==
  /\ proc[w].at = "work"
  /\ orderly => ~HasCommitted(w)
  /\ IF Status(proc[w].id) = "running"
       THEN SetLatest(proc[w].id, [Latest(proc[w].id) EXCEPT !.status = "queued"])
       ELSE UNCHANGED queue
  /\ Finish(w)
  /\ UNCHANGED <<history, bundles, decisions, runs, open, rolling>>

(* Any other exception: the handler reconciles first, with the operations   *)
(* it finds ...                                                             *)
WorkRaises(w) ==
  /\ proc[w].at = "work"
  /\ orderly => ~HasCommitted(w)
  /\ proc' = [proc EXCEPT ![w].at = "reconciling", ![w].todo = open]
  /\ UNCHANGED <<queue, history, bundles, decisions, runs, open, rolling>>

(* ... and, when all of them are closed then, calls record_failure, which   *)
(* does not look at the status.  A batch whose preparation failed calls it  *)
(* at once.  A handler that is blocked ends as in Crash.                    *)
RecordFailure(w) ==
  /\ \/ proc[w].at = "reconciling" /\ proc[w].todo \cap open = {}
     \/ proc[w].at = "work" /\ ~HasCommitted(w)
  /\ SetLatest(proc[w].id, [Latest(proc[w].id) EXCEPT
                              !.status = "failed", !.commit = None])
  /\ history' = Append(history, [run |-> None, id |-> proc[w].id,
                                 result |-> "fail"])
  /\ Finish(w)
  /\ UNCHANGED <<bundles, decisions, runs, open, rolling>>

(* Slip: a good result closes the task in every mode.                       *)
ResultStatusNoReview(result) == IF result = "fail" THEN "failed" ELSE "done"

ResultStatus(result) == CASE result = "fail"                -> "failed"
                          [] result # "fail" /\ Required -> "review_pending"
                          [] OTHER                       -> "done"

(* record_result of a run that is not in the history.                       *)
Takes(id, run, result) ==
  /\ SetLatest(id, [Latest(id) EXCEPT
       !.status = ResultStatus(result),
       !.commit = IF result = "commit" THEN run ELSE None])
  /\ history' = Append(history, [run |-> run, id |-> id, result |-> result])

(* record_result by the command: a run that is recorded already is left as  *)
(* it is, and only a running task takes a result; otherwise the command     *)
(* ends with a StateStoreError.                                             *)
RecordResult(w) ==
  LET p == proc[w] IN
  /\ p.at = "record"
  /\ \/ /\ Fresh(p.run)
        /\ Status(p.id) = "running"
        /\ Takes(p.id, p.run, p.result)
        /\ IF p.result = "commit" THEN Goto(w, "close") ELSE Finish(w)
     \/ /\ Fresh(p.run)
        /\ Status(p.id) # "running"
        /\ Finish(w)
        /\ UNCHANGED <<queue, history>>
     \/ /\ ~Fresh(p.run)
        /\ Goto(w, "close")
        /\ UNCHANGED <<queue, history>>
  /\ UNCHANGED <<bundles, decisions, runs, open, rolling>>

(* Then the operation of the run is closed; one that a reconciliation has   *)
(* closed meanwhile ends the command with an exception.                     *)
CloseOperation(w) ==
  /\ proc[w].at = "close"
  /\ open' = open \ {Pair(w)}
  /\ IF Pair(w) \in open /\ Required THEN Goto(w, "export") ELSE Finish(w)
  /\ UNCHANGED <<queue, history, bundles, decisions, runs, rolling>>

(* reconcile(auto_complete_state=True), at the start of a queue command,    *)
(* before an operation begins and in the except handler, or reconcile       *)
(* --apply: the result of a committed run is recorded (complete_state), if  *)
(* its task is running ...                                                  *)
CompleteState(pair) ==
  /\ pair \in open
  /\ Fresh(pair[2])
  /\ Status(pair[1]) = "running"
  /\ Takes(pair[1], pair[2], "commit")
  /\ UNCHANGED <<bundles, decisions, proc, runs, open, rolling>>

(* ... and the operation of a recorded run is closed (finish_ledger).       *)
FinishLedger(pair) ==
  /\ pair \in open
  /\ ~Fresh(pair[2])
  /\ open' = open \ {pair}
  /\ UNCHANGED <<queue, history, bundles, decisions, proc, runs, rolling>>

(* export_review_bundle of the own run; contention or a Git error may stop  *)
(* it.                                                                      *)
Export(w) ==
  /\ proc[w].at = "export"
  /\ \/ /\ bundles' = bundles \cup {proc[w].run}
        /\ Goto(w, "attach")
     \/ Goto(w, "failing") /\ UNCHANGED bundles
  /\ UNCHANGED <<queue, history, decisions, runs, open, rolling>>

Attach(w) ==
  /\ proc[w].at = "attach"
  /\ IF Status(proc[w].id) = "review_pending"
       THEN /\ AttachBundle(proc[w].id, proc[w].run)
            /\ IF Automatic THEN Goto(w, "critic") ELSE Finish(w)
       ELSE Goto(w, "failing") /\ UNCHANGED queue
  /\ UNCHANGED <<history, bundles, decisions, runs, open, rolling>>

(* run_critic_review: exactly one pending task must carry the bundle; then  *)
(* the critic is asked.                                                     *)
AskCritic(w) ==
  /\ proc[w].at = "critic"
  /\ \E i \in DOMAIN queue :
          \/ /\ {j \in DOMAIN queue : /\ queue[j].status = "review_pending"
                                      /\ queue[j].bundle = proc[w].run} = {i}
             /\ Goto(w, "judging")
          \/ /\ \A j \in DOMAIN queue : \/ queue[j].status # "review_pending"
                                        \/ queue[j].bundle # proc[w].run
             /\ Goto(w, "failing")
  /\ UNCHANGED <<queue, history, bundles, decisions, runs, open, rolling>>

-----------------------------------------------------------------------------
(* import_verifier_decision: one transaction that appends the decision and  *)
(* applies it.  The decision stays recorded when it cannot be applied.      *)

Decided(bundle) == \E d \in decisions : d.bundle = bundle
TaskOf(bundle) ==
  history[CHOOSE i \in DOMAIN history : history[i].run = bundle].id

(* Slip: the verdict becomes the status.                                    *)
DecisionStatusRaw(verdict) == verdict

(* Slip: whatever does not reject closes the task.                          *)
DecisionStatusLax(verdict) ==
  IF verdict = "reject" THEN "rework_required" ELSE "done"

DecisionStatus(verdict) == CASE verdict = "approve"  -> "done"
                             [] verdict = "reject"   -> "rework_required"
                             [] verdict = "escalate" -> "escalated"

(* resolve_review                                                           *)
Resolves(d) == LET entry == Latest(TaskOf(d.bundle)) IN
               entry.status = "review_pending" /\ entry.bundle = d.bundle

ApplyDecision(d) ==
  IF Resolves(d)
    THEN SetLatest(TaskOf(d.bundle), [Latest(TaskOf(d.bundle)) EXCEPT
           !.status = DecisionStatus(d.verdict),
           !.bundle = None, !.decision = d.bundle])
    ELSE UNCHANGED queue

(* A new decision needs an undecided bundle; the same one may come again.   *)
ImportOK(d) == /\ d.bundle \in bundles
               /\ Decided(d.bundle) => d \in decisions

ImportDecision(d) ==
  /\ ImportOK(d)
  /\ decisions' = decisions \cup {d}
  /\ ApplyDecision(d)
  /\ UNCHANGED <<history, bundles, proc, runs, open, rolling>>

(* The importing process dies between the two.                              *)
ImportInterrupted(d) ==
  /\ ImportOK(d)
  /\ decisions' = decisions \cup {d}
  /\ UNCHANGED <<queue, history, bundles, proc, runs, open, rolling>>

(* The automatic critic answers: its decision has an id of its own, so a    *)
(* bundle that has one already refuses it, and so does a task that moved.   *)
CriticAnswers(w, verdict) ==
  LET d == [bundle |-> proc[w].run, verdict |-> verdict] IN
  /\ proc[w].at = "judging"
  /\ IF Decided(d.bundle)
       THEN Goto(w, "failing") /\ UNCHANGED <<queue, decisions>>
       ELSE /\ decisions' = decisions \cup {d}
            /\ ApplyDecision(d)
            /\ IF Resolves(d) THEN Finish(w) ELSE Goto(w, "failing")
  /\ UNCHANGED <<history, bundles, runs, open, rolling>>

(* The critic process fails or times out.                                   *)
CriticFails(w) ==
  /\ proc[w].at = "judging"
  /\ Goto(w, "failing")
  /\ UNCHANGED <<queue, history, bundles, decisions, runs, open, rolling>>

(* Slip: the handler does not ask whether the bundle is attached.           *)
AfterAnyException(w) ==
  /\ proc[w].at = "failing"
  /\ Goto(w, "failSetup")
  /\ UNCHANGED <<queue, history, bundles, decisions, runs, open, rolling>>

(* The except clause of _record_worker_result looks at the first entry of   *)
(* the task in the queue file ...                                           *)
AfterException(w) ==
  /\ proc[w].at = "failing"
  /\ IF queue[OldestIndex(proc[w].id)].bundle = None
       THEN Goto(w, "failSetup") ELSE Finish(w)
  /\ UNCHANGED <<queue, history, bundles, decisions, runs, open, rolling>>

(* ... and fail_review_setup changes the latest.                            *)
FailReviewSetup(w) ==
  /\ proc[w].at = "failSetup"
  /\ IF Status(proc[w].id) = "review_pending"
       THEN SetLatest(proc[w].id, [Latest(proc[w].id) EXCEPT !.status = "failed"])
       ELSE UNCHANGED queue
  /\ Finish(w)
  /\ UNCHANGED <<history, bundles, decisions, runs, open, rolling>>

(* The process dies, or an exception ends the command.                      *)
Crash(w) ==
  /\ proc[w].at # "idle"
  /\ Finish(w)
  /\ UNCHANGED <<queue, history, bundles, decisions, runs, open, rolling>>

-----------------------------------------------------------------------------
(* The operator                                                             *)

OperatorMoves(id, entry) == /\ SetLatest(id, entry)
                            /\ UNCHANGED <<history, bundles, decisions, proc, runs, open, rolling>>

(* queue-retry                                                              *)
Retry(id) ==
  /\ Status(id) = "failed"
  /\ OperatorMoves(id, [Latest(id) EXCEPT !.status = "queued"])

(* Slip: recovery while the run is alive.                                   *)
Unconfirmed(id) == TRUE

(* queue-recover-running, for a run the operator has confirmed to be        *)
(* interrupted: no live command works on the task.  Nothing looks for an    *)
(* operation of the task that is open.                                      *)
Interrupted(id) == \A w \in Workers : proc[w].id # id

Recover(id) ==
  /\ Status(id) = "running"
  /\ Interrupted(id)
  /\ orderly => id \notin {pair[1] : pair \in open}
  /\ OperatorMoves(id, [Latest(id) EXCEPT !.status = "queued"])

(* queue-resolve-escalation                                                 *)
ResolveEscalation(id) ==
  /\ Status(id) = "escalated"
  /\ \/ OperatorMoves(id, [Latest(id) EXCEPT !.status = "queued",
                           !.attempts = 0, !.bundle = None])
     \/ OperatorMoves(id, [Latest(id) EXCEPT !.status = "failed",
                           !.bundle = None])

(* review-rework                                                            *)
ConfirmRework(id) ==
  /\ Status(id) = "rework_required"
  /\ [bundle |-> Latest(id).decision, verdict |-> "reject"] \in decisions
  /\ IF Latest(id).attempts >= MaxAttempts
       THEN OperatorMoves(id, [Latest(id) EXCEPT !.status = "escalated"])
       ELSE OperatorMoves(id, [Latest(id) EXCEPT !.status = "queued",
                                                 !.bundle = None])

-----------------------------------------------------------------------------
(* Rollback as the queue sees it                                            *)

(* downstream_tasks: whatever every set that contains id and is closed      *)
(* under "depends on" contains.                                             *)
DependsOn(x, y) == Known(x) /\ y \in Latest(x).deps
Downstream(id) ==
  {x \in Ids \ {id} :
     \A S \in SUBSET Ids :
       id \in S /\ (\A y \in S, z \in Ids : DependsOn(z, y) => z \in S)
       => x \in S}

InProgress == {"running", "review_pending", "rework_required", "escalated"}

(* plan_rollback, for what the queue and the history contribute.            *)
RollbackOK(id) ==
  /\ Status(id) = "done"
  /\ CommittedRuns(id, Len(history)) # {}
  /\ Latest(id).commit = LastCommitted(id, Len(history))
  /\ \A i \in DOMAIN queue : queue[i].status \notin InProgress
  /\ \A x \in Downstream(id) : Status(x) \notin InProgress \cup {"done"}

(* _apply_rollback_locked passes its last check ...                         *)
RollbackBegins(id) ==
  /\ rolling = None
  /\ open = {}
  /\ RollbackOK(id)
  /\ rolling' = id
  /\ UNCHANGED <<queue, history, bundles, decisions, proc, runs, open>>

(* ... and reverts the commit or restores the worktree.  complete_rollback  *)
(* comes after the commit, from this command or from a reconciliation; it   *)
(* needs the task to be done still.                                         *)
RollbackCompletes ==
  /\ rolling # None
  /\ Status(rolling) = "done"
  /\ SetLatest(rolling, [Latest(rolling) EXCEPT !.status = "rolled_back"])
  /\ rolling' = None
  /\ UNCHANGED <<history, bundles, decisions, proc, runs, open>>

RollbackReverted ==
  /\ rolling # None
  /\ rolling' = None
  /\ UNCHANGED <<queue, history, bundles, decisions, proc, runs, open>>

-----------------------------------------------------------------------------
Step(w) == \/ Begin(w) \/ ListUnbundled(w) \/ RepairExport(w) \/ RepairAttach(w)
           \/ Claim(w) \/ NothingToClaim(w)
           \/ WorkCommits(w) \/ WorkReturns(w) \/ WorkContended(w)
           \/ WorkRaises(w) \/ RecordFailure(w)
           \/ RecordResult(w) \/ CloseOperation(w) \/ Export(w) \/ Attach(w) \/ AskCritic(w)
           \/ \E verdict \in Verdicts : CriticAnswers(w, verdict)
           \/ CriticFails(w) \/ AfterException(w) \/ FailReviewSetup(w)
           \/ Crash(w)

Operator == \/ \E batch \in Batches : Enqueue(batch)
            \/ \E id \in Ids : \/ Retry(id) \/ Recover(id) \/ ConfirmRework(id)
                               \/ ResolveEscalation(id) \/ RollbackBegins(id)
            \/ \E pair \in open : CompleteState(pair) \/ FinishLedger(pair)
            \/ RollbackCompletes \/ RollbackReverted
            \/ \E d \in [bundle : bundles, verdict : Verdicts] :
                 ImportDecision(d) \/ ImportInterrupted(d)

Next == ((\E w \in Workers : Step(w)) \/ Operator) /\ UNCHANGED <<alone, orderly>>

Spec == Init /\ [][Next]_vars

-----------------------------------------------------------------------------
TypeOK == /\ queue \in Seq(Entry)
          /\ history \in Seq(RunRecord)
          /\ bundles \subseteq Run
          /\ decisions \subseteq [bundle : Run, verdict : Verdicts]
          /\ proc \in [Workers -> Proc]
          /\ runs \in 0..MaxRuns
          /\ open \subseteq Ids \X Run
          /\ rolling \in Ids \cup {None}
          /\ alone \in BOOLEAN
          /\ orderly \in BOOLEAN

(* Re-enqueueing a finished id appends an entry; only the latest entry of   *)
(* an id may have an open lifecycle, or _get_task and schedule() would see  *)
(* two different tasks.                                                     *)
OneActiveEntry ==
  \A i \in DOMAIN queue :
    queue[i].status \in Active => i = LatestIndex(queue[i].id)

(* A task never starts more often than three_head.max_attempts between two  *)
(* operator resolutions, by whatever mix of retries, recoveries, rework     *)
(* confirmations and claims of several commands.                            *)
AttemptsBounded ==
  Required => \A i \in DOMAIN queue : queue[i].attempts <= MaxAttempts

(* The runs under way: those that commands work on and the committed ones   *)
(* whose operation is open, as long as they are not recorded.               *)
Working(w) == proc[w].at \in {"work", "reconciling", "record"}
UnderWay == {pair \in {Pair(w) : w \in {v \in Workers : Working(v)}} \cup open :
               Fresh(pair[2])}
HasCommittedRun(id) == \/ id \in {pair[1] : pair \in open}
                       \/ CommittedRuns(id, Len(history)) # {}

(* A run under way has its task running and to itself, so that its result,  *)
(* the reconciliation of its commit and even the unguarded record_failure   *)
(* hit the run they belong to, whichever command or crash comes in between. *)
(* An exception after a commit and a recovery despite one break that, for   *)
(* tasks that have a committed run.                                         *)
RunnerOwnsTask ==
  \A pair \in UnderWay : orderly \/ ~HasCommittedRun(pair[1]) =>
    /\ Status(pair[1]) = "running"
    /\ \A other \in UnderWay : other[1] = pair[1] => other = pair

(* claim_next, record_result, record_failure: the two together.             *)
RunsAreOwnedAndCounted == RunnerOwnsTask /\ AttemptsBounded

(* A task closes only on an independent approval of one of its own bundles. *)
DoneNeedsApproval ==
  Required =>
    \A i \in DOMAIN queue : queue[i].status = "done" =>
      \E d \in decisions : /\ d.verdict = "approve"
                           /\ d.bundle = queue[i].decision
                           /\ TaskOf(d.bundle) = queue[i].id

(* The tasks that are neither done nor rolled back have no dependency cycle,*)
(* whatever was re-enqueued with other dependencies in between: every one   *)
(* of them can still be reached by the scheduler.  Not so once an exception *)
(* after a commit has made a done task fail.                                *)
OpenTasksAcyclic ==
  LET unclosed == {id \in Ids :
                     Known(id) /\ Status(id) \notin {"done", "rolled_back"}}
  IN orderly => Acyclic([id \in unclosed |-> Latest(id).deps])

-----------------------------------------------------------------------------
(* What the commands rely on                                                *)

(* The places of _record_worker_result after its result was recorded.       *)
Setup == {"export", "attach", "critic", "judging", "failing", "failSetup"}

Recorded(run, id) ==
  \E i \in DOMAIN history : history[i].run = run /\ history[i].id = id

CommitRecorded(pair) ==
  \E i \in DOMAIN history : /\ history[i].run = pair[2] /\ history[i].id = pair[1]
                            /\ history[i].result = "commit"

(* A command has a known task and a run of its own from claim_next on: the  *)
(* run is new to the history until its result is recorded, by the command   *)
(* or, once committed, by a reconciliation, and a record of the task then.  *)
(* What a repair has listed are records of the tasks.                       *)
ProcessAt(w) ==
  LET p == proc[w] IN
  /\ Working(w) \/ p.at \in {"close"} \cup Setup =>
       p.id \in Ids /\ Known(p.id) /\ p.run \in 1..runs
  /\ Working(w) => Fresh(p.run) \/ CommitRecorded(Pair(w))
  /\ p.at = "reconciling" /\ orderly => ~HasCommitted(w)
  /\ p.at = "record" => p.result \in Results /\ (p.result = "commit" <=> HasCommitted(w))
  /\ p.at \in {"close"} \cup Setup => CommitRecorded(Pair(w))
  /\ p.at = "snapshot" => p.seen <= Len(history)
  /\ p.at = "repair" => \A pair \in p.todo : Recorded(pair[2], pair[1])

(* An open run is known, the only one, and recorded if at all as committed. *)
OpenRuns ==
  /\ \A pair \in open :
       /\ Known(pair[1]) /\ pair[2] \in 1..runs
       /\ Fresh(pair[2]) \/ CommitRecorded(pair)
       /\ \A w \in Workers : Working(w) /\ proc[w].run = pair[2] => Pair(w) = pair
  /\ \A pair, other \in open : pair = other

(* A run id is recorded once and worked on by one command; what has a       *)
(* bundle or a decision is a recorded run, of a task of the queue.          *)
RunsKnown ==
  /\ \A i, j \in DOMAIN history :
       history[i].run # None /\ history[i].run = history[j].run => i = j
  /\ \A i \in DOMAIN history :
       /\ Known(history[i].id)
       /\ history[i].run # None => history[i].run \in 1..runs
       /\ history[i].result = "commit" => history[i].run # None
  /\ \A v, w \in Workers :
       Working(v) /\ Working(w) /\ proc[v].run = proc[w].run => v = w
  /\ \A bundle \in bundles : ~Fresh(bundle)
  /\ \A d \in decisions : ~Fresh(d.bundle)

(* The inductive invariant of this module.                                  *)
QueueInvariant ==
  /\ OneActiveEntry
  /\ RunnerOwnsTask
  /\ AttemptsBounded
  /\ DoneNeedsApproval
  /\ OpenTasksAcyclic
  /\ RunsKnown
  /\ OpenRuns
  /\ \A w \in Workers : ProcessAt(w)

(* A done entry stays done until a rollback, a rolled back one for good:    *)
(* neither a late result, nor a reconciliation, nor a retry reopens it.     *)
(* Only the handler of an exception after a commit does: its reconciliation *)
(* may close the task, and its record_failure then says that it failed.     *)
ClosedStaysClosed ==
  [][\A i \in DOMAIN queue :
       queue[i].status \in {"done", "rolled_back"} =>
         \/ queue'[i].status = queue[i].status
         \/ queue[i].status = "done" /\ queue'[i].status = "rolled_back"
         \/ /\ ~orderly
            /\ queue'[i].status = "failed"
            /\ \E w \in Workers : /\ proc[w].at \in {"work", "reconciling"}
                                  /\ proc[w].id = queue[i].id]_vars

(* README.md:66 and 78: bundles are bound to an exact run and commit, and   *)
(* the enabled critic must approve.  So a closed task's commit is approved. *)
ApprovalCoversCommit ==
  Required =>
    \A i \in DOMAIN queue :
      queue[i].status = "done" /\ queue[i].commit # None =>
        [bundle |-> queue[i].commit, verdict |-> "approve"] \in decisions

(* import_decision: a task closes on an approval of one of its own bundles, *)
(* and with one command at a time and no critic of the harness's own, of    *)
(* the commit it records; between two commands that does not hold.          *)
ClosedIsApproved ==
  DoneNeedsApproval /\ (alone /\ ~Automatic => ApprovalCoversCommit)

(* What it rests on when commands are started one at a time.  A bundle is    *)
(* that of the commit under review, and what closed with a commit has the   *)
(* approval of that commit's bundle.                                        *)
Covered(entry, given) ==
  /\ entry.bundle # None => entry.status = "review_pending" /\ entry.bundle = entry.commit
  /\ entry.status = "review_pending" => entry.commit # None
  /\ entry.status = "done" /\ entry.commit # None =>
       [bundle |-> entry.commit, verdict |-> "approve"] \in given

LastCommittedIn(h, run, id) ==
  \E i \in DOMAIN h :
    /\ h[i].run = run /\ h[i].id = id /\ h[i].result = "commit"
    /\ \A j \in DOMAIN h : h[j].id = id /\ h[j].result = "commit" => j <= i

(* The result of the command is recorded, by itself or a reconciliation.    *)
HasRecord(w) == \/ proc[w].at \in {"close"} \cup Setup
                \/ Working(w) /\ ~Fresh(proc[w].run)

(* What a command attaches, or gives up, is still what the task waits for.  *)
AttachesTo(w) ==
  LET p == proc[w] IN
  /\ p.at \notin {"critic", "judging"}
  /\ p.at = "snapshot" => p.seen = Len(history)
  /\ p.at = "repair" => \A pair \in p.todo :
       Status(pair[1]) = "review_pending" => Latest(pair[1]).commit = pair[2]
  /\ Working(w) /\ Fresh(p.run) => Status(p.id) = "running"
  /\ HasRecord(w) /\ Status(p.id) = "review_pending" =>
       Latest(p.id).bundle = None /\ Latest(p.id).commit = p.run
  /\ p.at # "idle" => \A pair \in open : (Working(w) \/ p.at = "close") /\ pair = Pair(w)

ApprovalInvariant ==
  /\ \A v, w \in Workers : proc[v].at # "idle" /\ proc[w].at # "idle" => v = w
  /\ \A i \in DOMAIN queue : Covered(queue[i], decisions)
  /\ \A id \in Ids : Status(id) = "review_pending" =>
                      LastCommittedIn(history, Latest(id).commit, id)
  /\ \A w \in Workers : AttachesTo(w)

(* README.md:443 of the automatic critic: process failures and timeouts     *)
(* leave the task in review_pending.                                        *)
CriticFailureKeepsPending ==
  [][\A i \in DOMAIN queue :
       queue[i].status = "review_pending" /\ queue[i].bundle # None
       => queue'[i].status # "failed"]_vars
=============================================================================
