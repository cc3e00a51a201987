# TLA+ models of HoH

HoH (`src/src/llm_harness`) is a supervisor that lets coding agents ("Workers") work on a queue of
tasks in a Git repository, verifies their patches, commits them, has an independent Critic review
them, and keeps durable evidence of all of it. Everything is files: there is no server that owns the
state. Any number of command-line processes, a GUI, a background scheduler and a Telegram poller work
on the same files, and any of them may stop at any line. That is what these modules are about.

Paths below are relative to `src/src/llm_harness` unless they begin with `docs/` or `README.md`
(relative to `src/`).

## 1. Inventory

| Component (files) | State it keeps | Operations | Correct when |
|---|---|---|---|
| **File leases** (`coordination.py`) | kernel lock on a file, owner metadata beside it, a process-wide RLock, a per-thread depth | `acquire`, `release`, `hold`, `status` | one owner at a time; a lost owner is reported exactly; nothing leaks on an error path; calls return by their deadline |
| **StateStore** (`state.py`, `durable_io.py`) | `queue.json`, `run-history.jsonl`, review bundles and decisions, rollback records, operator inbox, telegram offset | enqueue, schedule, claim, record result or failure, review and operator transitions; each one transaction under the state lease, writing up to two files and the journal | one open lifecycle per task id; attempts bounded; closed stays closed; no dependency cycle; the two files of a write agree after a crash |
| **Review protocol** (`review_protocol.py`, `critic_runtime.py`) | immutable bundles, decisions | export, import, critic run | a task closes only on an approval of the commit it records |
| **Queue commands** (`cli.py`) | what a running command remembers: a claimed task, an operation id, a snapshot of the history | `queue-run-next`, `queue-run-loop`, `queue-retry`, `queue-recover-running`, `queue-resolve-escalation`, `review-*`, `critic-run`, `rollback-*`, `reconcile-*` | commands of several processes do not undo each other's work |
| **Canonical integration** (`supervisor.py`, `git_ops.py`) | the branch and the worktree | verify and apply a patch, run commands, commit or revert | only one unresolved canonical change at a time, under the execution lease |
| **Operation ledger** (`operations.py`) | one JSON record per canonical operation | intent, phases, terminal outcome, reconcile, guarded operator actions | no commit is forgotten or recorded twice, an outcome says what happened |
| **Rollback** (`rollback.py`) | rollback records | plan, apply | a commit is reverted once, with the queue in agreement |
| **Journal, metrics** (`journal.py`, `metrics.py`) | append-only events under the state lease | `record` | a failing journal does not change what is done |
| **Batches** (`attempts.py`, `jobs.py`, `cli.py` `_run_ready_batch`) | attempt worktrees, in-memory jobs | dispatch in parallel, integrate in order | path scopes of tasks that run together are disjoint |
| **Operator chat** (`operator_decisions.py`, `telegram*.py`) | update offset, events | poll, execute, answer | a command is carried out once |
| **Worker, Critic, Supervisor adapters** (`worker_adapters.py`, `*_worker*.py`, `critic_adapters.py`, `supervisor_*.py`, `model_*.py`, `hermes.py`) | none durable | subprocess and HTTP calls | an answer is classified, a call ends |
| **ACP, A2A, MCP** (`acp*.py`, `a2a*.py`, `mcp.py`) | request ids, sessions; the bounded push inbox | request/response, streaming, push, cancel | answers are matched to requests, a waiter is told of its event |
| **Tokens** (`oauth*.py`, `secret_store.py`) | token cache, token files | access, refresh | a refresh token is not lost |
| **Workspace schedule** (`workspace.py`, `background_scheduler.py`) | project registry | register, due, record run | a due project is run once |
| **Releases and agents** (`updater.py`, `agent_installation.py`) | version directories, current pointer, receipts | install, activate, roll back, uninstall | the pointer names an installed release |
| **Specification and chat** (`lifecycle.py`, `supervisor_chat.py`) | documents, chat history | materialize a plan, send | a batch is admitted as a whole, no message is lost |
| **Checks** (`verifier.py`, `audit.py`, `language_audit.py`, `command_policy.py`) | none | pure | the policy of a patch |
| **Views** (`headless_server.py`, `gui*.py`, `protocol.py`, `doctor.py`, conformance flows) | none of their own | read the store, start commands | - |

**How they interact.** A queue command takes the *state lease* for the length of one StateStore call
(`_state_mutation`), so every such call is one transaction; between two calls anybody may get in. It
takes the *repository execution lease* for startup reconciliation and again from the blocking check to
the commit, but not while the Worker works, and not while it stores the result. The ledger is written
without a lease of its own. The journal takes the state lease for each event.

**What is hard here.** Two processes between two leases; a crash between two files; snapshots read
before a lease is taken and used under it; exceptions whose handler runs after the lease was released;
task ids that are enqueued again, so that an id names several entries; one exception type
(`LockContendedError`) for two leases; decisions and results that arrive late. PROJECT.json lists each
place under "hazards".

## 2. Modules

| Module | Models | Parameters |
|---|---|---|
| `AbstractLease` | what a lease promises: exclusive grants, exact crash evidence | threads |
| `FileLease` | `coordination.py`; refines `AbstractLease` | threads, the process of each, nesting depth |
| `FileLeaseProofs` | the proofs about `FileLease` | - |
| `TaskLifecycle` | the queue and everything that moves a task: claim, run, review, rework, retry, recovery, escalation, rollback, re-enqueue | ids, commands, review mode, attempt limit, batches |
| `TaskLifecycleProofs` | the proofs about `TaskLifecycle` | - |
| `AbstractLedger` | what the ledger promises: a change is declared before it lands, lands only when every earlier one is known to the StateStore, and none of the three is taken back | operations |
| `CanonicalOps` | one run from its claim to its record, the ledger, reconciliation, crashes, operator actions; refines `AbstractLedger` | processes, tasks, operations, which failures may happen |
| `CanonicalOpsProofs` | the proofs about `CanonicalOps` | - |
| `Rollback` | `rollback.py` and the ledger operation of a rollback, next to commands that claim, run and enqueue tasks | processes, tasks and their dependencies, operations |
| `QueueRunLoop` | `queue-run-loop`: batches, preparation side by side, integration in order, every exit | loops, tasks, dependencies, overlapping scopes, configurations |
| `QueueRunLoopProofs` | the proofs about `QueueRunLoop` | - |
| `FiniteOrders` | lemmas on finite sets in an order: the first, the greatest, a set laid out as a sequence | - |
| `ReviewEvidence` | the documents of a review: bundle files and index, decisions, their import | configurations, bounds |
| `FinalAudit` | the audit at the end of a loop, its record and its notification | bounds |
| `TelegramCommands` | polling and carrying out the operator's commands | pollers, messages, batch limit |
| `WorkspaceScheduler` | the registry of projects and the runs of those that are due | projects, schedulers, intervals |
| `ServicesProofs` | the proofs about `TelegramCommands` and `WorkspaceScheduler` | - |
| `ProjectPlanning` | the chat with the Supervisor, and a plan written file by file and queued | talkers, planners, plans |
| `RoleAdapters` | one call of a role by a process or a model | retries |
| `AcpTurns` | one turn over JSON-RPC with a local agent, its permissions and its timeout | kinds of tools, policies |
| `A2AClients` | invocations of remote agents: streams, polling, the shared push receiver | clients, deliveries, limits of the inbox |
| `OAuthTokens` | the tokens of remote agents in several processes, with a rotating server | processes, bounds |
| `AgentsProofs` | the proofs about `OAuthTokens`, `AcpTurns`, `A2AClients`, `Installations`, `RoleAdapters`, `ProjectPlanning`, `ReviewEvidence` and `PatchPolicy` | - |
| `Installations` | releases and managed agents: staged, put in place, launched, removed | processes, releases |
| `PatchPolicy` | how the gate reads git's patch and holds it against the scope of a task | names, scopes, forbidden paths, the lists of changes |
| `ProjectSettings` | agents and roles: what the forms accept and what the resolver then uses | names, the registry |
| `DesktopWindow` | the window: main thread, executor, results out of order, closing | projects, threads |
| `JournalFiles` | the journal and the metrics: appends by several processes, usage counted once | callers, texts |
| `OperatorProofs` | the proofs about `Rollback`, `JournalFiles`, `FinalAudit`, `ProjectSettings` and `DesktopWindow` | - |
| `MC*` | model values, bounds and compositions for TLC | - |

`FileLease` justifies how the others use leases: a StateStore call is one step of `TaskLifecycle`,
`CanonicalOps`, `Rollback`, `QueueRunLoop` and `TelegramCommands` because the state lease is exclusive, and
`CanonicalOps` and `Rollback` keep the execution lease as one variable, freed when its holder dies, because
`AbstractLease` says so. The core is cut at the StateStore calls: `TaskLifecycle` leaves the canonical work out
(`WorkReturns`, `WorkRaises`, `WorkContended` are its three outcomes) and `CanonicalOps` leaves the review out;
they meet in `record_result`, `record_failure` and `recover_running`, which both model. `Rollback` has a run's
commit and record as one step (`Integrate`), `QueueRunLoop` has integration and review as outcomes,
`ReviewEvidence` has a run as given. `QueueRunLoop` ends in what `FinalAudit` begins with, and is what a run of
`WorkspaceScheduler` starts; the preparation of a batch is a call of `RoleAdapters`, `AcpTurns` or
`A2AClients`, and its patch goes through `PatchPolicy`.

### FileLease

A call is a sequence of program points (`pc`), one per visible effect: `BeginAcquire`, the RLock
(`TakeThreadLock`, `ThreadLockTimeout`), polling (`TryLock`, `PollDeadline`), `ReadPrevious`,
`WriteOwner` or `WriteOwnerFails`, and back through `ReleaseNested` or `MarkReleased`, `Unlock`,
`FinishRelease`. `StatusRead`, `StatusProbe`, `StatusUnlock` are the three effects of `status()`. `Crash`
takes a process with all its threads; the kernel frees its lock. `abrupt` is a history variable: the
last holder was lost, or could not write its release marker.

### TaskLifecycle

`queue` is `queue.json`, oldest entry first; a run is named by a number and its review bundle and
commit by the run. Each StateStore method is an action under its own name; `proc[w]` is what a queue
command remembers between two of them. `rolling` is a rollback between its re-validation and its
record. Nothing in the code prevents a person from recovering a running task; `Interrupted` is what
`queue-recover-running --confirm` asks the operator to make sure of, and the mutant `Unconfirmed` shows
what the confirmation is worth. `open` is what the ledger has to do with it: the committed runs whose operation is not terminal.
A run commits (`WorkCommits`) before it returns, is contended or raises. From then on its result can come from two sides: from the runner's own
`RecordResult`, and from a reconciliation, `CompleteState` and `FinishLedger`, which any command does at its start, before it begins an
operation and in its exception handler (`cli.py:3913`, `4063`, `4346`, `operations.py:241-302`), and which `Operator` may therefore do at any time. A command
begins only with nothing open (`Begin`). The handler of an exception is `WorkRaises`, a reconciliation that leaves nothing it found open, and
`RecordFailure`, which looks at no status (`state.py:647`): a task that its reconciliation has just closed is failed a moment later.

`alone` and `orderly` are ways the project is worked on rather than state of the program, fixed for a whole behaviour: `alone` says that
commands are started one at a time, `orderly` that nothing raises or contends between a commit and its record, and that nobody recovers a
task that has an unrecorded commit. `RunsAreOwnedAndCounted`, `ClosedStaysClosed` and `OpenTasksAcyclic` say what holds with and what without it: where it does not
hold, a task with a committed run may fail after it was done. TLC violates each of the three when its exception is left out, `OpenTasksAcyclic` in the part *plain*.

### CanonicalOps

`log` is the linear branch (operation ids; `Outside` for a person's commit), `tree` what differs from
HEAD. A ledger record keeps the four phases that decide a classification and its outcome. A recorded
hash has two spellings, abbreviated (`Short`, by the run) and in full (`Full`, by a reconciliation), which
the code compares as strings. The steps of a reconciliation are apart, because nothing stops others
in between: the snapshot of `records()`, `LookUp`, `Judge`, `CompleteState`, `FinishLedger`. `Raise` is the
exception path of `_run_next_queued_task`: the lease is released on the way out and the handler
reconciles without it. `CrashWhileRecording` stops between the two files of a StateStore write.

### Rollback

`BeginRollback` to `EndComplete` are the steps of `apply_rollback` under the execution lease; `Startup`, `Claim`,
`WorkReturns`, `Integrate` and `Fail` are a `queue-run-next` of another process, and `TakeItem` to `ReconcileEnds` its
reconciliation of rollback operations. A claim does not take the execution lease and `Enqueue` takes no lease but the
state lease, which is what can change between the plan, its re-validation, and `complete_rollback` after the commit.
The id of a task names its newest entry (`Latest`), as in `_get_task`. `CrashWhileStoring` stops between `queue.json`
and `rollback-records.jsonl`.

### QueueRunLoop

`pc` follows `_queue_run_loop` and `_run_ready_batch`: `Startup`, `PlanBatch`, `ClaimBatch`, `Prepare` (in any order), `Collected`,
then `Contended`, `Raised`, `Rejected`, `Accepted` for each task in turn, or `SelectOne`, `ClaimOne`, `WorkOne` without isolated worktrees.
What a round reports of a task goes through `TakeEmpty` to `TakeDone`, one action per branch of the loop. `fate` is what this command last wrote of each
task it claimed; `OtherMoves` is a step of another command, at most `MaxOthers` of them.

### ReviewEvidence, FinalAudit

A bundle's file and its index entry are two steps of `export_review_bundle`, a decision's record and its application
two of `import_verifier_decision`; a crash may come between. `setups` are the commands that set up a review: the runner, which exports and attaches after it recorded its
run (`cli.py:4132-4138`), however late, and the repair at a startup, which takes its run from a history read before (`TakeRun`, `cli.py:3882-3904`). `Attach` and
`SetupFails` look at the status of the task only, as `state.py:480-493` does, so a bundle of an earlier run can be attached; `alone` is as in `TaskLifecycle`. The configuration may change at any time, and a document
may name any bundle, attest any run and come from any author. `FinalAudit` inspects one kind of defect at a time while
others change the project (`absent` and `blind` collect what was found wrong at no time, and what a failed git command hid).

### TelegramCommands, WorkspaceScheduler

A poll is `Begin`, `Acquire`, `Fetch`, then `Ignore` or `Handle` and `Answer` for each message, `Store`; `Break` ends it anywhere, with the offset
as it was. A scheduler reads the due projects once (`ReadDue`), then `StartRun`, `EndRun`, `Record` for each; `RecordRaises` is
the exception for a project that was removed, which ends the round.

### ProjectPlanning, ProjectSettings

The chat file is read (`ReadHistory`) and replaced a model turn later (`SaveTurn`); no lease protects it, so what was sent or cleared in between is
gone, which is modelled as it is. A plan is validated, then written document by document, then enqueued in one
transaction. `ProjectSettings` has both lookups of an agent's name, `Catalog` (`role_catalog.py`) and `Resolve`
(`role_profiles.py`), and every form that adds, replaces and removes agents. A name may be listed more than once: `Catalog` then shows the drivers of
the last entry, `Resolve` takes the first. `CheckRun` and `StartRun` are the two times a run reads the settings: the window checks it
against the catalog, and the command that is started reads them again.

### RoleAdapters, AcpTurns, A2AClients, OAuthTokens

The agent is external: it exits, hangs, says anything in any order, answers late or twice. In `RoleAdapters` it leaves any number of kinds of children, which hold its
output or have redirected theirs, and heed the signal to their group or do not: a completed call waits only for children that hold the output, and
`TreeTerminated` ends only what heeds the signal, as long as the launcher itself lives. In `A2AClients` an answer or a stream may name no task, and an event may look like a message, which `_task_state` reads as completed
(`Taken`, `Outcome`).
The modules have the whole path of HoH's side of one call, with every timeout and `finally`. In `AcpTurns` caller and
turn are two threads, as the executor makes them. `A2AClients` counts the references of the shared receiver and has the two bounds of
the inbox. In `OAuthTokens` the server may rotate refresh tokens; no lease is held from reading one to saving the next.

### Installations, DesktopWindow, PatchPolicy, JournalFiles

`Installations` stops processes between any two of: download, extraction, rename, pointer, launchers. `DesktopWindow` runs handlers one after the other; work is a closure that reads the
path field or the snapshot when it starts. The field is an ordinary one (`Type`): every reload (`Reloaded`) loads what is in it then, an empty one asks for nothing, and one that was emptied
meanwhile means the directory of the window (`Named`). `PatchPolicy` generates what git writes for a set of changes and reads it with
`scan_patch` line by line; a name is a sequence of parts, a hunk a few kinds of lines, among them those that look like headers, hunk headers without counts, headers of combined diffs, empty lines, git's note of a missing last newline, and those with separators of their own.
`Halves` are the renames whose header also splits into two equal names, which `_git_header_paths` takes for one path. `position` is the line read next,
`pendingHeader` and the `remaining` counts are what the loop keeps from one line to the next.
`JournalFiles` has an append as the read and the replacement it is, either of which may fail, the second also after it took place.

## 3. Runs

Bounds are CONSTANTS in each `.cfg` or MC module, and each has a name in the component's module.

| Run | Question | Bounds |
|---|---|---|
| `MCFileLease` | exclusion, evidence, refinement, the invariant of the proofs, and that every call returns | 3 threads, 2 in one process: the smallest with a thread and a process rival; depth 2 for nesting; fair steps |
| `MCTaskLifecycle` | who works on a task and how often, what closes it, one open entry, no cycle, whoever records a run | part *review*: 1 id, 2 entries (re-enqueue), 2 commands, 3 runs, reviewers outside, `orderly`: enough for a late result, a stale bundle, a rework and the attempt limit. Part *critic*: the same with an automatic critic, 2 runs, and exceptions after a commit. Part *graph*: 2 dependent ids, batches in either direction, 2 commands of which one runs at a time, 2 runs, orderly or not. Part *plain*: no reviews, so that a reconciliation closes a task at once; 2 dependent ids, 2 commands side by side, 3 entries, 2 runs, orderly or not |
| `MCOpsCrash` | committed work is never redone, no patch is forgotten | 1 process, 1 task, 3 operations (two retries after crashes), litter, an outside commit |
| `MCOpsConcurrent` | what survives two processes and a failing journal, that outcomes stand, and that every command ends | 2 processes, 2 tasks, 2 operations, crashes, journal errors; fair steps |
| `MCBatch` | scopes in a batch, the exit code, the end of a loop | 1 loop, 3 tasks (a conflict, a dependency), 7 configurations, 2 steps of others; fair steps |
| `MCServices` | commands of the operator are carried out and not repeated; schedules | 2 pollers, 4 messages in batches of 2, 2 interruptions; 2 schedulers, 2 projects, 3 choices of the operator; fair steps |
| `MCAgents` | eight parts, below | below |
| `MCOperator` | five parts, below | below |
| `MCOpsRace`, `MCOpsRejected`, `MCOpsCrashWindow`, `MCOpsReplayed` | *violated*, see 6 | the smallest in which the failure happens |

**Parts.** Components that share no state are put into one run: the MC module takes each in, the variable `part` says which one
moves, and the others rest in one initial state each. A part is explored exactly as by itself; nothing is
claimed of their product. A property of such a run is named for its part, and says so in its comment.

| Run, part | Property | Bounds |
|---|---|---|
| `MCAgents`, installed | `LaunchesAreWhole` | 2 processes, 2 releases, 4 commands: an update against a rollback and against another update |
| oauth | `SignedInStays` | 2 processes, 4 tokens, 1 loss: a refresh race and a sign-in |
| planning | `PlansAndTurnsAreWhole` | 2 talkers, 2 turns; 2 planners, 5 plans of which 3 are invalid and 2 overlap |
| adapters | `CallsAreClean` | every role and driver, every kind of child, 2 retries |
| acp | `LocalTurnsHold` | a known, an unknown and a permitted kind; 1 request of the agent besides its answers |
| a2a | `RemoteResultsHold` | 2 clients that share a receiver, an inbox of 1 task and 2 events: both limits are met |
| patches | `PatchesAreInScope` | 4 names (one with " b/" in it, two directories of which one begins like the other, one that makes a rename split into equal halves), 4 scopes, hunks of 2 lines; a change alone or before an edit (`EditLists`) |
| review | `ReviewsAreOfTheRun` | 2 runs, 2 set-ups, 2 exports, 1 change of the configuration; 2 documents or changes where commands run one at a time, 1 where they overlap (`WithinPapers`) |
| `MCOperator`, window | `WindowActsForItsProject` | 2 projects, 2 threads, 2 clicks, 1 outside change |
| settings | `SettingsAreUsed` | 2 names, one of them in the registry too, up to 2 local agents of a name, 3 edits |
| journal | `EvidenceIsKept` | 2 invocations, 4 payloads, texts with and without a separator |
| rollback | `RevertedOnce`, `RollbackAgrees` | 2 processes, 2 tasks of which one depends on the other, 3 entries, 3 runs, 2 rollbacks, crashes, litter |
| audit | `HandoffIsEarned` | 1 check, 1 change by others |

All runs but `MCFileLease` and those of `CanonicalOps` say `CHECK_DEADLOCK FALSE`: the bounds let the system come to rest, and a loop or a call
that has ended stays so. Symmetry is used where no temporal property with fairness is checked (`MCTaskLifecycle`, `MCOpsCrash`, `MCOperator`).

A property is checked in a run where the failures it can survive are switched on. `CommittedIsNeverRedone` holds for one process that
crashes at any point; with a second process or a failing journal it does not (section 6). `OutcomesStand` is stated for any number of processes and says exactly
what a stale record can undo: nothing that was reverted or cancelled, and of what is complete only the outcome, with the commit on the branch and its run recorded,
so that the next reconciliation completes it again. `CanonicalStepsAreExclusive` says that every other open operation has its
run recorded, not that no other operation is open: a classification that writes a stale record back may open a
closed operation again, after its run was recorded, and that does not let two canonical changes overlap.
`ReviewedIsApproved` is `ClosedIsApproved` in the parts where a review is required; that is the approval of the very commit in the behaviours with one command at a time (`alone`, the part *graph*), and of a bundle of the task in the parts with two. `RunsAreOwnedAndCounted`, `ClosedStaysClosed` and
`OpenTasksAcyclic` name their exceptions for behaviours that are not `orderly`, and only the tasks with a committed run are excepted.

**Fairness.** `FileLease` assumes weak fairness of the next step of a started call: a thread that polls
wakes up and its clock passes the deadline. `CanonicalOps` assumes weak fairness of the steps of a started
command, and `QueueRunLoop` of those of the loop: Worker, subprocess and lease calls all have timeouts in the code. `TelegramCommands`
assumes it of a watcher: `telegram-watch` itself exits on an error (`cli.py:3045-3083`), and it is the scheduled task of
`scripts/register-telegram-watch-task.ps1` that starts it again at intervals, so the assumption is one about an installation that registers it. `WorkspaceScheduler` assumes it of a scheduler, which the
operating system starts at intervals (`scheduler_service.py`). Nobody is assumed to start a
queue command, to crash, to retry or to clean up, nor a remote agent to answer.

**Mutants.** Each property of a passing run has a mutant in PROJECT.json, an operator marked "Slip" beside the
one it replaces. Where a property of a composed run is a conjunction, its conjuncts have slips of their own in the component's module, which break it
too: `VerifyNothing` and `InstallPointing` in `Installations`, `SaveAnswerOnly` in `ProjectPlanning`, `AllowsUnknown` and `TerminatedOnTimeout` in `AcpTurns`, `OutcomeOf` and
`UnreadAll` in `A2AClients`, `AppliesToAny` in `ReviewEvidence`, `NamesOfNew` in `PatchPolicy`, `MergedAdding` in `JournalFiles`, `RecordedAtNotify` in `FinalAudit`, `ShowSnapshotOnly` and `ServedLoaded` in
`DesktopWindow`, `Unconfirmed` and `ResultStatusNoReview` in `TaskLifecycle`, `TakeOrAskAgain` and `AcceptedByCode` in `RoleAdapters`.

## 4. Proofs

`FileLeaseProofs` proves, for any sets of threads and processes and any nesting depth:

- `LeaseInvariantHolds`: `Spec => []LeaseInvariant`. Mutual exclusion alone is not inductive: that a holder has the
  kernel lock follows from where each thread is (`KernelOwner`, `DepthAt`), that `release` frees the right lock from
  the agreement of RLock, handle and depth (`RLockBalanced`, `RLockSane`, `HandleOfHolder`), and that the evidence is exact
  from what the metadata file says at each point (`MetadataNamesHolder`, `SeenIsCurrent`, `EvidenceOnDisk`). Each of these
  is one conjunct, and each action's step is one lemma.
- `LeaseExcludes`, `EvidenceIsExact`: the properties of `MCFileLease` as corollaries.
- `LeaseRefines`: `Spec => AbstractLease!ASpec`; every step is a grant, a drop or invisible.

The assumptions are those of the module: a process for each thread, a positive depth, `None` no thread.

`CanonicalOpsProofs` proves, for any sets of processes, tasks and operations, any bounds, and every failure switched on
or off (crashes, litter, journal errors):

- `LedgerInvariantHolds`: `Spec => []LedgerInvariant`. The properties below are not inductive: that a reverted operation has no
  commit depends on where its run is. The invariant says for every process what the code takes for granted at its
  point (`ProcessAt`): the operation is new until the intent is on disk, then open, unrecorded and uncommitted until the
  commit (`OperationAt`); a snapshot was taken of open records, and an item found committed or recorded stays so
  (`ItemAt`); after the check under the lease every other open operation has its run recorded (`OthersRecorded`). With
  it go `OneRowPerRun`, `CommitsAreIntended` and `OwnOperations`.
- `TypesHold`, `OutcomesTrue`, `UnrecordedCommitsBlock`, `OneRunEach`: the invariants of `MCOpsConcurrent`, and the types, as corollaries.
- `CanonicalStepsExclude`: the action property; only `ApplyPatch` brings an operation to the repository.
- `LedgerRefines`: `Spec => AbstractLedger!ASpec`; `BeginTask` declares, `Commit` lands, `RecordResult` (by the run or by a
  reconciliation) makes known, every other step is invisible.
- `PatchesInTreeAreOpen`: the invariant of `MCOpsCrash`, for any number of processes (the run checks it with one). It becomes inductive with
  the stronger `PatchInvariant`: a patch in the worktree is of an open operation that is neither recorded nor committed, and a run that is past
  its revert or commit has none there.
- `OutcomesStandAlways`: the action property `OutcomesStand` of `MCOpsConcurrent`, for any number of processes. A snapshot may be as old as it likes: what `LedgerInvariant` keeps is that
  whoever is about to write a stale record back has its commit on the branch, and an operation whose commit is there is neither reverted nor cancelled, and recorded before it is complete.
- `CommittedStaysAccepted`, with one command at a time and a journal that can be written: the invariant of `MCOpsCrash`. `WorkInvariant` adds that the
  task of a run is its own and `running` until the result is stored (`TaskOwned`, `TaskRunning`), that the run that committed keeps the hash and
  returns a result that is ok (`CommitHeld`), that snapshots name the tasks as they are, and that the task of a recorded commit is `done` (`KnownIsDone`).

The argument is organised around interference. `Disturbs(p)` bounds what a step of one process may do to the ledger, the
branch, the history and the lease; `OthersKept` shows once that no other process loses anything by such a step;
`StepKeeps` puts the rest together, so that an action's lemma only looks at the process that takes it. The delicate
case is the write of a stale record (`Judge`): it may open an operation again, but only one whose commit is on the branch,
which by `OutcomesAreTrue` is complete and recorded, so nobody's check is undone. The assumptions used are `NamesDiffer` (the names are apart; no commit hash is `None`).

The hypotheses of `CommittedStaysAccepted` are needed, and TLC shows it: `CommittedIsNeverRedone` is violated by two processes (section 6, 6: a failing command's reconciliation completes the
other's operation, whose own report of the commit then raises), and with one process when the journal append after the commit is refused or times out (8).

`TaskLifecycleProofs` proves, for any task ids, queue commands, batches, attempt limit and bounds, in both review modes, with and
without the automatic critic, whoever records a run and whatever raises after a commit:

- `QueueIsSound`: `Spec => [](TypeOK /\ QueueInvariant)`. That a running task has one command is not inductive, for `record_failure`
  writes whatever the status is: `ProcessAt` says of every command that its task is known and that its run is new to the history, or was committed and is recorded as a commit by a
  reconciliation (`CommitRecorded`), until the command has its result stored or finds it stored, and that it is a record of the task afterwards; `OpenRuns` that at most one operation is open, of a known task, and recorded if at all as
  the commit it is; `RunsKnown` that run ids are recorded once, worked on once, and that bundles and
  decisions belong to recorded runs, without which a decision might close another task (`TaskOf`).
- `OneEntryIsActive`, `RunsHaveOneOwner`, `OpenTasksStayAcyclic`, `DoneIsApproved`: the invariants of `MCTaskLifecycle` as corollaries.
  `RunsHaveOneOwner` is about every run under way (`UnderWay`): one a live command works on, and one that is committed, open and not recorded, though its command is dead. Where exceptions may follow a commit it
  holds for the tasks that have no committed run, and acyclicity is claimed for `orderly` behaviours only: a done task that is failed by a handler depends again on what it was enqueued without.
- `ClosedIsFinal`: the action property `ClosedStaysClosed`, whoever records a run. Its one exception is `record_failure` of a live command that failed after its commit.
- `ClosedOnApprovalOfCommit`: `Spec => []ClosedIsApproved`. With one command at a time and without an automatic critic the approval of a done entry is that of
  the very commit. `ApprovalInvariant` says why: the bundle attached to a task under review is that of its entry's commit or none yet (`Covered`); the commit of a task under review is the last
  the history has of the id (`LastCommittedIn`), which is what a repair attaches; and what a startup is about to attach was read from a history nobody has
  added to since (`AttachesTo`). Every step either brings no task under review (`Plain`), or does so without a bundle (`Reviews`), or attaches one (`Attaches`). Both
  hypotheses are needed (section 6, 5).

The argument is one about the queue file: `QueueStep` shows that a step leaves the queue alone, enqueues a batch, or changes the latest entry
of one id (`Moves`), out of rolled back or done only by a rollback or by the excepted `record_failure` (`Reopens`), out of running, where the task is `Owned`, only when the last
run under way leaves it (`Left`), and to done, in required mode, only with an approval. What holds of entries is then proved of `Moves` and of
`Enqueue` alone. Acyclicity needs the deeper look: an enqueued batch leaves out the dependencies of tasks that are done, which is sound
because in an `orderly` behaviour a done task does not open again (`OpenTasksAcyclicStep`). `FiniteFirst` (a finite set has a first element in a
total order) makes sense of "the latest entry" and of the scheduler's choice. The assumptions are `TaskConstants`.

`QueueRunLoopProofs` proves, for any loops, finitely many tasks, any dependencies, scopes, limits and configurations, and whatever other
commands do to the queue in between:

- `LoopIsSound`: `Spec => [](TypeOK /\ LoopInvariant)`. That a success is honest says nothing of the rounds before it; `Accounted` says
  of every task the command claimed that it ended well, or is in hand, or left an outcome that ends the command, or already did.
  `InRound` says that a round begins with nothing in hand and that an outcome such as `empty` is the only one of its round,
  `InLimits` that what is in hand fits into `--max-tasks`, and that a review gate has one task at a time.
- `ExitCodeIsHonest`, `BatchesAreApart`: the invariants of `MCBatch` as corollaries.

`schedule_batch` is specified by what it selects (`Selected`: a task joins unless it conflicts with one that joined before it); that
there is such a selection and that it is apart and within the limit are `SelectionExists` and `BatchIs`, over sequences that
`FiniteOrders` gives. A step of a loop is sound if the one loop it changes is (`Moves`), so each action has one lemma. The assumptions are `LoopConstants`.

`OperatorProofs` proves, of a rollback, for any processes, finitely many tasks with any dependencies, any operations and bounds, with or without crashes and litter:

- `RollbackIsSound`: `Spec => [](TypeOK /\ RollbackInvariant)`. That a run is reverted once follows from nothing on the branch alone: a rollback looks for
  a record of the run, and the record is written last. `Rely` says what closes that gap: from the check of the ledger on, whoever has the execution
  lease knows of every revert without a record (`OthersRecorded`: it is in the snapshot still to be looked at, or blocks, or is the command's own);
  until its commit the operation is not on the branch and no record names its run (`OwnOperation`); what a reconciliation read stays true up to
  the progress of the record (`SnapshotAt`). `LedgerAgrees` adds that a revert waiting for its record may only mark the entry of its own run
  (`TargetOf`), though the id may be enqueued, claimed or failed in between, and `OneWorker` that `record_failure` hits the command's own task.
- `RevertsHappenOnce`, `RecordsAgree`: the invariants `RevertedOnce` and `RollbackAgrees` of `MCOperator` as corollaries.

The argument is again one of interference: `Shared(p)` bounds what a step may do to each file (`LogStep`, `LedgerStep`, `QueueStep`, `RecordsStep`,
`LeaseStep`), `RevertsKept` and `AgreementKept` derive the global conjuncts from those bounds, and `RelyKept` what everybody else relies on; what is left
for an action is its own process. A reconciliation that runs without the lease (`failing`) meets the same bounds as everybody else. The assumptions are `RollbackConstants`.

And of the other parts of `MCOperator`:

- `JournalIsSound`, `EvidenceStays`: `JournalSpec => []EvidenceIsKept`, for any invocations and texts. An append replaces the whole file, so what keeps the
  others' records is `SnapshotHeld` (who is about to replace a file has the lease and has read all there is); what keeps the order of a process's own is
  `Numbered` (a payload that is not in the file yet is later than every one that is), and what keeps a call from being counted twice is `UsageFollows`.
  A step either replaces no file (`NoAppend`) or is an append (`Appends`), and each has one lemma.
- `AuditIsSound`, `HandoffsAreEarned`: `AuditSpec => []HandoffIsEarned`, for any number of checks and changes by others. `InspectedOrAbsent` is the reading of a verdict
  that is reached without a lease: each kind of defect that was inspected and not found was absent at some time, not all at the same, or could not be seen.
- `CheckedRolesAreUsed`: `SettingsSpec => []SettingsAreUsed`, a property of the time of use: what a run was checked with is what it starts with, unless something was saved in between. `CheckStands` carries
  the check to the start, whatever is installed or answers meanwhile, and `ShownIsUsed` relates the two lookups in every configuration: they agree about the kind of agent, and about its driver but
  for a name that several unlike local agents have (`Ambiguous`). A section of its own in the settings stands and is excepted.
- `WindowIsSound`, `WindowActs`: `WindowSpec => WindowActsForItsProject`, for any projects and threads. Field and snapshot are set by different handlers, so what keeps them together
  is in the jobs: they differ only while a load is queued, running or not shown yet, after one failed, or after somebody typed into the field (`Agreement`); and since a load reads the field when it starts,
  `JobSound` carries that every job still has what it needs when its turn comes, whatever was clicked or typed since.

The assumptions are `JournalConstants` (nobody is no caller, usage is counted in natural numbers), `AuditConstants` and `WindowConstants` (no project is the empty field, and the directory the window was started in is a project or none).

`ServicesProofs` proves, for any pollers, messages, batch limit and number of interruptions, and for any finite set of projects, any schedulers and intervals:

- `PollsAreSound`, `CommandsAreAppliedOnce`: `TelegramSpec => []CommandsAppliedOnce`, the invariant of `MCServices`. That the offset passes only what was acted on
  depends on the batch in hand: `TelegramInvariant` says that a batch is a run of updates from the offset on (`BatchSound`), that the holder of the lease
  has acted on every command before the rest of its batch (`PassedHandled`), and that what is still to come was acted on in broken polls only (`FreshAfter`);
  with nobody polling that is everything from the offset on. `MoveKeeps` reduces a step to the poller that takes it.
- `RegistryIsSound`, `ChoicesStand`: `WorkspaceSpec => []OperatorChoiceStands`, because `record_run` takes the schedule from the registry under its lease,
  not from the snapshot the run began with (the mutant `RecordedSnapshot` breaks it).

The assumptions are `TelegramConstants` and `WorkspaceConstants`: messages are of the operator or not, intervals are at least one minute, projects are numbered.

`AgentsProofs` proves, for any processes, clients, kinds of tools, policies, releases, plans, configurations, changes, scopes, limits and bounds:

- `TokensAreSound`, `SignInsAreKept`: `OAuthSpec => []SignedInStays`. No lease is held from reading a refresh token to saving its successor, so it is not
  the file that keeps a sign-in: `SavedIsLive` says that the server accepts what any process is about to save, whoever saves last, and `HeldAlone` that
  a rotating server's successor is known to that process alone until it is saved, so nobody else can use it up in between.
- `TurnsAreSound`, `LocalTurns`: `AcpSpec => []LocalTurnsHold`. What the pipes hold is bounded by what the agent did (`Given`: a response that names a request is
  one of its answers; stray responses name none) and by the policy (`Permitted`), so the id the thread compares ties the result to the last request.
- `CallsAreSound`, `RemoteResults`: `A2ASpec => []RemoteResultsHold`. `Heard` says that everything a client, its inbox or the network has of a task the agent
  said, and `EndIsHonest` that a result comes of a task that completed, of a message, or of an answer that named no task, which is all the code looks at; `NothingMissed` that the inbox of a waiting client is all that was accepted
  for it, until a limit was met. For that the receiver may not be replaced while anybody waits: the one who leaves last finds, by counting (`InsideCounts`), nobody else inside.

- `InstallationsAreSound`, `WholeLaunches`: `InstallationSpec => []LaunchesAreWhole`. Commands hold no common lease from the download to the pointer: `CommandSound`
  says what a command relies on at each of its steps (the package it verified, the version it placed, the pointer it read), and each stays true under the
  steps of the others because a version that is in place is never replaced. `PointerSound` and `AgentSound` are what others launch by.
- `AdaptersAreSound`, `CleanCalls`: `AdapterSpec => []CallsAreClean`. `ProcessSound` and `FilesSound` tie the process, the children it left and the files to the point the call is at (of the children a call can only wait for those that hold its output, and
  end those that heed the signal, which is what the property says of them), `CallSound`
  the provider's count to the retries: work is asked for again only when an answer was lost.
- `PlanningIsSound`, `WholePlansAndTurns`: `PlanningSpec => []PlansAndTurnsAreWhole`. No lease protects the chat, so what keeps it in turns is that every history
  anybody has read is in turns (`TalkerSound`). `FilesWritten` says which files of a plan exist from what is left to write (`TodoSound`), and `QueuedWhole` that a plan's
  entries are as many as its tasks and depend on queued ids; a plan with an id that is queued is refused, so no two plans mix.
- `ReviewIsSound`, `ReviewsOfTheRun`: `ReviewSpec => []ReviewsAreOfTheRun`. `ExportSound` says that a file written by an export that has not come to the index is of an id not indexed
  yet, so what a reviewer may see of an id is fixed once a decision names it; `ReviewTaskSound` that a task waits for a decision on a run of its own only, on the last one where the commands that set
  reviews up run one at a time (`alone`). That an earlier one can be decided otherwise is in section 6, 5. That a retry does not
  judge again is not there: the code does not keep it (section 6).
- `PatchIsScanned`, `PatchesKeepToScope`: `PatchSpec => []PatchesAreInScope`, for patches of any number of changes with hunks of any length. The reader's state
  says nothing by itself: it means something only against where the lines of each change stand. The lemmas before it show that of any lists laid out one after the
  other by `FlattenSeq` (`LaidLines`, `LaidCovers`, by induction over the number of lists), so that every position is one line of one change (`LinesOf`, `LineOfChange`).
  Then `HeadersAreRead` says what is known of every change the reader has passed, whatever the files hold; a refusal stays a refusal. The exception is a rename without a hunk
  whose header splits into two equal names (`Misread`): the gate then knows one wrong path, and accepts by it. It needs `CountsAreReset`: no count of an
  earlier hunk reaches the file header of a change. Without separators `CountsAreExact` keeps the two counts equal to the lines of the hunk still to come, so that a
  line of a file is never read as a header, and `OnlyHeadersAreRead` gives the other direction: nothing else is found and nothing is refused.

The assumptions are `PatchConstants` (a patch is of a list of changes, and a rename in `Halves` has two different names), `A2AConstants` (finitely many clients, limits of at least one), `InstallationConstants` (finitely many numbered releases), `AdapterConstants`, `PlanningConstants` (a
plan's tasks are a list) and `ReviewConstants` (a review is required or not, limits are numbers, the first configuration is one of them). Of servers, agents and reviewers it is assumed that
what they do is among what the modules let them do: children of the kinds of `ChildKinds`, events as in `RemoteStep`, verdicts on any bundle and of any author.

Only model-checked: liveness (`CallsReturn`, `CommandsEnd`, `LoopsReturn`, `CommandsHandled`, `DueProjectsSettle`), which is beyond the prover; `MarksTheTarget`, `DependentsWait` and `CommittedRollbackCompletes` of `Rollback`, which the code does not keep (section 6). Every other invariant and action property of a passing run is proved.

## 5. What is abstracted, and what is not modelled

- Time: a timeout may happen whenever its wait has begun; `updated_at`, stale-running thresholds and ages are not there. Only `WorkspaceScheduler` has a clock.
- Contents: prompts, findings, messages, redaction, prices, JSON layout. A verifier's verdict is a choice in `CanonicalOps`; what of it follows
  from the text of a patch is in `PatchPolicy`.
- A corrupted or torn file: the code refuses to work on one; the models keep files whole, but for the line separators of `JournalFiles`.
- Git: one linear branch, no merges, no other branch checked out.

Not modelled, with the reasons of PROJECT.json:

- **Headless server**: HTTP views of the StateStore and of the workspace; every change it makes is an action of `TaskLifecycle` or `WorkspaceScheduler`.
- **Conformance and smoke flows**: self tests that drive the commands above.
- Of the other parts: Tk widgets and dialogs, `doctor`, the scanner, the language analyzers, building of portable packages, registration with the
  operating system's scheduler, the cache of the agent registry, migration of old state files, the operator's message inbox.

## 6. Where the code and its documentation disagree

Those of the core were also seen by running the code. The first four are runs that TLC finds violated; PROJECT.json, "findings", has the quoted lines.

1. `MCOpsRace`: a result is stored after the lease is given up; another startup may have stored it with another
   spelling of the hash, and the run is refused its own result.
2. `MCOpsRejected`: recording a rejected result asks the closed operation for one more phase and raises.
3. `MCOpsCrashWindow`: a crash between `queue.json` and the history line makes every startup raise.
4. `MCOpsReplayed`: contention for the journal entry after the commit puts the committed task back in the queue.

The rest have no run of their own; each names the definition that states it, to be put into the configuration named:

5. `ApprovalCoversCommit` in `TaskLifecycle` with two commands (part *review* of `MCTaskLifecycle`): a startup repair works on a history read before another command ran the task again
   (`cli.py:3883`) and attaches the bundle of the earlier commit; `README.md:66` says bundles are "bound to an exact run, commit, patch digest". With one
   command and an automatic critic there is another way: after the critic failed for a re-enqueued id (10), a retry keeps the bundle attached (`_update_task`, `state.py:919`), and an
   approval of it closes the new commit before its own bundle is attached. `ReviewEvidence` shows it as well where commands overlap (its property without `alone =>`): a late runner's bundle of an earlier run decides the task.
6. `CommittedIsNeverRedone` with two processes: the failure handler completes another live run's operation, which ends
   as failed though committed.
7. With two processes a classification's write of a stale record (`operations.py:353`) opens a completed operation again, until the next reconciliation. `OutcomesStand` is the bound of that.
8. `CommittedIsNeverRedone` with `JournalErrors = {"raised"}`: a journal error after the commit ends in a failed task
   with a commit. In `TaskLifecycle` the handler's reconciliation first makes the task done or `review_pending`, and its `record_failure` then failed, from where a retry does the work once more
   (`ClosedStaysClosed` without its exception, in the part *plain*).
9. `StaleOwnerMeansDeadOwner` in `FileLease`: `lock-status` may call a released owner stale (`docs/daily-ops.md:404`).
10. `CriticFailureKeepsPending` in `TaskLifecycle`, part *critic*: a failing Critic fails the review of a task id that
    was enqueued before (`README.md:443`).
11. `DependentsWait` in `Rollback`: a dependent that was claimed between the re-validation and `complete_rollback` goes on running, though
    `docs/architecture.md:809` says that queued downstream tasks "remain queued and cannot run".
12. `CommittedRollbackCompletes` in `Rollback`: the task is enqueued again, or fails late, between the revert's commit and its record; `complete_rollback` refuses, now and at every
    reconciliation. `MarksTheTarget`: a later lifecycle of the id may be marked for the revert of an earlier one.
13. `PreparationApart` in `QueueRunLoop` with two loops (`Loops = {l1, l2}`, `Configs <- TwoBatches`): scopes are compared within one batch only; `README.md:691` says
    "preparation overlaps only when `allowed_paths` scopes do not overlap".
14. `NeverJudgedTwice` in `ReviewEvidence`: after a crash between the record of a decision and its application `critic-run` asks the Critic
    again, though `docs/architecture.md:931` says a retry never does.
15. `AppendsAreRead` in `JournalFiles`: JSON is written with `ensure_ascii=False` and read with `splitlines` (`durable_io.py:80`), so a payload with U+2028, U+2029 or U+0085 makes its
    file unreadable: every later append, `journal-list` and `journal-export` (`README.md:488`) fail. The journal part of `MCOperator` has such texts, and its property holds all the same.
16. `NothingLeftBehind` of `RoleAdapters` without its exceptions: the description of `terminate_process_tree` says that it terminates "the launched process and its descendants"
    (`process_launch.py:47`). It returns at once when the launcher has exited, and sends SIGKILL only when the launcher itself stays, so a child that ignores SIGTERM lives on; and a child with
    redirected output outlives a call that succeeded, next to the diff of its worktree.
17. `RemoteResultsHold` of `A2AClients` without its exceptions: an answer or a stream that names no task is returned as a result even when it says "WORKING" (`a2a.py:370`, `376`, `391`, `488`, `495`, `497`), and any
    event that looks like a message is read as completed (`a2a.py:827`).
18. `PatchesAreInScope` of `PatchPolicy` without `Misread`: `changed_files_from_patch` is to give "every repository path the patch touches, on both sides of renames" (`verifier.py:128`). A header of a pure rename that splits into
    two equal halves is read as one path that is neither of the two (`verifier.py:266-268`), and if that lies in the scope, the patch is accepted.
19. `SettingsAreUsed` of `ProjectSettings` without `Ambiguous`: two local agents of one name are accepted (`config.py:643`, `gui_services.py:1029-1041`), the catalog shows the last (`role_catalog.py:36`, `39`), the resolver takes the first
    (`role_profiles.py:283`). A saved driver is used with whatever agent has the name by then.
20. `WindowAgrees` of `DesktopWindow` without `typed`: the path field is editable (`gui.py:1161`), so the reload after a command (`gui.py:2768`) may switch to a project nobody loaded, or, with an emptied field, show an error instead (`gui.py:2764`).

## 7. Plan

What would come next, in this order:

1. `CanonicalOps` and `Rollback` over one ledger: a task commit and a rollback under way in two processes.
2. The operator's message inbox and the registry cache.
