--------------------------- MODULE ReviewEvidence ---------------------------
(***************************************************************************)
(* The documents of a review (review_protocol.py): a bundle is exported     *)
(* from a committed run, somebody reads it and writes a decision, and the   *)
(* decision is imported, by review-import, by critic-run or by the runner.  *)
(* One task and its runs; how runs come about is TaskLifecycle's matter.    *)
(*                                                                          *)
(* A bundle holds the roles and the limit that were configured when it was  *)
(* made.  Its file is written before its index entry, so a crash leaves a   *)
(* file that the next export replaces by another with the same id, and      *)
(* that somebody may have read.  A decision is recorded before it is        *)
(* applied to the task, so a crash leaves one that only importing the same  *)
(* document again applies.                                                  *)
(*                                                                          *)
(* A command that recorded a run, or found a task without a bundle at its   *)
(* start, exports and attaches later, under no lease that spans the steps;  *)
(* attach_review_bundle and fail_review_setup look only at the status.      *)
(***************************************************************************)
EXTENDS Naturals, Sequences, FiniteSets

CONSTANTS
    Configs,      \* the three_head sections there are: [required, critic, limit]
    First,        \* the one at the start
    None,
    MaxRuns, MaxSetups, MaxDocuments, MaxExports, MaxChanges   \* bounds

ASSUME ReviewConstants ==
    /\ \A c \in Configs : c.required \in BOOLEAN /\ c.limit \in Nat
    /\ First \in Configs
    /\ None \notin BOOLEAN \X Nat
    /\ {MaxRuns, MaxSetups, MaxDocuments, MaxExports, MaxChanges} \subseteq Nat

VARIABLES
    alone,       \* whether commands that set up reviews run one at a time
    section,     \* three_head: required or not, the critic, the attempt limit
    task,        \* the queue entry
    runs,        \* its committed runs: was the review required?
    setups,      \* the set-ups of reviews under way
    files,       \* canonical bundle files, by id
    index,       \* review-bundles.jsonl: what the index says of an id
    export,      \* the holder of the review-export lease, after its file
    documents,   \* decision documents people and the critic have written
    decisions,   \* review-decisions.jsonl
    critic,      \* the automatic critic at work
    exports, written, changes   \* counters for the bounds and for timestamps

reviewVars == <<alone, section, task, runs, setups, files, index, export, documents, decisions,
                critic, exports, written, changes>>

-----------------------------------------------------------------------------
Verdicts == {"approve", "reject", "escalate"}

\* What a person may get wrong in a document: the bundle it names, the
\* commit it attests, its author.  (A document without the shape of its
\* version is refused before anything is looked up, and changes nothing.)
Mistakes == {"none", "bundle", "commit", "critic"}

ReviewInit ==
    /\ alone \in BOOLEAN
    /\ section = First
    /\ task = [status |-> "queued", attempts |-> 0, pending |-> None,
               decision |-> None, correction |-> None]
    /\ runs = <<>> /\ setups = {} /\ files = <<>> /\ index = <<>> /\ export = None
    /\ documents = {} /\ decisions = {} /\ critic = None
    /\ exports = 0 /\ written = 0 /\ changes = 0

\* A run that is not this one.
Other(run) == MaxRuns + 1 - run

BundleId(bundle) == <<bundle.strict, bundle.run>>

With(f, id, value) == [i \in DOMAIN f \cup {id} |-> IF i = id THEN value ELSE f[i]]

Decided(id) == \E d \in decisions : d.names = id

-----------------------------------------------------------------------------
(***************************************************************************)
(* Runs and configuration.                                                 *)
(***************************************************************************)
Configure ==
    /\ changes < MaxChanges /\ changes' = changes + 1
    /\ section' \in Configs
    /\ UNCHANGED <<alone, task, runs, setups, files, index, export, documents, decisions,
                   critic, exports, written>>

\* claim_next: over the limit that is configured now, the task is escalated.
AttemptLimit ==
    /\ task.status = "queued" /\ section.required /\ task.attempts >= section.limit
    /\ task' = [task EXCEPT !.status = "escalated"]
    /\ UNCHANGED <<alone, section, runs, setups, files, index, export, documents,
                   decisions, critic, exports, written, changes>>

\* What a command does about a review: it exports and attaches under the
\* configuration it was started with.  `own`: of the run it recorded itself.
Setup(run, own) == [run |-> run, section |-> section, own |-> own, step |-> "export"]

MaySetUp == IF alone THEN setups = {} ELSE Cardinality(setups) < MaxSetups

\* A run commits: record_result.  The process may end there.
Work ==
    /\ task.status = "queued" /\ Len(runs) < MaxRuns
    /\ section.required => task.attempts < section.limit
    /\ alone => setups = {}
    /\ task' = [task EXCEPT !.attempts = @ + 1,
                            !.status = IF section.required THEN "review_pending" ELSE "done"]
    /\ runs' = Append(runs, section.required)
    /\ \/ UNCHANGED setups
       \/ section.required /\ MaySetUp /\ setups' = setups \cup {Setup(Len(runs) + 1, TRUE)}
    /\ UNCHANGED <<alone, section, files, index, export, documents, decisions, critic,
                   exports, written, changes>>

-----------------------------------------------------------------------------
(***************************************************************************)
(* Bundles.                                                                *)
(***************************************************************************)
\* validate_review_bundle, load_review_bundle: the file is the indexed one.
Loads(id) == id \in DOMAIN index /\ files[id] = index[id]

\* _validate_three_head_manifest: an attempt has been made.
ManifestValid(strict) == strict => task.attempts > 0

\* The configurations that commands at work were started with.
InUse == {section} \cup {e.section : e \in setups}

\* An id that is indexed is exported as it stands: nothing changes here.
ExportFile(run, config) ==
    LET bundle == [strict |-> config.required, run |-> run, made |-> exports + 1,
                   critic |-> IF config.required THEN config.critic ELSE None,
                   limit |-> IF config.required THEN config.limit ELSE 0]
        id == BundleId(bundle) IN
    /\ export = None /\ exports < MaxExports
    /\ id \notin DOMAIN index
    /\ ManifestValid(config.required)
    /\ files' = With(files, id, bundle) /\ export' = bundle /\ exports' = exports + 1
    /\ UNCHANGED <<alone, section, task, runs, setups, index, documents, decisions,
                   critic, written, changes>>

ExportIndex ==
    /\ export # None
    /\ index' = With(index, BundleId(export), export) /\ export' = None
    /\ UNCHANGED <<alone, section, task, runs, setups, files, documents, decisions,
                   critic, exports, written, changes>>

ExportDies ==
    /\ export # None /\ export' = None
    /\ UNCHANGED <<alone, section, task, runs, setups, files, index, documents, decisions,
                   critic, exports, written, changes>>

\* _reconcile_pending_review_setup: the tasks are read after the history, so
\* the run may be an earlier one of the task.
TakeRun(run) ==
    /\ section.required /\ task.status = "review_pending" /\ task.pending = None
    /\ alone => run = Len(runs)
    /\ MaySetUp /\ setups' = setups \cup {Setup(run, FALSE)}
    /\ UNCHANGED <<alone, section, task, runs, files, index, export, documents, decisions,
                   critic, exports, written, changes>>

\* attach_review_bundle.  The runner may go on with its critic.
Attach(e) ==
    /\ e.step = "export" /\ <<TRUE, e.run>> \in DOMAIN index
    /\ task.status = "review_pending"
    /\ task' = [task EXCEPT !.pending = <<TRUE, e.run>>]
    /\ setups' = (setups \ {e}) \cup (IF e.own THEN {[e EXCEPT !.step = "attached"]} ELSE {})
    /\ UNCHANGED <<alone, section, runs, files, index, export, documents, decisions, critic,
                   exports, written, changes>>

\* An exception in the runner: it looks whether the task has a bundle, and
\* then fails it.
SetupBreaks(e) ==
    /\ e.own /\ e.step \in {"export", "attached"} /\ task.pending = None
    /\ setups' = (setups \ {e}) \cup {[e EXCEPT !.step = "failing"]}
    /\ UNCHANGED <<alone, section, task, runs, files, index, export, documents, decisions,
                   critic, exports, written, changes>>

\* fail_review_setup
SetupFails(e) ==
    /\ e.step = "failing" /\ task.status = "review_pending"
    /\ task' = [task EXCEPT !.status = "failed"]
    /\ setups' = setups \ {e}
    /\ UNCHANGED <<alone, section, runs, files, index, export, documents, decisions, critic,
                   exports, written, changes>>

\* The command is through, is refused, or dies.
SetupEnds(e) ==
    /\ setups' = setups \ {e}
    /\ UNCHANGED <<alone, section, task, runs, files, index, export, documents, decisions,
                   critic, exports, written, changes>>

-----------------------------------------------------------------------------
(***************************************************************************)
(* Decisions.                                                              *)
(***************************************************************************)
\* Somebody reads a bundle, indexed or not, and writes; people use the same
\* id for two documents.
Write(bundle, mistake) ==
    /\ written < MaxDocuments /\ written' = written + 1
    /\ \E verdict \in Verdicts :
          documents' = documents \cup {
            [id |-> <<0, "review">>, at |-> written', verdict |-> verdict, saw |-> bundle,
             strict |-> bundle.strict,
             names |-> IF mistake = "bundle" THEN <<bundle.strict, Other(bundle.run)>> ELSE BundleId(bundle),
             attests |-> IF mistake = "commit" THEN Other(bundle.run) ELSE bundle.run,
             author |-> IF mistake = "critic" THEN "somebody" ELSE bundle.critic]}
    /\ UNCHANGED <<alone, section, task, runs, setups, files, index, export, decisions,
                   critic, exports, changes>>

\* Slip: the bundle is the one of that id.
AcceptsById(d) ==
    /\ Loads(d.names)
    /\ LET bundle == index[d.names] IN
       /\ d.strict = bundle.strict /\ d.attests = bundle.run
       /\ bundle.strict => d.author = bundle.critic

\* _import_verifier_decision_locked: version, critic, digest, commit.
Accepts(d) ==
    /\ Loads(d.names)
    /\ LET bundle == index[d.names] IN
       /\ d.strict = bundle.strict
       /\ bundle.strict => d.author = bundle.critic
       /\ d.saw = bundle
       /\ d.attests = bundle.run

\* The same document again, or the first for its id and its bundle.
Imported(d) ==
    /\ Accepts(d)
    /\ \A e \in decisions : e.id = d.id => e = d
    /\ Decided(d.names) => d \in decisions

StatusOf(verdict) ==
    CASE verdict = "approve" -> "done"
      [] verdict = "reject" -> "rework_required"
      [] verdict = "escalate" -> "escalated"

\* Slip: any task that waits for a review.
AppliesToAny(d) == d.strict /\ task.status = "review_pending"

\* resolve_review
Applies(d) == d.strict /\ task.status = "review_pending" /\ task.pending = d.names

Apply(d) ==
    task' = IF Applies(d)
              THEN [task EXCEPT !.status = StatusOf(d.verdict), !.pending = None, !.decision = d.id]
              ELSE task

Import(d) ==
    /\ Imported(d)
    /\ decisions' = decisions \cup {d} /\ Apply(d)
    /\ UNCHANGED <<alone, section, runs, setups, files, index, export, documents, critic,
                   exports, written, changes>>

\* The process dies after the record.
ImportDies(d) ==
    /\ Imported(d) /\ d \notin decisions
    /\ decisions' = decisions \cup {d}
    /\ UNCHANGED <<alone, section, task, runs, setups, files, index, export, documents,
                   critic, exports, written, changes>>

-----------------------------------------------------------------------------
(***************************************************************************)
(* The automatic critic: the runner's, or critic-run.                      *)
(***************************************************************************)
\* run_critic_review looks at the task only.
CriticRun ==
    /\ critic = None /\ section.required
    /\ task.status = "review_pending" /\ task.pending # None /\ Loads(task.pending)
    /\ critic' = [bundle |-> index[task.pending], by |-> section.critic,
                  again |-> Decided(task.pending), answer |-> None]
    /\ UNCHANGED <<alone, section, task, runs, setups, files, index, export, documents,
                   decisions, exports, written, changes>>

\* build_critic_decision: the id is that of the bundle and the judgment, the
\* time is not in it, and the file is named by the id.
CriticAnswers ==
    /\ critic # None /\ critic.answer = None
    /\ written < MaxDocuments /\ written' = written + 1
    /\ \E verdict \in Verdicts :
          LET bundle == critic.bundle
              d == [id |-> <<bundle.made, verdict>>, at |-> written', verdict |-> verdict,
                    saw |-> bundle, strict |-> TRUE, names |-> BundleId(bundle),
                    attests |-> bundle.run, author |-> critic.by] IN
          /\ documents' = {e \in documents : e.id # d.id} \cup {d}
          /\ critic' = [critic EXCEPT !.answer = d]
    /\ UNCHANGED <<alone, section, task, runs, setups, files, index, export, decisions,
                   exports, changes>>

CriticImports ==
    /\ critic # None /\ critic.answer # None
    /\ IF Imported(critic.answer)
         THEN decisions' = decisions \cup {critic.answer} /\ Apply(critic.answer)
         ELSE UNCHANGED <<alone, task, setups, decisions>>
    /\ critic' = None
    /\ UNCHANGED <<alone, section, runs, setups, files, index, export, documents, exports,
                   written, changes>>

\* record_review_failure, or the end of its process: the task keeps waiting.
CriticEnds ==
    /\ critic # None /\ critic' = None
    /\ UNCHANGED <<alone, section, task, runs, setups, files, index, export, documents,
                   decisions, exports, written, changes>>

-----------------------------------------------------------------------------
(***************************************************************************)
(* The supervisor.                                                         *)
(***************************************************************************)
\* review-rework: the limit is that of the bundle.
ConfirmRework(d) ==
    /\ d.strict /\ d.verdict = "reject" /\ Loads(d.names)
    /\ task.status = "rework_required" /\ task.decision = d.id
    /\ task' = IF task.attempts >= index[d.names].limit
                 THEN [task EXCEPT !.status = "escalated"]
                 ELSE [task EXCEPT !.status = "queued", !.pending = None, !.correction = d.id]
    /\ UNCHANGED <<alone, section, runs, setups, files, index, export, documents,
                   decisions, critic, exports, written, changes>>

ResolveEscalation ==
    /\ task.status = "escalated"
    /\ task' \in {[task EXCEPT !.status = "queued", !.attempts = 0, !.pending = None],
                  [task EXCEPT !.status = "failed", !.pending = None]}
    /\ UNCHANGED <<alone, section, runs, setups, files, index, export, documents,
                   decisions, critic, exports, written, changes>>

Retry ==
    /\ task.status = "failed" /\ task' = [task EXCEPT !.status = "queued"]
    /\ UNCHANGED <<alone, section, runs, setups, files, index, export, documents,
                   decisions, critic, exports, written, changes>>

-----------------------------------------------------------------------------
ReviewNext ==
    \/ Configure \/ AttemptLimit \/ Work
    \/ \E run \in 1..Len(runs), config \in InUse : ExportFile(run, config)
    \/ ExportIndex \/ ExportDies
    \/ \E run \in 1..Len(runs) : TakeRun(run)
    \/ \E e \in setups : Attach(e) \/ SetupBreaks(e) \/ SetupFails(e) \/ SetupEnds(e)
    \/ \E id \in DOMAIN files, mistake \in Mistakes : Write(files[id], mistake)
    \/ \E d \in documents : Import(d) \/ ImportDies(d)
    \/ CriticRun \/ CriticAnswers \/ CriticImports \/ CriticEnds
    \/ \E d \in decisions : ConfirmRework(d)
    \/ ResolveEscalation \/ Retry

ReviewSpec == ReviewInit /\ [][ReviewNext]_reviewVars

-----------------------------------------------------------------------------
(* A decision counts only for the evidence its author saw: the bundle the     *)
(* index names, not an earlier file with the same id, with its commit and, in *)
(* strict mode, from the critic that bundle names; and a bundle has one.      *)
DecidedOnWhatWasSeen ==
    /\ \A d \in decisions : /\ index[d.names] = d.saw /\ d.attests = d.saw.run
                            /\ d.strict => d.author = d.saw.critic
    /\ \A d, e \in decisions : d.names = e.names \/ d.id = e.id => d = e

(* A task whose last run needed a review is done only by the approval of a run *)
(* of its own, and that is the last one, whatever is configured, exported or   *)
(* imported since, where the commands that set reviews up run one at a time.   *)
(* (Where they do not, a late one attaches the bundle of an earlier run.)     *)
ApprovedAsRun ==
    task.status = "done" /\ runs[Len(runs)] =>
        \E d \in decisions :
            /\ d.verdict = "approve" /\ d.id = task.decision
            /\ d.names \in {TRUE} \X (1..Len(runs))
            /\ alone => d.names = <<TRUE, Len(runs)>>

(* docs/architecture.md: a retry after decision persistence never invokes the *)
(* Critic again.  (After a crash between the record and its application,      *)
(* critic-run does, and the answer is refused.)                               *)
NeverJudgedTwice == critic # None => ~critic.again

(* import_decision: a review is decided on the bundle that was read, and its *)
(* approval closes the task for a run that was reviewed.                     *)
ReviewsAreOfTheRun == DecidedOnWhatWasSeen /\ ApprovedAsRun
=============================================================================
