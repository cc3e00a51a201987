----------------------------- MODULE FinalAudit -----------------------------
(***************************************************************************)
(* The end of a queue-run-loop: the supervisor's state is read              *)
(* (supervisor_protocol.py), the project is audited (audit.py), the report  *)
(* is recorded (state.py) and the operator is told (_final_audit_handoff).  *)
(*                                                                          *)
(* The audit takes no lease and runs for as long as the project's checks    *)
(* do; a check may write into the repository, other commands and the        *)
(* operator go on, and nothing is looked at twice.                          *)
(***************************************************************************)
EXTENDS Naturals, Sequences, FiniteSets, SequencesExt

CONSTANTS
    MaxChecks,    \* bound: --check commands
    MaxChanges    \* bound: changes by others

ASSUME AuditConstants == MaxChecks \in Nat

VARIABLES
    project,   \* defects and blocking states the project has now
    audit,     \* the command: its step, the checks that are left, its findings
    recorded,  \* the audit history: one verdict per record
    reports,   \* report files
    told,      \* what the operator was told
    absent,    \* ghost: what the project was free of at some time since the start
    blind,     \* ghost: what the audit looked for and could not see
    changes

auditVars == <<project, audit, recorded, reports, told, absent, blind, changes>>

-----------------------------------------------------------------------------
\* What an audit inspects, in its order.
Kinds == <<"dirty", "docs", "diagrams", "lifecycle", "tracked", "dead_code">>

\* What keeps the handoff from starting, in its order; reviews that are pending
\* or were rejected are among the tasks still open.
Blockers == <<"rolled_back", "open">>

All == ToSet(Kinds) \cup ToSet(Blockers)

AuditInit ==
    /\ project \in SUBSET All
    /\ \E checks \in 0..MaxChecks :
       \E required \in BOOLEAN :
          audit = [pc |-> "status", at |-> 1, checks |-> checks, ran |-> 0,
                   findings |-> {}, required |-> required, status |-> "none"]
    /\ recorded = <<>> /\ reports = 0 /\ told = {}
    /\ absent = All \ project
    /\ blind = {} /\ changes = 0

\* The project changes, and `absent` remembers.
Becomes(now) == project' = now /\ absent' = absent \cup (All \ now)

Ok == audit.findings = {}

Tell(what) == told' \in {told, told \cup {what}}

-----------------------------------------------------------------------------
(***************************************************************************)
(* The handoff.                                                            *)
(***************************************************************************)
\* build_supervisor_status: the first blocking state is reported; a message
\* that cannot be delivered changes nothing.
Blocked ==
    /\ audit.pc = "status"
    /\ \E i \in DOMAIN Blockers :
          /\ Blockers[i] \in project /\ \A k \in 1..(i - 1) : Blockers[k] \notin project
          /\ audit' = [audit EXCEPT !.pc = "ended", !.status = Blockers[i]]
          /\ Tell(Blockers[i])
    /\ UNCHANGED <<project, recorded, reports, absent, blind, changes>>

Unblocked ==
    /\ audit.pc = "status" /\ ToSet(Blockers) \cap project = {}
    /\ audit' = [audit EXCEPT !.pc = "inspecting"]
    /\ UNCHANGED <<project, recorded, reports, told, absent, blind, changes>>

\* _git_lines: a git command that fails has no lines, so a worktree looks
\* clean, and no file is tracked that could be generated or hold a marker
\* (_tracked_generated_files, _blocking_marker_findings).
GitLines(kind, how) == IF how = "read" THEN project \cap {kind} ELSE {}

\* README.md, docs/, architecture.md, _non_markdown_docs
Documents == project \cap {"docs"}

\* _diagram_findings: without an architecture document nobody looks.
Diagrams == IF "docs" \in audit.findings THEN {} ELSE project \cap {"diagrams"}

\* _lifecycle_artifact_findings: brief, roadmap and task files that load once.
Lifecycle == project \cap {"lifecycle"}

\* run_language_analyzers: an analyzer that is missing is a finding when the
\* configuration says so, and one that finds nothing to read never is.
Analyzed(how) ==
    CASE how = "read"    -> project \cap {"dead_code"}
      [] how = "missing" -> IF audit.required THEN {"unavailable"} ELSE {}
      [] how = "unread"  -> {}

\* Slip: the tree is taken as clean.
InspectedTrusting(kind, how) == IF how # "read" \/ kind = "dirty" THEN {} ELSE project \cap {kind}

\* What the inspection of a kind finds.
Inspected(kind, how) ==
    CASE kind \in {"dirty", "tracked"} -> GitLines(kind, how)
      [] kind = "docs" -> Documents
      [] kind = "diagrams" -> Diagrams
      [] kind = "lifecycle" -> Lifecycle
      [] kind = "dead_code" -> Analyzed(how)

\* A git command may fail, and with it an analyzer has nothing to read; or the
\* analyzer is missing.
Ways(kind) ==
    {"read"} \cup (IF kind \in {"dirty", "tracked", "dead_code"} THEN {"unread"} ELSE {})
             \cup (IF kind = "dead_code" THEN {"missing"} ELSE {})

Inspect ==
    /\ audit.pc = "inspecting" /\ audit.at <= Len(Kinds)
    /\ LET kind == Kinds[audit.at] IN
       \E how \in Ways(kind) :
          /\ audit' = [audit EXCEPT !.at = @ + 1, !.findings = @ \cup Inspected(kind, how)]
          /\ blind' = IF how = "read" THEN blind ELSE blind \cup {kind}
    /\ UNCHANGED <<project, recorded, reports, told, absent, changes>>

\* _run_check_commands: refused, missing, out of time or failing is a finding;
\* the command may leave the worktree dirty.
RunCheck ==
    /\ audit.pc = "inspecting" /\ audit.at > Len(Kinds) /\ audit.ran < audit.checks
    /\ \E failed \in SUBSET {"check_failed"}, litter \in SUBSET {"dirty"} :
          /\ audit' = [audit EXCEPT !.ran = @ + 1, !.findings = @ \cup failed]
          /\ Becomes(project \cup litter)
    /\ UNCHANGED <<recorded, reports, told, blind, changes>>

\* run_project_audit: a project that is not checked is not ready.
Report ==
    /\ audit.pc = "inspecting" /\ audit.at > Len(Kinds) /\ audit.ran = audit.checks
    /\ audit' = [audit EXCEPT !.pc = "writing",
                   !.findings = IF audit.checks = 0 THEN @ \cup {"no_checks"} ELSE @]
    /\ UNCHANGED <<project, recorded, reports, told, absent, blind, changes>>

\* record_audit_report: the file, then the record that names it.
WriteReport ==
    /\ audit.pc = "writing" /\ reports' = reports + 1
    /\ audit' = [audit EXCEPT !.pc = "recording"]
    /\ UNCHANGED <<project, recorded, told, absent, blind, changes>>

\* Slip: the operator is told first.
RecordedAtNotify == recorded' = recorded

Recorded == recorded' = Append(recorded, Ok)

Record ==
    /\ audit.pc = "recording" /\ Recorded
    /\ audit' = [audit EXCEPT !.pc = "telling"]
    /\ UNCHANGED <<project, reports, told, absent, blind, changes>>

\* The lease is contended or the disk is full: the command ends with an error.
RecordFails ==
    /\ audit.pc \in {"writing", "recording"}
    /\ audit' = [audit EXCEPT !.pc = "ended", !.status = "error"]
    /\ UNCHANGED <<project, recorded, reports, told, absent, blind, changes>>

\* _try_notify_project_ready, _try_notify_audit_failed
Notify ==
    /\ audit.pc = "telling"
    /\ LET status == IF Ok THEN "ready" ELSE "audit_failed" IN
       audit' = [audit EXCEPT !.pc = "ended", !.status = status] /\ Tell(status)
    /\ UNCHANGED <<project, recorded, reports, absent, blind, changes>>

-----------------------------------------------------------------------------
\* A commit, a task that is queued or rolled back, an edit in the worktree.
ChangeOutside ==
    /\ changes < MaxChanges /\ changes' = changes + 1
    /\ \E k \in All : Becomes((project \ {k}) \cup ({k} \ project))
    /\ UNCHANGED <<audit, recorded, reports, told, blind>>

-----------------------------------------------------------------------------
AuditNext ==
    \/ Blocked \/ Unblocked \/ Inspect \/ RunCheck \/ Report
    \/ WriteReport \/ Record \/ RecordFails \/ Notify \/ ChangeOutside

AuditSpec == AuditInit /\ [][AuditNext]_auditVars

-----------------------------------------------------------------------------
(* A project is announced ready only after an audit with a record that says   *)
(* so, with at least one check, none of which failed, and only if it was free *)
(* of every defect and of every open task at some time of the audit: what is  *)
(* wrong all along is found.  (Not all at the same time: the audit has no     *)
(* lease.)  What a failed git command, an analyzer with nothing to read or an *)
(* optional one that is missing hides is the exception.                       *)
HandoffIsEarned ==
    "ready" \in told \/ audit.status = "ready" =>
        /\ Len(recorded) = 1 /\ recorded[1] /\ reports = 1
        /\ audit.checks > 0 /\ audit.ran = audit.checks
        /\ absent \cup blind = All

-----------------------------------------------------------------------------
Audits ==
    [pc : {"status", "inspecting", "writing", "recording", "telling", "ended"},
     at : 1..(Len(Kinds) + 1), checks : Nat, ran : Nat,
     findings : SUBSET (ToSet(Kinds) \cup {"unavailable", "check_failed", "no_checks"}),
     required : BOOLEAN,
     status : {"none", "error", "ready", "audit_failed"} \cup ToSet(Blockers)]

AuditTypeOK ==
    /\ project \in SUBSET All /\ absent \in SUBSET All
    /\ audit \in Audits
    /\ recorded \in Seq(BOOLEAN) /\ reports \in Nat
    /\ told \in SUBSET ({"ready", "audit_failed"} \cup ToSet(Blockers))
    /\ blind \in SUBSET ToSet(Kinds)

\* What the project is free of now, it was free of at some time.
AbsentIsSeen == All \ project \subseteq absent

\* A handoff that goes on found no blocking state; and what was inspected and
\* is not among the findings was absent, or could not be seen.
InspectedOrAbsent ==
    /\ audit.pc \notin {"status", "ended"} => ToSet(Blockers) \subseteq absent
    /\ Ok /\ audit.pc # "ended" => \A i \in 1..(audit.at - 1) : Kinds[i] \in absent \cup blind

\* The report is written when everything was inspected, and recorded once.
RecordFollows ==
    /\ audit.ran <= audit.checks
    /\ audit.pc = "status" => audit.at = 1
    /\ audit.pc \in {"writing", "recording", "telling"} =>
          /\ audit.at = Len(Kinds) + 1 /\ audit.ran = audit.checks
          /\ Ok => audit.checks > 0
    /\ audit.pc \in {"status", "inspecting", "writing"} => recorded = <<>> /\ reports = 0
    /\ audit.pc = "recording" => recorded = <<>> /\ reports = 1
    /\ audit.pc = "telling" => recorded = <<Ok>> /\ reports = 1
    /\ "ready" \in told => audit.status = "ready"
    /\ audit.status = "ready" => audit.pc = "ended"

(* What makes HandoffIsEarned inductive.                                      *)
AuditInvariant == AbsentIsSeen /\ InspectedOrAbsent /\ RecordFollows /\ HandoffIsEarned
=============================================================================
