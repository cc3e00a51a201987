----------------------------- MODULE MCOperator -----------------------------
(* What the operator sees and decides: the window and the settings, the      *)
(* journal and the metrics, the rollback of a closed task, the final audit.  *)
(* They share no state here, so one run explores each by itself: `part` is   *)
(* the one that moves.                                                       *)
EXTENDS Rollback, JournalFiles, FinalAudit, ProjectSettings, DesktopWindow, TLC

CONSTANTS home, away, a1, a2, p1, p2, base, above, o1, o2

VARIABLE part

-----------------------------------------------------------------------------
(* An agent of harness.json, and one the registry has too. *)
MCDefault == "codex" :> <<"acp">> @@ "r" :> <<>>

(* Two tasks, the second depending on the first. *)
MCDependsOn == base :> {} @@ above :> {base}

-----------------------------------------------------------------------------
(* The parts at rest have one initial state each. *)
OperatorInit ==
    /\ part \in {"window", "settings", "journal", "rollback", "audit"}
    /\ WindowInit
    /\ (part # "window" => entry = NoProject /\ \A r \in Projects : ~ready[r])
    /\ SettingsInit /\ (part # "settings" => found = {})
    /\ JournalInit
    /\ Init /\ (part # "rollback" => history = <<>>)
    /\ AuditInit
    /\ (part # "audit" => project = {} /\ audit.checks = 0 /\ ~audit.required)

InWindow   == part = "window" /\ WindowNext
InSettings == part = "settings" /\ SettingsNext
InJournal  == part = "journal" /\ JournalNext
InRollback == part = "rollback" /\ Next
InAudit    == part = "audit" /\ AuditNext

OperatorNext ==
    /\ InWindow \/ (part # "window" /\ UNCHANGED windowVars)
    /\ InSettings \/ (part # "settings" /\ UNCHANGED settingsVars)
    /\ InJournal \/ (part # "journal" /\ UNCHANGED journalVars)
    /\ InRollback \/ (part # "rollback" /\ UNCHANGED vars)
    /\ InAudit \/ (part # "audit" /\ UNCHANGED auditVars)
    /\ UNCHANGED part

OperatorSpec == OperatorInit /\ [][OperatorNext]_<<part, windowVars, settingsVars, journalVars, vars, auditVars>>

(* Of a rollback, processes and operation ids are interchangeable; no other  *)
(* part knows them.                                                          *)
Symmetric == Permutations({p1, p2}) \cup Permutations({o1, o2})
=============================================================================
