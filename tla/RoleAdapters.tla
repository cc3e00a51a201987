---------------------------- MODULE RoleAdapters ----------------------------
(***************************************************************************)
(* One call of a role through an adapter that starts a process or asks a    *)
(* model: worker_adapters.py, command_worker.py, process_worker.py,         *)
(* provider_workers.py, hermes.py, critic_adapters.py,                      *)
(* supervisor_adapters.py, model_runtime.py and model_providers.py.  (ACP   *)
(* and A2A have modules of their own.)                                      *)
(*                                                                          *)
(* The process may fail to start, hang, exit and say anything.  It may leave *)
(* children behind: they hold its output or have redirected their own, and  *)
(* the signal to the process group ends them or not.  The provider may       *)
(* refuse a request, answer it, or do the work while the answer is lost.    *)
(***************************************************************************)
EXTENDS Naturals, Sequences, FiniteSets

CONSTANTS
    MaxRetries    \* endpoint.max_retries

ASSUME AdapterConstants == MaxRetries \in Nat

VARIABLES
    call,      \* role, driver, step, the result and the decision it carries
    proc,      \* the agent's process, its children that live, by kind, what it said
    disk,      \* temporary files and directories of the call
    provider   \* requests sent, those it did the work for, answers that were lost

adapterVars == <<call, proc, disk, provider>>

-----------------------------------------------------------------------------
\* create_worker_adapter, create_critic_adapter, create_supervisor_adapter; the
\* semantic verifier is always a model.
Adapters ==
    ({"worker"} \X {"command", "process", "claude_code", "openclaw", "hermes"})
      \cup ({"critic"} \X {"command_json", "claude_code", "model_json"})
      \cup ({"supervisor"} \X {"command_json", "model_json"})
      \cup ({"verifier"} \X {"model_json"})

OnAttemptBranch == {"claude_code", "openclaw", "hermes"}

\* Temporary files in the order they are written; a process profile may pass
\* its prompt on the standard input.  A Critic and a Supervisor run in an empty
\* directory.
Needs(role, driver) ==
    CASE driver = "process" -> {<<>>, <<"prompt">>}
      [] driver = "openclaw" -> {<<"config", "message">>}
      [] role # "worker" /\ driver # "model_json" -> {<<"cwd">>}
      [] OTHER -> {<<>>}

NoAnswer == [decision |-> "none", brief |-> FALSE, escalation |-> FALSE]

\* A judgment, a project specification, a verification; "other" is none of these.
Answers(role) ==
    LET plain(names) == {[NoAnswer EXCEPT !.decision = n] : n \in names} IN
    CASE role = "worker" -> {NoAnswer}
      [] role = "critic" -> [decision : {"approve", "reject", "escalate", "other"},
                             brief : BOOLEAN, escalation : BOOLEAN]
      [] role = "supervisor" -> plain({"spec", "other"})
      [] role = "verifier" -> plain({"pass", "fail", "escalate", "other"})

\* Only these have a way to report an error with exit code 0.
Reports == {"claude_code", "openclaw", "hermes"}

MaySay(role, driver) ==
    [zero : BOOLEAN, json : BOOLEAN, failed : IF driver \in Reports THEN BOOLEAN ELSE {FALSE},
     answer : Answers(role)]

\* A child holds the output of the agent, or has redirected its own; it heeds
\* the signal to its group, or ignores it or has left the group.
ChildKinds == [holds : BOOLEAN, heeds : BOOLEAN]

SaidNothing == [zero |-> FALSE, json |-> FALSE, failed |-> FALSE, answer |-> NoAnswer]

AdapterInit ==
    /\ \E a \in Adapters : \E files \in Needs(a[1], a[2]) :
          call = [role |-> a[1], driver |-> a[2], needs |-> files, pc |-> "called",
                  result |-> "none", decision |-> "none", full |-> FALSE]
    /\ proc = [at |-> "none", children |-> {}, said |-> SaidNothing]
    /\ disk = {}
    /\ provider = [asked |-> 0, served |-> 0, lost |-> 0]

-----------------------------------------------------------------------------
(***************************************************************************)
(* How a call ends.                                                        *)
(***************************************************************************)
\* _validate_judgment
ValidJudgment(a) ==
    CASE a.decision = "approve"  -> ~a.brief /\ ~a.escalation
      [] a.decision = "reject"   -> a.brief /\ ~a.escalation
      [] a.decision = "escalate" -> ~a.brief /\ a.escalation
      [] OTHER -> FALSE

\* build_critic_decision, _validate_project_spec_shape, ModelSemanticVerifier.verify
Fits(answer) ==
    CASE call.role = "worker" -> TRUE
      [] call.role = "critic" -> ValidJudgment(answer)
      [] OTHER -> answer.decision # "other"

CallEnds(result, decision) ==
    call' = [call EXCEPT !.pc = "ended", !.result = result, !.decision = decision]

CallFails == CallEnds("error", "none")

Succeeds(answer) == IF Fits(answer) THEN CallEnds("ok", answer.decision) ELSE CallFails

-----------------------------------------------------------------------------
(***************************************************************************)
(* Before the process.                                                     *)
(***************************************************************************)
\* _attempt_isolation_error: the branch is no attempt, or git fails.
NotIsolated ==
    /\ call.pc = "called" /\ call.driver \in OnAttemptBranch /\ call.role = "worker"
    /\ CallFails
    /\ UNCHANGED <<proc, disk, provider>>

PrepareCall ==
    /\ call.pc = "called" /\ call.driver # "model_json"
    /\ call' = [call EXCEPT !.pc = "writing"]
    /\ UNCHANGED <<proc, disk, provider>>

\* _temporary_prompt, _temporary_text, TemporaryDirectory.
WriteFile ==
    /\ call.pc = "writing" /\ call.needs # <<>>
    /\ disk' = disk \cup {Head(call.needs)}
    /\ call' = [call EXCEPT !.needs = Tail(@)]
    /\ UNCHANGED <<proc, provider>>

\* The disk is full: the file may be there, it is not removed, and the adapter
\* does not catch the error; a directory is not there and the error is caught.
WriteFails ==
    /\ call.pc = "writing" /\ call.needs # <<>>
    /\ IF Head(call.needs) = "cwd"
       THEN CallFails /\ UNCHANGED disk
       ELSE /\ call' = [call EXCEPT !.pc = "ended", !.result = "raised", !.full = TRUE]
            /\ disk' \in {disk, disk \cup {Head(call.needs)}}
    /\ UNCHANGED <<proc, provider>>

StartProcess ==
    /\ call.pc = "writing" /\ call.needs = <<>>
    /\ call' = [call EXCEPT !.pc = "waiting"]
    /\ proc' = [proc EXCEPT !.at = "running"]
    /\ UNCHANGED <<disk, provider>>

\* The finally clause, or the end of the with block.
CleanedUp == disk' = {}

\* An executable that is missing, arguments that are not valid.
StartFails ==
    /\ call.pc = "writing" /\ call.needs = <<>>
    /\ CallFails /\ CleanedUp
    /\ UNCHANGED <<proc, provider>>

-----------------------------------------------------------------------------
(***************************************************************************)
(* The process of the agent.                                               *)
(***************************************************************************)
ProcessSpawns ==
    /\ proc.at = "running"
    /\ \E kind \in ChildKinds : proc' = [proc EXCEPT !.children = @ \cup {kind}]
    /\ UNCHANGED <<call, disk, provider>>

ChildEnds ==
    /\ \E kind \in proc.children : proc' = [proc EXCEPT !.children = @ \ {kind}]
    /\ UNCHANGED <<call, disk, provider>>

ProcessExits ==
    /\ proc.at = "running"
    /\ \E said \in IF call.driver = "hermes" THEN {proc.said} ELSE MaySay(call.role, call.driver) :
          proc' = [proc EXCEPT !.at = "exited", !.said = said]
    /\ UNCHANGED <<call, disk, provider>>

\* An ACP agent says how the turn ended, and may run on.
ProcessSays ==
    /\ proc.at = "running" /\ call.driver = "hermes" /\ proc.said = SaidNothing
    /\ \E failed \in BOOLEAN :
          proc' = [proc EXCEPT !.said = [SaidNothing EXCEPT !.zero = TRUE, !.json = TRUE, !.failed = failed]]
    /\ UNCHANGED <<call, disk, provider>>

-----------------------------------------------------------------------------
(***************************************************************************)
(* After the process.                                                      *)
(***************************************************************************)
\* Slip: it waits for the process it started.
CompletedAlone ==
    proc.at = "exited" \/ (call.driver = "hermes" /\ proc.said.json)

\* subprocess.run reads the output to its end, so it waits for every process
\* that holds it, and for no other.
Completed ==
    IF call.driver = "hermes" THEN proc.said.json \/ proc.at = "exited"
    ELSE proc.at = "exited" /\ \A kind \in proc.children : ~kind.holds

Deaf(children) == {kind \in children : ~kind.heeds}

\* terminate_process_tree: SIGTERM for the group, and SIGKILL, which ends more
\* of it, only if the launcher itself stays.  A launcher that has exited is
\* left alone with its children.
TreeTerminated ==
    IF call.driver = "hermes" /\ proc.at = "running"
    THEN \E left \in SUBSET Deaf(proc.children) :
            proc' = [proc EXCEPT !.at = "killed", !.children = left]
    ELSE UNCHANGED proc

\* subprocess.run kills the process it started and nothing else.
Killed ==
    IF call.driver # "hermes" /\ proc.at = "running" THEN proc' = [proc EXCEPT !.at = "killed"]
    ELSE TreeTerminated

\* Slip: an envelope is not looked at when the exit code is 0.
AcceptedByCode(said) == said.zero

\* run_job, review and plan on what the process said: JSON is required where
\* the adapter reads the output.
Accepted(said) ==
    /\ said.zero /\ ~said.failed
    /\ call.driver \in {"command", "process"} \/ said.json

Read ==
    /\ call.pc = "waiting" /\ Completed
    /\ IF Accepted(proc.said) THEN Succeeds(proc.said.answer) ELSE CallFails
    /\ TreeTerminated
    /\ CleanedUp
    /\ UNCHANGED provider

\* The process hangs, or has exited and a child holds its output.
CallTimeout ==
    /\ call.pc = "waiting" /\ ~Completed
    /\ CallFails
    /\ Killed
    /\ CleanedUp
    /\ UNCHANGED provider

-----------------------------------------------------------------------------
(***************************************************************************)
(* A model: JsonHttpsModelProvider.invoke.                                 *)
(***************************************************************************)
\* The offline stub, no credential, or an address that is not allowed.
NotConfigured ==
    /\ call.pc = "called" /\ call.driver = "model_json"
    /\ CallFails
    /\ UNCHANGED <<proc, disk, provider>>

AskModel ==
    /\ call.pc = "called" /\ call.driver = "model_json"
    /\ call' = [call EXCEPT !.pc = "asked"]
    /\ provider' = [provider EXCEPT !.asked = @ + 1]
    /\ UNCHANGED <<proc, disk>>

Again == IF provider.asked > MaxRetries THEN CallFails ELSE call' = [call EXCEPT !.pc = "called"]

\* 408, 429 and 5xx that are not about a quota, a timeout, no connection; the
\* provider may have done the work.
NoUsableAnswer ==
    /\ call.pc = "asked"
    /\ \/ UNCHANGED provider
       \/ provider' = [provider EXCEPT !.served = @ + 1, !.lost = @ + 1]
    /\ Again
    /\ UNCHANGED <<proc, disk>>

\* 401, 402, 403, a quota, any other code.
RefusedForGood ==
    /\ call.pc = "asked"
    /\ CallFails
    /\ UNCHANGED <<proc, disk, provider>>

\* Slip: an answer that cannot be used is asked for again.
TakeOrAskAgain(json, answer) == IF json THEN Succeeds(answer) ELSE Again

\* _parse_response: what is no structured object is not asked for again.
Take(json, answer) == IF json THEN Succeeds(answer) ELSE CallFails

Answered ==
    /\ call.pc = "asked"
    /\ provider' = [provider EXCEPT !.served = @ + 1]
    /\ \E json \in BOOLEAN, answer \in Answers(call.role) :
          /\ Take(json, answer)
          /\ proc' = [proc EXCEPT !.said = [zero |-> TRUE, json |-> json, failed |-> FALSE, answer |-> answer]]
    /\ UNCHANGED disk

-----------------------------------------------------------------------------
ProcessCall ==
    NotIsolated \/ PrepareCall \/ WriteFile \/ WriteFails \/ StartProcess \/ StartFails \/ Read \/ CallTimeout

ProcessStep == ProcessSpawns \/ ChildEnds \/ ProcessExits \/ ProcessSays

ModelCall == NotConfigured \/ AskModel \/ NoUsableAnswer \/ RefusedForGood \/ Answered

AdapterNext == ProcessCall \/ ProcessStep \/ ModelCall

AdapterSpec == AdapterInit /\ [][AdapterNext]_adapterVars

-----------------------------------------------------------------------------
(* A call succeeds only with what the agent said last, said without an error, *)
(* and carries the agent's own decision; an approval comes with no request    *)
(* for a correction.  What HoH killed never succeeds, but for an ACP agent    *)
(* that had ended its turn.                                                  *)
SuccessIsEarned ==
    call.result = "ok" =>
        /\ proc.said.zero /\ ~proc.said.failed /\ call.decision = proc.said.answer.decision
        /\ call.decision = "approve" => ~proc.said.answer.brief /\ ~proc.said.answer.escalation
        /\ proc.at = "killed" => call.driver = "hermes"

(* When a call has ended, its process is gone and no temporary file remains,  *)
(* unless the disk was full.  When it succeeded, so that the diff of the      *)
(* worktree is taken next, a child that can still write to it has redirected  *)
(* its output; under Hermes it does not heed the signal, or its launcher had  *)
(* exited before.                                                            *)
NothingLeftBehind ==
    call.pc = "ended" =>
        /\ proc.at # "running"
        /\ call.full \/ disk = {}
        /\ call.result = "ok" =>
             \A kind \in proc.children :
                IF call.driver = "hermes" THEN kind.heeds => proc.at = "exited" ELSE ~kind.holds

(* A model does the work of a call once, and again only for an answer that    *)
(* was lost, and never more often than the retries allow.                    *)
ServedOnce ==
    /\ provider.served <= provider.lost + 1
    /\ provider.asked <= MaxRetries + 1

(* A call succeeds with what the agent said, leaves behind only what it       *)
(* cannot wait for or reach, and pays a model once.                           *)
CallsAreClean == SuccessIsEarned /\ NothingLeftBehind /\ ServedOnce
=============================================================================
