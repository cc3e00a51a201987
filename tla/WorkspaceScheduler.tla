------------------------- MODULE WorkspaceScheduler -------------------------
(***************************************************************************)
(* The workspace registry (workspace.py), the runs of due projects          *)
(* (background_scheduler.py), and what the headless server and the          *)
(* workspace command do with both.                                          *)
(*                                                                          *)
(* A change of the registry is one step: read and written under its lease.  *)
(* A scheduler reads the due projects once, without the lease, and then     *)
(* runs them one after the other; an operator changes the registry          *)
(* meanwhile.  A run is a queue-run-loop process of its own (QueueRunLoop). *)
(***************************************************************************)
EXTENDS Integers, Sequences, FiniteSets

CONSTANTS
    Projects,     \* Git roots, numbered in the order of the registry
    Schedulers,   \* processes or threads that run due projects, or one project
    Intervals,    \* interval_minutes an operator may choose, each at least 1
    LastMinute,   \* bound: the clock
    MaxChoices    \* bound: changes made by operators

ASSUME WorkspaceConstants ==
    /\ Projects \in SUBSET Nat /\ IsFiniteSet(Projects)
    /\ Intervals \in SUBSET Nat /\ 0 \notin Intervals
    /\ LastMinute \in Nat /\ MaxChoices \in Nat

VARIABLES
    registry,   \* workspace-v1.json: what is stored of each project
    now,        \* the clock, in minutes
    scheduler,  \* per scheduler: where it is and the projects it still has to run
    choices,    \* changes operators have made
    chosen      \* what they chose last for each project

workspaceVars == <<registry, now, scheduler, choices, chosen>>

-----------------------------------------------------------------------------
Never == -1   \* no next_run_at_utc

\* ProjectSchedule, the fields that decide whether and when.
Disabled == [enabled |-> FALSE, interval |-> 60]

Unregistered == [registered |-> FALSE, schedule |-> Disabled, next |-> Never, last |-> "none"]

IdleScheduler == [pc |-> "idle", todo |-> <<>>, snapshot |-> Unregistered, outcome |-> "none"]

Entries == [registered: BOOLEAN, schedule: [enabled: BOOLEAN, interval: Intervals \cup {60}],
            next: Nat \cup {Never}, last: {"none", "reported", "launch_failed"}]

SchedulerStates == [pc: {"idle", "next", "running", "record"}, todo: Seq(Projects),
                    snapshot: Entries, outcome: {"none", "reported", "launch_failed"}]

WorkspaceTypes ==
    /\ registry \in [Projects -> Entries] /\ chosen \in [Projects -> Entries]
    /\ now \in Nat /\ choices \in Nat
    /\ scheduler \in [Schedulers -> SchedulerStates]

WorkspaceInit ==
    /\ registry = [p \in Projects |-> Unregistered]
    /\ now = 0
    /\ scheduler = [s \in Schedulers |-> IdleScheduler]
    /\ choices = 0
    /\ chosen = registry

Known(p) == registry[p].registered

Choose(p, entry) ==
    /\ choices < MaxChoices
    /\ choices' = choices + 1
    /\ registry' = [registry EXCEPT ![p] = entry]
    /\ chosen' = [chosen EXCEPT ![p] = entry]
    /\ UNCHANGED <<now, scheduler>>

-----------------------------------------------------------------------------
\* A root that is known keeps everything but its name.
Register(p) == ~Known(p) /\ Choose(p, [Unregistered EXCEPT !.registered = TRUE])

RemoveProject(p) == Known(p) /\ Choose(p, Unregistered)

ConfigureSchedule(p) ==
    /\ Known(p)
    /\ \E enabled, immediately \in BOOLEAN : \E interval \in Intervals :
          Choose(p, [registry[p] EXCEPT
              !.schedule = [enabled |-> enabled, interval |-> interval],
              !.next = IF ~enabled THEN Never
                       ELSE IF immediately THEN now ELSE now + interval])

-----------------------------------------------------------------------------
IsDue(p) ==
    /\ Known(p) /\ registry[p].schedule.enabled
    /\ registry[p].next # Never /\ registry[p].next <= now

\* In the order of the registry.
InOrder(S) ==
    CHOOSE list \in [1..Cardinality(S) -> S] :
       \A i, j \in DOMAIN list : i < j => list[i] < list[j]

\* run_due_projects: the snapshot of due projects.
ReadDue(s) ==
    /\ scheduler[s].pc = "idle"
    /\ \E p \in Projects : IsDue(p)
    /\ scheduler' = [scheduler EXCEPT ![s].pc = "next",
                       ![s].todo = InOrder({p \in Projects : IsDue(p)})]
    /\ UNCHANGED <<registry, now, choices, chosen>>

\* POST /v1/projects/{id}/run: one project, due or not.
RunOnRequest(s, p) ==
    /\ scheduler[s].pc = "idle" /\ Known(p)
    /\ choices < MaxChoices /\ choices' = choices + 1
    /\ scheduler' = [scheduler EXCEPT ![s].pc = "next", ![s].todo = <<p>>]
    /\ UNCHANGED <<registry, now, chosen>>

\* run_registered_project: the queue-run-loop of one project starts.  It uses
\* the schedule as the scheduler read it.
StartRun(s) ==
    /\ scheduler[s].pc = "next" /\ scheduler[s].todo # <<>>
    /\ scheduler' = [scheduler EXCEPT ![s].pc = "running",
                       ![s].snapshot = registry[Head(scheduler[s].todo)]]
    /\ UNCHANGED <<registry, now, choices, chosen>>

\* It reports its status, or it cannot be started or is stopped after the
\* timeout; the notifications are sent, and their failures only noted.
EndRun(s) ==
    /\ scheduler[s].pc = "running"
    /\ \E outcome \in {"reported", "launch_failed"} :
          scheduler' = [scheduler EXCEPT ![s].pc = "record", ![s].outcome = outcome]
    /\ UNCHANGED <<registry, now, choices, chosen>>

Schedules(entry) == IF entry.schedule.enabled THEN now + entry.schedule.interval ELSE Never

\* Slip: the project as it was when the run began is written back.
RecordedSnapshot(s, p) ==
    [scheduler[s].snapshot EXCEPT !.next = Schedules(scheduler[s].snapshot),
                                  !.last = scheduler[s].outcome]

\* Slip: a run that could not be started stays due.
RecordedRetrying(s, p) ==
    [registry[p] EXCEPT
        !.next = IF scheduler[s].outcome = "launch_failed" THEN @ ELSE Schedules(registry[p]),
        !.last = scheduler[s].outcome]

\* record_run: the schedule is the one in the registry by now.
Recorded(s, p) ==
    [registry[p] EXCEPT !.next = Schedules(registry[p]), !.last = scheduler[s].outcome]

Record(s) ==
    LET p == Head(scheduler[s].todo)  rest == Tail(scheduler[s].todo) IN
    /\ scheduler[s].pc = "record" /\ Known(p)
    /\ registry' = [registry EXCEPT ![p] = Recorded(s, p)]
    /\ scheduler' = [scheduler EXCEPT ![s] =
                       [IdleScheduler EXCEPT !.pc = IF rest = <<>> THEN "idle" ELSE "next",
                                             !.todo = rest]]
    /\ UNCHANGED <<now, choices, chosen>>

\* A project removed during its run: the exception leaves run_due_projects,
\* and the projects after it are not run this time.  So does a registry whose
\* lease stays taken.
RecordRaises(s) ==
    /\ scheduler[s].pc = "record"
    /\ \/ ~Known(Head(scheduler[s].todo)) /\ UNCHANGED choices
       \/ choices < MaxChoices /\ choices' = choices + 1
    /\ scheduler' = [scheduler EXCEPT ![s] = IdleScheduler]
    /\ UNCHANGED <<registry, now, chosen>>

Tick ==
    /\ now < LastMinute
    /\ now' = now + 1
    /\ UNCHANGED <<registry, scheduler, choices, chosen>>

-----------------------------------------------------------------------------
Operate == \E p \in Projects : Register(p) \/ RemoveProject(p) \/ ConfigureSchedule(p)

Schedule(s) == ReadDue(s) \/ StartRun(s) \/ EndRun(s) \/ Record(s) \/ RecordRaises(s)

WorkspaceNext ==
    \/ Operate \/ Tick
    \/ \E s \in Schedulers : Schedule(s) \/ \E p \in Projects : RunOnRequest(s, p)

\* The scheduler service starts run-due again and again.
WorkspaceSpec == WorkspaceInit /\ [][WorkspaceNext]_workspaceVars
                  /\ \A s \in Schedulers : WF_workspaceVars(Schedule(s))

-----------------------------------------------------------------------------
(* What an operator chose stands, whatever runs end after it: a recorded run *)
(* neither brings back a removed project nor an earlier schedule, and an     *)
(* enabled project always has a next run.                                    *)
OperatorChoiceStands ==
    \A p \in Projects :
        /\ registry[p].registered = chosen[p].registered
        /\ registry[p].schedule = chosen[p].schedule
        /\ registry[p].schedule.enabled => registry[p].next # Never

(* A due project is run and planned anew, or taken off the schedule, however  *)
(* often a project before it in the list ends the round with an exception.   *)
DueProjectsSettle == \A p \in Projects : IsDue(p) ~> ~IsDue(p)
=============================================================================
