---------------------------- MODULE DesktopWindow ----------------------------
(***************************************************************************)
(* The desktop window (gui.py, HohDesktopApp).  Tk runs the handlers one    *)
(* after the other on the main thread; work that takes time is handed to an *)
(* executor, and a poll on the main thread hands its result to a callback.  *)
(*                                                                          *)
(* Work is a closure: it looks at the path field or at the loaded project   *)
(* when it starts, not when it was asked for.  Results arrive in any order. *)
(* The operator can type into the field at any time; every reload loads     *)
(* what is in it, and none is asked for while it is empty.                  *)
(***************************************************************************)
EXTENDS Naturals, Sequences, FiniteSets, SequencesExt

CONSTANTS
    Projects,
    NoProject,
    Here,         \* the directory the window was started in, if a project: Path("")
    Threads,      \* max_workers of the executor
    MaxClicks,    \* bound: what the operator asks for
    MaxDisturbances   \* bound: changes made outside the window

ASSUME WindowConstants == NoProject \notin Projects /\ Here \in Projects \cup {NoProject}

VARIABLES
    entry,      \* project_var: the path in the field; NoProject: none
    typed,      \* it was typed into since a project was last shown
    snapshot,   \* the loaded project, and whether its roles were ready then
    ready,      \* per project: roles are saved and an agent can serve each
    jobs,       \* what was handed to the executor and is not shown yet, in order
    launched,   \* commands of the core that were started: kind, project, ready
    unread,     \* a load failed
    clicks, disturbances, closed

windowVars == <<entry, typed, snapshot, ready, jobs, launched, unread, clicks, disturbances, closed>>

\* What clicks and results leave as it is.
bounds  == <<clicks, disturbances, closed>>
unasked == <<unread, clicks, disturbances, closed>>

-----------------------------------------------------------------------------
NothingLoaded == [root |-> NoProject, ready |-> FALSE]

Loaded == snapshot.root # NoProject

\* `at` is "queued", "running" or "done"; work that was cancelled stays queued.
Job(kind) == [kind |-> kind, at |-> "queued", ok |-> TRUE, found |-> NothingLoaded]

RunKinds == {"run", "check"}

\* The last project of the settings is loaded by itself.
WindowInit ==
    /\ entry \in Projects \cup {NoProject} /\ snapshot = NothingLoaded
    /\ ready \in [Projects -> BOOLEAN]
    /\ jobs = IF entry = NoProject THEN <<>> ELSE <<Job("load")>>
    /\ launched = {} /\ typed = FALSE /\ unread = FALSE
    /\ clicks = 0 /\ disturbances = 0 /\ closed = FALSE

\* _background
Submit(kind) == jobs' = Append(jobs, Job(kind))

\* load_project: an empty field is refused.
Reloaded(js) == IF entry = NoProject THEN js ELSE Append(js, Job("load"))

Click == ~closed /\ clicks < MaxClicks /\ clicks' = clicks + 1
         /\ UNCHANGED <<unread, disturbances, closed>>

-----------------------------------------------------------------------------
(***************************************************************************)
(* What the operator asks for.                                             *)
(***************************************************************************)
\* browse_project, open_selected_workspace_project
OpenProject ==
    /\ Click
    /\ \E p \in Projects : entry' = p
    /\ Submit("load")
    /\ UNCHANGED <<typed, snapshot, ready, launched>>

\* The field is an ordinary one.
Type ==
    /\ Click
    /\ \E p \in Projects \cup {NoProject} : entry' = p
    /\ typed' = TRUE
    /\ UNCHANGED <<snapshot, ready, jobs, launched>>

\* The button beside it, and the one that refreshes the catalog.
LoadProject ==
    /\ Click
    /\ jobs' = Reloaded(jobs)
    /\ UNCHANGED <<entry, typed, snapshot, ready, launched>>

\* run_next and run_all, role checks and chat turns need roles that were ready
\* when the project was loaded.
RunOperation ==
    /\ Click /\ Loaded /\ snapshot.ready
    /\ \E kind \in {"run", "check"} : Submit(kind)
    /\ UNCHANGED <<entry, typed, snapshot, ready, launched>>

\* Status, history, retry, recovery and audit do not.
OtherOperation ==
    /\ Click /\ Loaded
    /\ Submit("command")
    /\ UNCHANGED <<entry, typed, snapshot, ready, launched>>

SendChatMessage ==
    /\ Click /\ Loaded /\ snapshot.ready
    /\ Submit("chat")
    /\ UNCHANGED <<entry, typed, snapshot, ready, launched>>

CreateChatPlan ==
    /\ Click /\ Loaded /\ snapshot.ready
    /\ Submit("plan")
    /\ UNCHANGED <<entry, typed, snapshot, ready, launched>>

\* The forms are saved at once, to the loaded project; save_project_roles
\* refuses roles that cannot be served.
SaveProjectRoles ==
    /\ Click /\ Loaded
    /\ ready' = [ready EXCEPT ![snapshot.root] = TRUE]
    /\ jobs' = Reloaded(jobs)
    /\ UNCHANGED <<entry, typed, snapshot, launched>>

PrepareTeam ==
    /\ Click /\ Loaded
    /\ Submit("team")
    /\ UNCHANGED <<entry, typed, snapshot, ready, launched>>

\* Installing or removing a managed agent.
ManageSelectedAgent ==
    /\ Click
    /\ Submit("agent")
    /\ UNCHANGED <<entry, typed, snapshot, ready, launched>>

\* Pending work is dropped, running work goes on; no result is shown.
Close ==
    /\ ~closed /\ closed' = TRUE
    /\ UNCHANGED <<entry, typed, snapshot, ready, jobs, launched, unread, clicks, disturbances>>

-----------------------------------------------------------------------------
(***************************************************************************)
(* The executor.                                                           *)
(***************************************************************************)
With(i, at, ok, found) == jobs' = [jobs EXCEPT ![i].at = at, ![i].ok = ok, ![i].found = found]

Now(p) == [root |-> p, ready |-> ready[p]]

\* Slip: pending work is started after the window was closed.
CanStartClosing(i) ==
    /\ jobs[i].at = "queued" /\ \A k \in 1..(i - 1) : jobs[k].at # "queued"
    /\ Cardinality({k \in DOMAIN jobs : jobs[k].at = "running"}) < Threads

\* In order of submission, on a free thread.
CanStart(i) ==
    /\ ~closed
    /\ jobs[i].at = "queued" /\ \A k \in 1..(i - 1) : jobs[k].at # "queued"
    /\ Cardinality({k \in DOMAIN jobs : jobs[k].at = "running"}) < Threads

\* What an empty path is, once it is taken for a directory.
Named == IF entry = NoProject THEN Here ELSE entry

\* load_project_snapshot of the path that is in the field by now.
StartLoad(i) ==
    /\ jobs[i].kind = "load" /\ CanStart(i)
    /\ IF Named = NoProject THEN With(i, "running", FALSE, NothingLoaded) ELSE With(i, "running", TRUE, Now(Named))
    /\ UNCHANGED <<entry, typed, snapshot, ready, launched>> /\ UNCHANGED unasked

\* Slip: what the window saw when it was asked is trusted.
ServedLoaded(p) == snapshot.ready

\* _validate_saved_role_profile
Served(p) == ready[p]

\* run_gui_command on the project that is loaded by now.  A run is launched
\* only if its roles can be served; others need no roles.
StartCommand(i) ==
    LET p == snapshot.root
        launches == jobs[i].kind # "run" \/ Served(p)
    IN /\ jobs[i].kind \in RunKinds \cup {"command"} /\ CanStart(i)
       /\ With(i, "running", launches, NothingLoaded)
       /\ launched' = IF launches
                      THEN launched \cup {[kind |-> jobs[i].kind, root |-> p, ready |-> ready[p]]} ELSE launched
       /\ UNCHANGED <<entry, typed, snapshot, ready>> /\ UNCHANGED unasked

\* The doctor, a chat turn, a plan, an installation.
StartWork(i) ==
    /\ jobs[i].kind \in {"doctor", "chat", "plan", "team", "agent"} /\ CanStart(i)
    /\ With(i, "running", TRUE, NothingLoaded)
    /\ UNCHANGED <<entry, typed, snapshot, ready, launched>> /\ UNCHANGED unasked

Finish(i) ==
    /\ jobs[i].at = "running"
    /\ \E ok \in {jobs[i].ok, FALSE} : With(i, "done", ok, IF ok THEN jobs[i].found ELSE NothingLoaded)
    /\ UNCHANGED <<entry, typed, snapshot, ready, launched>> /\ UNCHANGED unasked

-----------------------------------------------------------------------------
(***************************************************************************)
(* The results, on the main thread.                                        *)
(***************************************************************************)
Delivers(i) == ~closed /\ jobs[i].at = "done"

Delivered(i) == RemoveAt(jobs, i)

\* Slip: the field is left as it is.
ShowSnapshotOnly(i) == snapshot' = jobs[i].found /\ UNCHANGED entry /\ typed' = FALSE

\* _project_loaded: the window shows what was loaded, whatever is in the field.
ShowSnapshot(i) == snapshot' = jobs[i].found /\ entry' = jobs[i].found.root /\ typed' = FALSE

ProjectLoaded(i) ==
    /\ Delivers(i) /\ jobs[i].kind = "load" /\ jobs[i].ok
    /\ ShowSnapshot(i)
    /\ jobs' = Append(Delivered(i), Job("doctor"))
    /\ UNCHANGED <<ready, launched>> /\ UNCHANGED unasked

\* _command_finished, _chat_plan_created, _agent_action_finished
ThenReload(i) ==
    /\ Delivers(i) /\ jobs[i].ok /\ jobs[i].kind \in RunKinds \cup {"command", "plan", "agent"}
    /\ jobs' = IF Loaded THEN Reloaded(Delivered(i)) ELSE Delivered(i)
    /\ UNCHANGED <<entry, typed, snapshot, ready, launched>> /\ UNCHANGED unasked

\* _team_prepared: the roles of the preset are saved to the project that is
\* loaded by now.
TeamPrepared(i) ==
    /\ Delivers(i) /\ jobs[i].ok /\ jobs[i].kind = "team"
    /\ \/ ready' = [ready EXCEPT ![snapshot.root] = TRUE] /\ jobs' = Reloaded(Delivered(i))
       \/ UNCHANGED ready /\ jobs' = Delivered(i)
    /\ UNCHANGED <<entry, typed, snapshot, launched>> /\ UNCHANGED unasked

\* A readiness line, a chat history or an error message.
ShowResult(i) ==
    /\ Delivers(i) /\ (~jobs[i].ok \/ jobs[i].kind \in {"doctor", "chat"})
    /\ jobs' = Delivered(i)
    /\ unread' = (unread \/ jobs[i].kind = "load")
    /\ UNCHANGED <<entry, typed, snapshot, ready, launched>> /\ UNCHANGED bounds

\* Another process edits a project's files, or an agent disappears.
ChangeProject ==
    /\ disturbances < MaxDisturbances /\ disturbances' = disturbances + 1
    /\ \E p \in Projects : ready' = [ready EXCEPT ![p] = ~@]
    /\ UNCHANGED <<entry, typed, snapshot, jobs, launched, unread, clicks, closed>>

-----------------------------------------------------------------------------
Operator ==
    \/ OpenProject \/ Type \/ LoadProject \/ RunOperation \/ OtherOperation \/ SendChatMessage \/ CreateChatPlan
    \/ SaveProjectRoles \/ PrepareTeam \/ ManageSelectedAgent \/ Close

Background ==
    \E i \in DOMAIN jobs :
        \/ StartLoad(i) \/ StartCommand(i) \/ StartWork(i) \/ Finish(i)
        \/ ProjectLoaded(i) \/ ThenReload(i) \/ TeamPrepared(i) \/ ShowResult(i)

WindowNext == Operator \/ Background \/ ChangeProject

WindowSpec == WindowInit /\ [][WindowNext]_windowVars

-----------------------------------------------------------------------------
(* When nothing is under way, every load succeeded and nobody typed into the  *)
(* field since, it names the project that is shown, in whatever order loads  *)
(* of several projects, and the reloads after commands, started and came     *)
(* back: the next reload does not change the project.                        *)
WindowAgrees == jobs = <<>> /\ ~unread /\ ~typed => entry = snapshot.root

(* A run starts only on a project whose roles can be served when it starts,   *)
(* though the operator confirmed it for what was loaded at that time.        *)
RunsAreServed == \A l \in launched : l.kind = "run" => l.ready

(* After the window was closed no further work starts.                       *)
NothingStartsAfterClose ==
    [][closed => \A i \in DOMAIN jobs : jobs'[i].at = "running" => jobs[i].at = "running"]_windowVars

(* gui.py: the window shows one project, runs what can be served, and starts *)
(* nothing after it was closed.                                              *)
WindowActsForItsProject == [](WindowAgrees /\ RunsAreServed) /\ NothingStartsAfterClose
=============================================================================
