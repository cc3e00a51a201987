-------------------------- MODULE ProjectPlanning --------------------------
(***************************************************************************)
(* The conversation with the Supervisor (supervisor_chat.py) and the plan   *)
(* made of it or of a spec (lifecycle.py, `project-plan`).                  *)
(*                                                                          *)
(* The chat file is read before the model's turn and replaced after it; no  *)
(* lease protects it.  A plan is validated, then written file by file, and  *)
(* its tasks are enqueued in one transaction at the end.  Any process may   *)
(* stop between two writes.                                                 *)
(***************************************************************************)
EXTENDS Integers, Sequences, FiniteSets, SequencesExt

CONSTANTS
    Talkers,    \* processes or threads that send a message or clear the chat
    Planners,   \* processes that materialize a plan
    Plans,      \* plan -> its tasks in order, its roles
    KnownRoles, \* the role profiles the configuration resolves
    MaxTurns,   \* bound: messages sent
    NoRoles, NoPlan

ASSUME PlanningConstants ==
    /\ \A plan \in DOMAIN Plans : Plans[plan].tasks \in Seq(ToSet(Plans[plan].tasks))
    /\ MaxTurns \in Nat

VARIABLES
    chat,     \* supervisor-chat.json
    turns,    \* messages sent so far: their numbers
    talker,   \* per talker: where it is, its message and the history it read
    planner,  \* per planner: where it is, its plan, the files it still writes
    brief, roadmap,   \* the plan that docs/hoh/*.md describe
    profile,  \* .hoh/role-profile.json
    planFiles, \* tasks/hoh/*.json: <<position, task>>
    queued    \* queue.json: <<plan, task>> in order

planningVars == <<chat, turns, talker, planner, brief, roadmap, profile, planFiles, queued>>

chatVars == <<chat, turns, talker>>
planVars == <<planner, brief, roadmap, profile, planFiles, queued>>

-----------------------------------------------------------------------------
Silent  == [pc |-> "idle", turn |-> 0, history |-> <<>>]
NotPlanning == [pc |-> "idle", plan |-> NoPlan, todo |-> <<>>]

PlanningInit ==
    /\ chat = <<>> /\ turns = 0
    /\ talker = [t \in Talkers |-> Silent]
    /\ planner = [p \in Planners |-> NotPlanning]
    /\ brief = NoPlan /\ roadmap = NoPlan
    /\ profile = NoRoles
    /\ planFiles = {} /\ queued = <<>>

-----------------------------------------------------------------------------
(***************************************************************************)
(* The chat.                                                               *)
(***************************************************************************)
Said(role, turn) == [role |-> role, turn |-> turn]

Users(history) == {i \in DOMAIN history : history[i].role = "user"}

ReadHistory(t) ==
    /\ talker[t].pc = "idle" /\ turns < MaxTurns
    /\ turns' = turns + 1
    /\ talker' = [talker EXCEPT ![t] = [pc |-> "thinking", turn |-> turns + 1, history |-> chat]]
    /\ UNCHANGED chat /\ UNCHANGED planVars

\* Slip: the answer goes to the chat as it is by now, the message to the one read.
SaveAnswerOnly(t) ==
    /\ talker[t].pc = "thinking"
    /\ chat' = Append(IF talker[t].history = <<>> THEN <<Said("user", talker[t].turn)>> ELSE chat,
                      Said("supervisor", talker[t].turn))
    /\ talker' = [talker EXCEPT ![t] = Silent]
    /\ UNCHANGED turns /\ UNCHANGED planVars

\* The model answered in the closed shape: both messages are saved with the
\* history as it was read.
SaveTurn(t) ==
    /\ talker[t].pc = "thinking"
    /\ chat' = talker[t].history
                 \o <<Said("user", talker[t].turn), Said("supervisor", talker[t].turn)>>
    /\ talker' = [talker EXCEPT ![t] = Silent]
    /\ UNCHANGED turns /\ UNCHANGED planVars

\* The model, its driver or the shape of the answer fails, or the process
\* stops: nothing is saved.
TurnFails(t) ==
    /\ talker[t].pc = "thinking"
    /\ talker' = [talker EXCEPT ![t] = Silent]
    /\ UNCHANGED <<chat, turns>> /\ UNCHANGED planVars

ClearChat ==
    /\ chat # <<>> /\ chat' = <<>>
    /\ UNCHANGED <<turns, talker>> /\ UNCHANGED planVars

-----------------------------------------------------------------------------
(***************************************************************************)
(* The plan.                                                               *)
(***************************************************************************)
Tasks(plan) == Plans[plan].tasks

\* What tasks depend on, directly or through others, within the plan.
Requires(plan) ==
    LET deps(id) == UNION {task.dependsOn : task \in {u \in ToSet(Tasks(plan)) : u.id = id}}
        step(S) == S \cup UNION {deps(id) : id \in S}
        reach[n \in 0..Len(Tasks(plan))] ==
            [id \in {u.id : u \in ToSet(Tasks(plan))} |->
                IF n = 0 THEN deps(id) ELSE step(reach[n - 1][id])]
    IN reach[Len(Tasks(plan))]

\* Slip: a task may depend on what another plan enqueued.
ValidPlanOpen(plan) == Tasks(plan) # <<>>

\* project_spec_from_mapping: unique ids, known dependencies, no cycle.
ValidPlan(plan) ==
    LET ids == {u.id : u \in ToSet(Tasks(plan))} IN
    /\ Tasks(plan) # <<>>
    /\ Cardinality(ids) = Len(Tasks(plan))
    /\ \A u \in ToSet(Tasks(plan)) : u.dependsOn \subseteq ids
    /\ \A id \in ids : id \notin Requires(plan)[id]

\* What materialize_project_plan writes, in order.
Writes(plan) ==
    <<"brief", "roadmap">>
      \o (IF Plans[plan].roles = NoRoles THEN <<>> ELSE <<"profile">>)
      \o [i \in DOMAIN Tasks(plan) |-> "task"]
      \o <<"enqueue">>

\* A chat is planned when it has a message; the roles of a spec must resolve,
\* those of a chat are never chosen by the model.
StartPlan(p) ==
    /\ planner[p].pc = "idle"
    /\ \E plan \in DOMAIN Plans :
          /\ ValidPlan(plan)
          /\ \/ Plans[plan].roles = NoRoles /\ Users(chat) # {}
             \/ Plans[plan].roles \in KnownRoles
          /\ planner' = [planner EXCEPT ![p] =
                           [pc |-> "writing", plan |-> plan, todo |-> Writes(plan)]]
    /\ UNCHANGED chatVars /\ UNCHANGED <<brief, roadmap, profile, planFiles, queued>>

Writing(p, file) == planner[p].pc = "writing" /\ Head(planner[p].todo) = file

Written(p) ==
    LET rest == Tail(planner[p].todo) IN
    planner' = [planner EXCEPT ![p] = IF rest = <<>> THEN NotPlanning ELSE [@ EXCEPT !.todo = rest]]

WriteDocument(p) ==
    /\ \/ Writing(p, "brief") /\ brief' = planner[p].plan /\ UNCHANGED roadmap
       \/ Writing(p, "roadmap") /\ roadmap' = planner[p].plan /\ UNCHANGED brief
    /\ Written(p)
    /\ UNCHANGED chatVars /\ UNCHANGED <<profile, planFiles, queued>>

WriteProfile(p) ==
    /\ Writing(p, "profile") /\ profile' = Plans[planner[p].plan].roles
    /\ Written(p)
    /\ UNCHANGED chatVars /\ UNCHANGED <<brief, roadmap, planFiles, queued>>

FileOf(plan, i) == <<i, Tasks(plan)[i].id>>

WriteTask(p) ==
    LET plan == planner[p].plan
        i == Len(Tasks(plan)) + 2 - Len(planner[p].todo)
    IN /\ Writing(p, "task") /\ planFiles' = planFiles \cup {FileOf(plan, i)}
       /\ Written(p)
       /\ UNCHANGED chatVars /\ UNCHANGED <<brief, roadmap, profile, queued>>

QueuedIds == {queued[i].id : i \in DOMAIN queued}

\* Slip: the tasks the queue knows already are left out.
EnqueueRest(p) ==
    LET plan == planner[p].plan
        entries == [i \in DOMAIN Tasks(plan) |-> [plan |-> plan, id |-> Tasks(plan)[i].id]]
    IN /\ Writing(p, "enqueue")
       /\ queued' = queued \o SelectSeq(entries, LAMBDA e : e.id \notin QueuedIds)
       /\ Written(p)
       /\ UNCHANGED chatVars /\ UNCHANGED <<brief, roadmap, profile, planFiles>>

\* enqueue_many takes all tasks or, when one of them is active, none; then the
\* command fails and what was written stays.
Enqueue(p) ==
    LET plan == planner[p].plan
        entries == [i \in DOMAIN Tasks(plan) |-> [plan |-> plan, id |-> Tasks(plan)[i].id]]
    IN /\ Writing(p, "enqueue")
       /\ queued' = IF \E e \in ToSet(entries) : e.id \in QueuedIds
                    THEN queued ELSE queued \o entries
       /\ Written(p)
       /\ UNCHANGED chatVars /\ UNCHANGED <<brief, roadmap, profile, planFiles>>

\* A write fails or the process stops.
PlanStops(p) ==
    /\ planner[p].pc = "writing"
    /\ planner' = [planner EXCEPT ![p] = NotPlanning]
    /\ UNCHANGED chatVars /\ UNCHANGED <<brief, roadmap, profile, planFiles, queued>>

-----------------------------------------------------------------------------
Talk(t) == ReadHistory(t) \/ SaveTurn(t) \/ TurnFails(t)

Plan(p) ==
    \/ StartPlan(p) \/ WriteDocument(p) \/ WriteProfile(p) \/ WriteTask(p)
    \/ Enqueue(p) \/ PlanStops(p)

PlanningNext ==
    \/ ClearChat
    \/ \E t \in Talkers : Talk(t)
    \/ \E p \in Planners : Plan(p)

PlanningSpec == PlanningInit /\ [][PlanningNext]_planningVars

-----------------------------------------------------------------------------
(* However turns and clearings interleave, each answer in the chat follows   *)
(* the message it answers, and messages are in the order they were sent.     *)
ConversationInTurns ==
    /\ \A i \in DOMAIN chat :
          chat[i].role = IF i % 2 = 1 THEN "user" ELSE "supervisor"
    /\ \A i \in DOMAIN chat : i % 2 = 0 => chat[i].turn = chat[i - 1].turn
    /\ \A i, j \in Users(chat) : i < j => chat[i].turn < chat[j].turn

(* A plan is in the queue as a whole or not at all, whoever else plans and    *)
(* wherever the writing stops: every task of it has its file and depends on   *)
(* tasks of the queue only.                                                   *)
PlanQueuedWhole ==
    \A i \in DOMAIN queued :
        LET plan == queued[i].plan
            here == {k \in DOMAIN queued : queued[k].plan = plan}
        IN /\ Cardinality(here) = Len(Tasks(plan))
           /\ \A k \in DOMAIN Tasks(plan) : FileOf(plan, k) \in planFiles
           /\ \A u \in ToSet(Tasks(plan)) : \A d \in u.dependsOn :
                 \E k \in DOMAIN queued : queued[k].id = d

(* lifecycle.py and supervisor_chat.py: a plan is queued whole, and a         *)
(* conversation keeps its turns.                                              *)
PlansAndTurnsAreWhole == PlanQueuedWhole /\ ConversationInTurns
=============================================================================
