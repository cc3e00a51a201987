------------------------------ MODULE AcpTurns ------------------------------
(***************************************************************************)
(* A role's turn over ACP: the JSON-RPC client (acp.py) with the Worker and *)
(* Critic adapters (acp_agents.py), the sign-in of agent_auth.py, and the   *)
(* permission and MCP policy of a role (mcp.py).                            *)
(*                                                                          *)
(* The caller starts the agent process, hands the turn to a thread and      *)
(* waits with a timeout; client and agent talk over two pipes.  The agent   *)
(* answers when and in the order it likes, asks for permissions in between  *)
(* and may exit at any time.                                                *)
(***************************************************************************)
EXTENDS Integers, Sequences, FiniteSets

CONSTANTS
    KnownKinds,   \* ACP_TOOL_KINDS, "other" among them
    ToolKinds,    \* kinds an agent names in its requests
    Policies,     \* allowed kinds per policy; {} is the policy that rejects
    MaxSays       \* bound: requests and notifications of the agent

VARIABLES
    role,      \* "worker", "critic" or "login": which steps the turn has
    policy,    \* the kinds the role's policy allows
    transport, \* what its MCP servers need: "stdio", "http" or "missing" (a secret)
    turn,      \* the thread: its next step, the id it waits for, how it ended
    caller,    \* "starting", "waiting" or "returned", and what it returns
    agent,     \* the process: alive, capabilities, requests and permissions
    toAgent, toClient

acpVars == <<role, policy, transport, turn, caller, agent, toAgent, toClient>>

config == <<role, policy, transport>>

-----------------------------------------------------------------------------
Steps ==
    IF role = "login" THEN <<"initialize", "authenticate">>
    ELSE <<"initialize", "session/new", "session/set_config_option", "session/prompt">>

NotStarted == [alive |-> FALSE, http |-> FALSE, open |-> {}, answered |-> {},
               asked |-> {}, granted |-> {}, says |-> 0]

AcpInit ==
    /\ role \in {"worker", "critic", "login"}
    /\ policy \in Policies
    /\ transport \in {"stdio", "http", "missing"}
    /\ turn = [id |-> 0, waiting |-> FALSE, http |-> FALSE, ended |-> "no"]
    /\ caller = [pc |-> "starting", result |-> "none"]
    /\ agent = NotStarted
    /\ toAgent = <<>> /\ toClient = <<>>

-----------------------------------------------------------------------------
(***************************************************************************)
(* The agent.                                                              *)
(***************************************************************************)
Says(message) == toClient' = Append(toClient, message)

AgentReads ==
    /\ agent.alive /\ toAgent # <<>>
    /\ LET message == Head(toAgent) IN
       agent' = IF message.type = "request"
                THEN [agent EXCEPT !.open = @ \cup {message.id}]
                ELSE [agent EXCEPT !.asked = @ \ {message.kind},
                                   !.granted = IF message.allowed THEN @ \cup {message.kind} ELSE @]
    /\ toAgent' = Tail(toAgent)
    /\ UNCHANGED config /\ UNCHANGED <<turn, caller, toClient>>

\* A stop reason other than these is a turn that was refused or cancelled.
Stops == {"end_turn", "refusal", "error"}

AgentAnswers ==
    /\ agent.alive
    /\ \E id \in agent.open : \E stop \in Stops, http \in BOOLEAN :
          /\ agent' = [agent EXCEPT !.open = @ \ {id}, !.answered = @ \cup {<<id, stop>>}]
          /\ Says([type |-> "response", id |-> id, stop |-> stop, http |-> http, kind |-> "none"])
    /\ UNCHANGED config /\ UNCHANGED <<turn, caller, toAgent>>

\* A permission, a request the client does not serve, a notification, a
\* response to nothing, or a line that is no JSON.
AgentSays ==
    /\ agent.alive /\ agent.says < MaxSays
    /\ \E type \in {"permission", "notification", "stray", "garbage"} : \E kind \in ToolKinds :
          /\ type # "permission" => kind = CHOOSE k \in ToolKinds : TRUE
          /\ agent' = [agent EXCEPT !.says = @ + 1,
                         !.asked = IF type = "permission" THEN @ \cup {kind} ELSE @]
          /\ Says([type |-> IF type = "stray" THEN "response" ELSE type, id |-> 0,
                   stop |-> "end_turn", http |-> FALSE, kind |-> kind])
    /\ UNCHANGED config /\ UNCHANGED <<turn, caller, toAgent>>

AgentExits ==
    /\ agent.alive /\ agent' = [agent EXCEPT !.alive = FALSE]
    /\ UNCHANGED config /\ UNCHANGED <<turn, caller, toAgent, toClient>>

-----------------------------------------------------------------------------
(***************************************************************************)
(* The thread of the turn.                                                 *)
(***************************************************************************)
Running == caller.pc # "starting" /\ turn.ended = "no"

Ends(how) == turn' = [turn EXCEPT !.ended = how]

\* new_session: a server that needs what the agent does not have, or a secret
\* that is not set, is refused before anything is sent.
ServersResolve == transport = "stdio" \/ (transport = "http" /\ turn.http)

NextRequest ==
    /\ Running /\ ~turn.waiting
    /\ LET step == Steps[turn.id + 1] IN
       \/ /\ step = "session/new" /\ ~ServersResolve
          /\ Ends("error") /\ UNCHANGED toAgent
       \/ /\ step = "session/new" => ServersResolve
          /\ agent.alive
          /\ turn' = [turn EXCEPT !.id = @ + 1, !.waiting = TRUE]
          /\ toAgent' = Append(toAgent, [type |-> "request", id |-> turn.id + 1,
                                         kind |-> "none", allowed |-> FALSE])
       \* select_session_option: no such option, or no such value.
       \/ step = "session/set_config_option" /\ Ends("error") /\ UNCHANGED toAgent
       \* The pipe is broken: not an AcpError.
       \/ ~agent.alive /\ Ends("raised") /\ UNCHANGED toAgent
    /\ UNCHANGED config /\ UNCHANGED <<caller, agent, toClient>>

Line == Head(toClient)

\* Slip: only a kind that is known is looked up.
AllowsUnknown(kind) == policy # {} /\ (kind \in KnownKinds => kind \in policy)

\* RoleMcpPolicyConfig.allows: a kind that is not known counts as "other".
Allows(kind) == (IF kind \in KnownKinds THEN kind ELSE "other") \in policy

\* _permission_outcome: allow_once when the policy allows and the agent offers
\* it, a rejection or a cancellation otherwise.
AnswerPermission ==
    /\ Running /\ turn.waiting /\ toClient # <<>> /\ Line.type = "permission"
    /\ \/ /\ agent.alive
          /\ \E offered \in BOOLEAN :
               toAgent' = Append(toAgent, [type |-> "outcome", id |-> 0, kind |-> Line.kind,
                                           allowed |-> offered /\ Allows(Line.kind)])
          /\ UNCHANGED turn
       \/ ~agent.alive /\ Ends("raised") /\ UNCHANGED toAgent
    /\ toClient' = Tail(toClient)
    /\ UNCHANGED config /\ UNCHANGED <<caller, agent>>

\* Slip: the next response is the answer, whatever its id.
AnswersMineAny == Line.type = "response"

AnswersMine == Line.type = "response" /\ Line.id = turn.id

\* A notification, or a response to another request.
SkipLine ==
    /\ Running /\ turn.waiting /\ toClient # <<>>
    /\ Line.type = "notification" \/ (Line.type = "response" /\ ~AnswersMine)
    /\ toClient' = Tail(toClient)
    /\ UNCHANGED config /\ UNCHANGED <<turn, caller, agent, toAgent>>

\* The last answer ends the turn: as a result when it stopped at its end, and,
\* for a Critic, when the text is one JSON object.
TakeAnswer ==
    LET last == turn.id = Len(Steps) IN
    /\ Running /\ turn.waiting /\ toClient # <<>> /\ AnswersMine
    /\ IF Line.stop = "error" \/ (last /\ role # "login" /\ Line.stop = "refusal") THEN Ends("error")
       ELSE IF ~last
       THEN turn' = [turn EXCEPT !.waiting = FALSE,
                       !.http = IF turn.id = 1 THEN Line.http ELSE @]
       ELSE \/ Ends("ok")
            \/ role = "critic" /\ Ends("error")
    /\ toClient' = Tail(toClient)
    /\ UNCHANGED config /\ UNCHANGED <<caller, agent, toAgent>>

\* A line that is no JSON, or the end of the output.
TurnBreaks ==
    /\ Running /\ turn.waiting
    /\ \/ toClient # <<>> /\ Line.type = "garbage"
       \/ toClient = <<>> /\ ~agent.alive
    /\ Ends("error")
    /\ UNCHANGED config /\ UNCHANGED <<caller, agent, toAgent, toClient>>

-----------------------------------------------------------------------------
(***************************************************************************)
(* The caller.                                                             *)
(***************************************************************************)
\* A Worker runs only on an attempt branch; the command may not start.
Start ==
    /\ caller.pc = "starting"
    /\ \/ /\ caller' = [caller EXCEPT !.pc = "waiting"]
          /\ agent' = [agent EXCEPT !.alive = TRUE]
       \/ caller' = [pc |-> "returned", result |-> "error"] /\ UNCHANGED agent
    /\ UNCHANGED config /\ UNCHANGED <<turn, toAgent, toClient>>

\* Slip: only a turn that ran out of time has its process stopped.
TerminatedOnTimeout == IF turn.ended = "no" THEN [agent EXCEPT !.alive = FALSE] ELSE agent

\* terminate_process_tree, on every way out.
Terminated == [agent EXCEPT !.alive = FALSE]

\* The result of the thread, an exception it raised, or the timeout; a sign-in
\* reads in its own thread and has none.
Return ==
    /\ caller.pc = "waiting"
    /\ role = "login" => turn.ended # "no"
    /\ caller' = [pc |-> "returned", result |-> IF turn.ended = "no" THEN "error" ELSE turn.ended]
    /\ agent' = Terminated
    /\ UNCHANGED config /\ UNCHANGED <<turn, toAgent, toClient>>

-----------------------------------------------------------------------------
AgentStep == AgentReads \/ AgentAnswers \/ AgentSays \/ AgentExits
TurnStep  == NextRequest \/ AnswerPermission \/ SkipLine \/ TakeAnswer \/ TurnBreaks

AcpNext == AgentStep \/ TurnStep \/ Start \/ Return

AcpSpec == AcpInit /\ [][AcpNext]_acpVars

-----------------------------------------------------------------------------
(* A turn succeeds only when the agent answered its last request with the end *)
(* of the turn, whatever else it sent before; and when the caller returns, by *)
(* whichever way, the agent process is gone.                                 *)
ResultIsOfThisTurn ==
    /\ caller.result = "ok" =>
         \E answer \in agent.answered :
            answer[1] = Len(Steps) /\ (answer[2] = "end_turn" \/ (role = "login" /\ answer[2] # "error"))
    /\ caller.pc = "returned" => ~agent.alive

(* The agent acts with no permission its role's policy withholds, also for a  *)
(* kind of tool the protocol does not know.                                  *)
PermissionsWithinPolicy ==
    \A kind \in agent.granted : kind \in policy \/ (kind \notin KnownKinds /\ "other" \in policy)

(* acp.py: a turn of a local agent ends with its own answer, and was allowed *)
(* no more than the policy.                                                 *)
LocalTurnsHold == ResultIsOfThisTurn /\ PermissionsWithinPolicy
=============================================================================
