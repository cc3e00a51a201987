----------------------------- MODULE MCServices -----------------------------
(* The services around the queue, that poll.  They share no state, so one   *)
(* run explores each by itself: `part` is the one that moves.               *)
EXTENDS TelegramCommands, WorkspaceScheduler

CONSTANTS w1, w2, t1, s1, s2

VARIABLE part

-----------------------------------------------------------------------------
Message(from, command) == [from |-> from, command |-> command, target |-> t1]

MCMessages == <<Message("operator", "retry"), Message("stranger", "recover"),
                Message("operator", "recover"), Message("operator", "status")>>

-----------------------------------------------------------------------------
ServicesInit ==
    /\ part \in {"telegram", "workspace"}
    /\ TelegramInit /\ WorkspaceInit
    /\ part # "telegram" => status[t1] = "failed"

InTelegram  == part = "telegram" /\ TelegramNext /\ UNCHANGED workspaceVars
InWorkspace == part = "workspace" /\ WorkspaceNext /\ UNCHANGED telegramVars

ServicesNext == (InTelegram \/ InWorkspace) /\ UNCHANGED part

ServicesFairness ==
    /\ \A p \in Pollers : WF_telegramVars(part = "telegram" /\ Poll(p))
    /\ \A s \in Schedulers : WF_workspaceVars(part = "workspace" /\ Schedule(s))

ServicesSpec ==
    ServicesInit /\ [][ServicesNext]_<<part, telegramVars, workspaceVars>> /\ ServicesFairness

=============================================================================
