------------------------------ MODULE MCAgents ------------------------------
(* What HoH does with the agents it works with: installations and sign-ins, *)
(* plans, the calls of local, remote and command-line agents, the policy on *)
(* a patch and the documents of a review.  They share no state here, so one *)
(* run explores each by itself: `part` is the one that moves.               *)
EXTENDS Installations, OAuthTokens, ProjectPlanning, RoleAdapters, AcpTurns, A2AClients,
        PatchPolicy, ReviewEvidence, TLC

CONSTANTS c1, c2, g1, g2, r1, r2

VARIABLE part

-----------------------------------------------------------------------------
PlannedTask(id, dependsOn) == [id |-> id, dependsOn |-> dependsOn]

(* Two plans share a task; the others are refused. *)
MCPlans ==
    "chat"   :> [roles |-> "none", tasks |-> <<PlannedTask("a", {}), PlannedTask("b", {"a"})>>] @@
    "spec"   :> [roles |-> "trio", tasks |-> <<PlannedTask("b", {}), PlannedTask("c", {"b"})>>] @@
    "ghost"  :> [roles |-> "none", tasks |-> <<PlannedTask("d", {"z"})>>] @@
    "cycle"  :> [roles |-> "trio", tasks |-> <<PlannedTask("e", {"f"}), PlannedTask("f", {"e"})>>] @@
    "roles"  :> [roles |-> "lost", tasks |-> <<PlannedTask("g", {})>>]

(* An inbox of one task and two events: both limits are met. *)
MCMixes    == {r1 :> "push" @@ r2 :> "push", r1 :> "stream" @@ r2 :> "poll"}
MCMaxEmits == r1 :> 3 @@ r2 :> 1

(* A directory whose name begins like another's, a name that holds " b/", and *)
(* one that makes a rename from src/a split into two equal names under src.   *)
MCMoved  == <<"keys", "k b", "src", "a b", "keys", "k">>
MCNames  == {<<"src", "a">>, <<"srcx", "a">>, <<"keys", "k b", "k">>, MCMoved}
MCSpaced == {<<"keys", "k b", "k">>, MCMoved}
MCHalves == << <<"src", "a">>, MCMoved >> :> <<"src", "a b", "keys", "k">>
MCDecoy  == <<"decoy">>
MCWhole  == <<"*">>
MCScopes == {{}, {<<"*">>}, {<<"src">>}, {<<"src">>, <<"srcx", "a">>, <<"keys">>}}
MCForbidden == {<<"keys">>}

(* One change, alone or before an edit; and the hunk of a file that only got  *)
(* its last newline.                                                         *)
MCLastLine == << <<Text("-", "text")>>, Unended, <<Text("+", "text")>> >>
MCHunks(n) == {<<>>, MCLastLine} \cup UNION {[1..k -> Items] : k \in 1..n}

MCChanges(n) ==
    {c \in [kind : {"edit", "add", "delete", "rename"}, from : Names, to : Names, hunk : MCHunks(n)] :
        c \in Changes}

MCEditLists ==
    {<<>>} \cup {<<c>> : c \in MCChanges(2)}
           \cup {<<c, Change("edit", p, p, <<Context>>)>> : c \in MCChanges(1), p \in Names}

Section(required, name, limit) == [required |-> required, critic |-> name, limit |-> limit]

(* Another critic with a lower limit, and a review that is not required. *)
MCFirst   == Section(TRUE, "c1", 2)
MCConfigs == {Section(TRUE, "c1", 2), Section(TRUE, "c2", 1), Section(FALSE, "c1", 2)}

(* Two documents or changes of the configuration where commands run one at a   *)
(* time, one where they overlap.                                             *)
WithinPapers == written' + changes' <= IF alone THEN 2 ELSE 1

-----------------------------------------------------------------------------
(* The parts at rest have one initial state each. *)
Init ==
    /\ part \in {"installed", "oauth", "planning", "adapters", "acp", "a2a",
                "patches", "review"}
    /\ InstallationInit
    /\ (part # "installed" => packages = [v \in Releases |-> "none"])
    /\ OAuthInit /\ (part # "oauth" => flow = "device_code" /\ rotating)
    /\ PlanningInit
    /\ AdapterInit
    /\ (part # "adapters" => call.role = "worker" /\ call.driver = "command")
    /\ AcpInit
    /\ (part # "acp" => role = "login" /\ policy = {} /\ transport = "stdio")
    /\ A2AInit /\ (part # "a2a" => calls[r1].by = "push")
    /\ PatchInit /\ (part # "patches" => edits = <<>>)
    /\ ReviewInit /\ (part # "review" => alone)

InInstalled == part = "installed" /\ InstallationNext
InOAuth     == part = "oauth" /\ OAuthNext
InPlanning  == part = "planning" /\ PlanningNext
InAdapters  == part = "adapters" /\ AdapterNext
InAcp       == part = "acp" /\ AcpNext
InA2A       == part = "a2a" /\ A2ANext
InPatches   == part = "patches" /\ PatchNext
InReview    == part = "review" /\ ReviewNext /\ WithinPapers

Next ==
    /\ InInstalled \/ (part # "installed" /\ UNCHANGED installationVars)
    /\ InOAuth \/ (part # "oauth" /\ UNCHANGED oauthVars)
    /\ InPlanning \/ (part # "planning" /\ UNCHANGED planningVars)
    /\ InAdapters \/ (part # "adapters" /\ UNCHANGED adapterVars)
    /\ InAcp \/ (part # "acp" /\ UNCHANGED acpVars)
    /\ InA2A \/ (part # "a2a" /\ UNCHANGED a2aVars)
    /\ InPatches \/ (part # "patches" /\ UNCHANGED scanVars)
    /\ InReview \/ (part # "review" /\ UNCHANGED reviewVars)
    /\ UNCHANGED part

Spec ==
    Init /\ [][Next]_<<part, installationVars, oauthVars, planningVars,
                       adapterVars, acpVars, a2aVars, scanVars, reviewVars>>
=============================================================================
