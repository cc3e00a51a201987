--------------------------- MODULE ProjectSettings ---------------------------
(***************************************************************************)
(* The configuration of a project, .hoh/harness.json (config.py), and its   *)
(* role profile, .hoh/role-profile.json (role_profiles.py), as the forms of *)
(* the window and the text editor change them (gui_services.py).            *)
(*                                                                          *)
(* An agent's name is looked up twice and by different code: the catalog    *)
(* (role_catalog.py), against which the window accepts a role, and the      *)
(* resolver (role_profiles.py), which gives the role to an agent.  A name   *)
(* can be local, remote and in the ACP Registry at once, and several local  *)
(* agents can have it.  The window checks a run it is asked for against the *)
(* catalog; the command it starts reads the settings again, and resolves.   *)
(***************************************************************************)
EXTENDS Naturals, Sequences, FiniteSets

CONSTANTS
    Names,       \* names an agent of a file can have
    Registered,  \* those the cached ACP Registry has too
    Default,     \* the agents a configuration without agents has
    MaxEdits     \* bound

VARIABLES
    settingsFile,  \* harness.json
    profile,       \* role-profile.json: per role an agent and a driver, or Absent
    found,         \* names whose command is on this machine, or that answer
    asked,         \* the run the window was asked for
    edits

settingsVars == <<settingsFile, profile, found, asked, edits>>

-----------------------------------------------------------------------------
Roles == {"supervisor", "worker", "critic"}

Absent == "none"

\* The names of the two models that are called directly.
Direct == [supervisor |-> "direct-supervisor-model", critic |-> "direct-critic-model"]

Everyone == Names \cup {Direct.supervisor, Direct.critic}

\* Kinds of a local agent: a process profile, or one that declares all roles.
LocalKinds == {"process", "acp"}

\* The local agents of one name, in the order of the file.  Two show what any
\* number does: the lookups take the first or the last.
Listings == UNION {[1..n -> LocalKinds] : n \in 0..2}

\* `own`: roles whose section is not the default one; `model`: an endpoint for
\* the direct models is set.
Missing == [local |-> Default, remote |-> [n \in Names |-> {}], own |-> {}, model |-> FALSE]

NoRole    == [agent |-> Absent, driver |-> Absent]
NoProfile == [r \in Roles |-> NoRole]

\* `shown`: what the catalog had when the run was checked; `kept`: nothing was
\* saved since; `used`: what its command resolved.
NotAsked == [at |-> "no", shown |-> NoProfile, kept |-> FALSE, used |-> NoProfile]

SettingsInit ==
    /\ settingsFile = Missing /\ profile = NoProfile
    /\ found \in SUBSET Names
    /\ asked = NotAsked
    /\ edits = 0

\* load_config: a file without agents has the default ones.
Config == IF \A n \in Names : settingsFile.local[n] = <<>> THEN [settingsFile EXCEPT !.local = Default] ELSE settingsFile

Listed(name) == Config.local[name]
First(name)  == Listed(name)[1]
Final(name)  == Listed(name)[Len(Listed(name))]

-----------------------------------------------------------------------------
(***************************************************************************)
(* Two ways to look up a name.                                             *)
(***************************************************************************)
LocalDriver(kind, role) ==
    CASE kind = "process" -> IF role = "worker" THEN "process" ELSE Absent
      [] kind = "acp" -> "acp"
      [] OTHER -> Absent

Offer(source, driver, available) == [source |-> source, driver |-> driver, available |-> available]

NoEntry == Offer(Absent, Absent, FALSE)

\* build_role_catalog: direct models, configured and remote agents, then those
\* of the registry whose name is not taken.  The first of a name counts, but
\* of local ones of one spelling each is shown with the drivers of the last.
Catalog(name, role) ==
    IF name = Direct.supervisor
    THEN Offer("model", IF role = "supervisor" THEN "model_json" ELSE Absent, Config.model)
    ELSE IF name = Direct.critic
    THEN Offer("model", IF role = "critic" THEN "model_json" ELSE Absent, Config.model)
    ELSE IF name \notin Names THEN NoEntry
    ELSE IF Listed(name) # <<>>
    THEN Offer("local", LocalDriver(Final(name), role), name \in found)
    ELSE IF Config.remote[name] # {}
    THEN Offer("remote", IF role \in Config.remote[name] THEN "a2a" ELSE Absent, name \in found)
    ELSE IF name \in Registered THEN Offer("registry", "acp", name \in found)
    ELSE NoEntry

\* _validate_role_selection
Accepted(selection, role) ==
    LET entry == Catalog(selection.agent, role) IN
    /\ entry.driver # Absent /\ entry.available
    /\ selection.driver \in {Absent, entry.driver}

LocalAgent(name, role) == [source |-> "local", driver |-> LocalDriver(First(name), role)]

NoAgent == [source |-> Absent, driver |-> Absent]

\* One that does not have the role is refused.
RemoteAgent(name, role) ==
    IF role \in Config.remote[name] THEN [source |-> "remote", driver |-> "a2a"] ELSE NoAgent

\* find_registry_agent, and resolve_acp_launch, which wants its command to be there
RegistryAgent(name) ==
    IF name \in Registered /\ name \in found THEN [source |-> "registry", driver |-> "acp"] ELSE NoAgent

\* Slip: remote agents are looked up first.
ResolveRemoteFirst(name, role) ==
    IF Config.remote[name] # {} THEN RemoteAgent(name, role)
    ELSE IF Listed(name) # <<>> THEN LocalAgent(name, role)
    ELSE RegistryAgent(name)

\* _resolve_agent
Resolve(name, role) ==
    IF Listed(name) # <<>> THEN LocalAgent(name, role)
    ELSE IF Config.remote[name] # {} THEN RemoteAgent(name, role)
    ELSE RegistryAgent(name)

Refused == [source |-> "error", driver |-> Absent]

\* The saved driver, whatever the agent declares; a Worker may be without one.
Driven(agent, role, driver) ==
    IF agent = NoAgent THEN Refused
    ELSE IF driver # Absent THEN [agent EXCEPT !.driver = driver]
    ELSE IF agent.driver = Absent /\ role # "worker" THEN Refused
    ELSE agent

\* apply_role_profile: a section of its own stands; else the direct model or
\* the agent of that name.
Effective(chosen, role) ==
    LET selection == chosen[role] IN
    IF role \in Config.own THEN [source |-> "own", driver |-> "own"]
    ELSE IF role \in DOMAIN Direct /\ selection.agent = Direct[role]
    THEN [source |-> "model", driver |-> "model_json"]
    ELSE IF selection.agent \notin Names THEN Refused
    ELSE Driven(Resolve(selection.agent, role), role, selection.driver)

\* The Critic may be disabled.
Needed(chosen) == {r \in Roles : r # "critic" \/ chosen[r] # NoRole}

-----------------------------------------------------------------------------
(***************************************************************************)
(* The forms.  Each reads the file, changes its part and replaces the file. *)
(***************************************************************************)
Edit == edits < MaxEdits /\ edits' = edits + 1 /\ asked' = [asked EXCEPT !.kept = FALSE] /\ UNCHANGED found

Write(config) == settingsFile' = config /\ UNCHANGED profile

Uses(role, name) == profile[role].agent = name

\* The first of that name is replaced; it keeps what it declares for the others.
SaveProcessProfile(n) ==
    /\ Edit /\ (Listed(n) # <<>> => First(n) = "process")
    /\ Write([Config EXCEPT !.local[n] = IF @ = <<>> THEN <<"process">> ELSE @])

\* All of that name go.  Only the Worker is asked for.
RemoveProcessProfile(n) ==
    /\ Edit /\ Listed(n) # <<>> /\ First(n) = "process" /\ ~Uses("worker", n)
    /\ Write([Config EXCEPT !.local[n] = <<>>])

\* A local agent of that name is in the way; the reverse is not checked.
SaveA2AAgent(n) ==
    /\ Edit /\ Listed(n) = <<>>
    /\ \E roles \in {{"supervisor"}, {"worker", "critic"}, Roles} :
          Write([Config EXCEPT !.remote[n] = roles])

RemoveA2AAgent(n) ==
    /\ Edit /\ Config.remote[n] # {} /\ \A r \in Roles : ~Uses(r, n)
    /\ Write([Config EXCEPT !.remote[n] = {}])

\* save_editable_project_settings: the endpoints, among the rest.
SaveEditableSettings ==
    /\ Edit
    /\ \E model \in BOOLEAN : Write([Config EXCEPT !.model = model])

\* save_project_config_text: whatever load_config takes, two of a name too.
SaveConfigText ==
    /\ Edit
    /\ \/ \E n \in Names, listing \in Listings : Write([Config EXCEPT !.local[n] = listing])
       \/ \E role \in {"worker", "critic"} : Write([Config EXCEPT !.own = @ \cup {role}])
       \/ Write([Config EXCEPT !.own = {}])

\* save_project_roles: every role is in the catalog and the profile resolves;
\* the window saves the driver it shows, a preset or a command may leave it out.
SaveRoles ==
    \E agents \in [Roles -> Everyone \cup {Absent}], drivers \in BOOLEAN :
      LET chosen == [r \in Roles |->
            [agent |-> agents[r], driver |-> IF drivers THEN Catalog(agents[r], r).driver ELSE Absent]]
      IN /\ Edit
         /\ \A r \in Needed(chosen) : Accepted(chosen[r], r) /\ Effective(chosen, r) # Refused
         /\ profile' = chosen
         /\ UNCHANGED settingsFile

\* A command is installed or disappears, a remote agent answers or does not.
Environment ==
    /\ edits < MaxEdits /\ edits' = edits + 1
    /\ \E n \in Names : found' = (found \ {n}) \cup ({n} \ found)
    /\ UNCHANGED <<settingsFile, profile, asked>>

\* run_gui_command: the saved roles are checked before a run is started ...
CheckRun ==
    /\ asked.at = "no" /\ profile # NoProfile
    /\ \A r \in Needed(profile) : Accepted(profile[r], r)
    /\ asked' = [at |-> "checked", kept |-> TRUE, used |-> NoProfile,
                 shown |-> [r \in Roles |-> Catalog(profile[r].agent, r)]]
    /\ UNCHANGED <<settingsFile, profile, found, edits>>

\* ... and its command reads them again: load_effective_config, which may raise.
StartRun ==
    /\ asked.at = "checked"
    /\ asked' = IF \E r \in Needed(profile) : Effective(profile, r) = Refused THEN NotAsked
                ELSE [asked EXCEPT !.at = "started", !.used = [r \in Roles |-> Effective(profile, r)]]
    /\ UNCHANGED <<settingsFile, profile, found, edits>>

EndRun ==
    /\ asked.at = "started" /\ asked' = NotAsked
    /\ UNCHANGED <<settingsFile, profile, found, edits>>

-----------------------------------------------------------------------------
SettingsNext ==
    \/ \E n \in Names : SaveProcessProfile(n) \/ RemoveProcessProfile(n)
                        \/ SaveA2AAgent(n) \/ RemoveA2AAgent(n)
    \/ SaveEditableSettings \/ SaveConfigText \/ SaveRoles \/ Environment
    \/ CheckRun \/ StartRun \/ EndRun

SettingsSpec == SettingsInit /\ [][SettingsNext]_settingsVars

-----------------------------------------------------------------------------
\* Several local agents have the name, and the last is not like the first.
Ambiguous(name) == name \in Names /\ Listed(name) # <<>> /\ First(name) # Final(name)

(* What the window checks is what runs: unless something is saved between    *)
(* the two reads, each role of a run is played by the kind of agent the      *)
(* check saw, with the driver it saw, however names were shadowed, removed   *)
(* or taken over before and whatever is installed or stops answering         *)
(* meanwhile.  The exceptions: a section of its own stands, and of a name    *)
(* with several local agents the driver may be the one of another.          *)
SettingsAreUsed ==
    asked.at = "started" /\ asked.kept =>
        \A r \in Needed(profile) :
            LET used == asked.used[r]
                shown == asked.shown[r]
            IN \/ used.source = "own"
               \/ /\ used.source = shown.source
                  /\ used.driver = shown.driver \/ Ambiguous(profile[r].agent)
=============================================================================
