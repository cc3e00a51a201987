--------------------------- MODULE Installations ---------------------------
(***************************************************************************)
(* What HoH installs for the user: its own releases (updater.py, over the   *)
(* catalogs of signed_catalog.py, from `update` and from the window) and    *)
(* managed ACP agents (agent_installation.py, over acp_registry.py, from    *)
(* `agent-manage`).                                                         *)
(*                                                                          *)
(* No lease protects either directory.  New content is staged and renamed   *)
(* into place; a directory that exists is never replaced.  Any process may  *)
(* stop between two steps.                                                  *)
(***************************************************************************)
EXTENDS Integers, FiniteSets

CONSTANTS
    Commands,    \* processes that run a command, and the window
    Releases,    \* versions for this platform, numbered from 1
    MaxStarts    \* bound: commands started

ASSUME InstallationConstants ==
    /\ Releases \subseteq Nat \ {0} /\ IsFiniteSet(Releases)
    /\ MaxStarts \in Nat

VARIABLES
    trusted,     \* the publisher of the catalog was imported
    offered,     \* the newest release in the catalog
    packages,    \* downloads: per version "none", "signed" or "other" content
    versions,    \* versions/: "none", or the content a complete directory has
    pointer,     \* current.json; 0 is none
    launchers,   \* hoh and hoh-gui were written
    managed,     \* an agent's directory: its receipt and its content
    removing,    \* an uninstallation began and may not have ended
    starts,
    process      \* where each process is, its version and what it read

installationVars ==
    <<trusted, offered, packages, versions, pointer, launchers, managed, removing, starts, process>>

releaseVars == <<trusted, offered, packages, versions, pointer, launchers>>
agentVars   == <<managed, removing>>

-----------------------------------------------------------------------------
NoRelease == 0

Idle == [pc |-> "idle", version |-> NoRelease, read |-> [current |-> NoRelease, previous |-> NoRelease],
         launch |-> "none"]

InstallationInit ==
    /\ trusted = FALSE /\ offered = 1
    /\ packages \in [Releases -> {"none", "other"}]
    /\ versions = [v \in Releases |-> "none"]
    /\ pointer = Idle.read
    /\ launchers = FALSE
    /\ managed = [receipt |-> FALSE, content |-> "none"]
    /\ removing = FALSE
    /\ starts = 0
    /\ process = [p \in Commands |-> Idle]

At(p, pc)    == process[p].pc = pc
StepsTo(p, pc)  == process' = [process EXCEPT ![p].pc = pc]
Fails(p)     == process' = [process EXCEPT ![p] = Idle]

Starts(p) == At(p, "idle") /\ starts < MaxStarts /\ starts' = starts + 1

-----------------------------------------------------------------------------
(***************************************************************************)
(* Releases.                                                               *)
(***************************************************************************)
ImportPublisher ==
    /\ ~trusted /\ trusted' = TRUE
    /\ UNCHANGED <<offered, packages, versions, pointer, launchers, starts, process>> /\ UNCHANGED agentVars

\* A release is added to the signed catalog.
Publish ==
    /\ offered + 1 \in Releases /\ offered' = offered + 1
    /\ UNCHANGED <<trusted, packages, versions, pointer, launchers, starts, process>>
    /\ UNCHANGED agentVars

Newest(S) == CHOOSE v \in S : \A w \in S : w <= v

\* check_for_update: the newest release newer than the running version, which
\* is the installed one or a copy that was started otherwise.
Check(p) ==
    /\ Starts(p) /\ trusted
    /\ \E running \in {NoRelease, pointer.current} :
          LET newer == {v \in Releases : running < v /\ v <= offered} IN
          /\ newer # {}
          /\ process' = [process EXCEPT ![p] = [Idle EXCEPT !.pc = "package", !.version = Newest(newer)]]
    /\ UNCHANGED releaseVars /\ UNCHANGED agentVars

\* The command takes a package that is there, the window always downloads: the
\* file is replaced once size and digest match.
Package(p) ==
    LET v == process[p].version IN
    /\ At(p, "package")
    /\ \/ packages[v] # "none" /\ StepsTo(p, "verify") /\ UNCHANGED packages
       \/ packages' = [packages EXCEPT ![v] = "signed"] /\ StepsTo(p, "verify")
       \/ Fails(p) /\ UNCHANGED packages
    /\ UNCHANGED <<trusted, offered, versions, pointer, launchers, starts>> /\ UNCHANGED agentVars

\* Slip: the package is taken as it is.
VerifyNothing(p) ==
    /\ At(p, "verify") /\ StepsTo(p, "install")
    /\ UNCHANGED releaseVars /\ UNCHANGED agentVars /\ UNCHANGED starts

\* _verify_local_package
Verify(p) ==
    /\ At(p, "verify")
    /\ IF packages[process[p].version] = "signed" THEN StepsTo(p, "install") ELSE Fails(p)
    /\ UNCHANGED releaseVars /\ UNCHANGED agentVars /\ UNCHANGED starts

\* Slip: the pointer is moved first.
InstallPointing(p) ==
    /\ At(p, "install")
    /\ StepsTo(p, IF versions[process[p].version] # "none" THEN "activate" ELSE "extract")
    /\ pointer' = [current |-> process[p].version, previous |-> pointer.current]
    /\ UNCHANGED <<trusted, offered, packages, versions, launchers, starts>> /\ UNCHANGED agentVars

\* A version that is there with its receipt is only activated.
Install(p) ==
    /\ At(p, "install")
    /\ StepsTo(p, IF versions[process[p].version] # "none" THEN "activate" ELSE "extract")
    /\ UNCHANGED releaseVars /\ UNCHANGED agentVars /\ UNCHANGED starts

\* Extracted beside, with its receipt, and renamed; an unsafe archive or a
\* directory that appeared meanwhile ends the command.
Extract(p) ==
    LET v == process[p].version IN
    /\ At(p, "extract")
    /\ \/ /\ versions[v] = "none"
          /\ versions' = [versions EXCEPT ![v] = packages[v]]
          /\ StepsTo(p, "activate")
       \/ Fails(p) /\ UNCHANGED versions
    /\ UNCHANGED <<trusted, offered, packages, pointer, launchers, starts>> /\ UNCHANGED agentVars

\* _activate_release: read, write, then the launchers.
ReadPointer(p) ==
    /\ At(p, "activate")
    /\ process' = [process EXCEPT ![p].pc = "point",
                     ![p].read = [current |-> process[p].version, previous |-> pointer.current]]
    /\ UNCHANGED releaseVars /\ UNCHANGED agentVars /\ UNCHANGED starts

WritePointer(p) ==
    /\ process[p].pc \in {"point", "back"}
    /\ pointer' = process[p].read
    /\ IF At(p, "back") THEN Fails(p) ELSE StepsTo(p, "launchers")
    /\ UNCHANGED <<trusted, offered, packages, versions, launchers, starts>> /\ UNCHANGED agentVars

WriteLaunchers(p) ==
    /\ At(p, "launchers")
    /\ launchers' = TRUE /\ Fails(p)
    /\ UNCHANGED <<trusted, offered, packages, versions, pointer, starts>> /\ UNCHANGED agentVars

\* rollback_release
RollbackRelease(p) ==
    /\ Starts(p)
    /\ pointer.previous # NoRelease /\ versions[pointer.previous] # "none"
    /\ process' = [process EXCEPT ![p] =
                     [Idle EXCEPT !.pc = "back",
                        !.read = [current |-> pointer.previous, previous |-> pointer.current]]]
    /\ UNCHANGED releaseVars /\ UNCHANGED agentVars

-----------------------------------------------------------------------------
(***************************************************************************)
(* One managed agent, at the version the registry has.                     *)
(***************************************************************************)
Gone == [receipt |-> FALSE, content |-> "none"]

Exists == managed # Gone

\* resolve: the receipt decides, and the command it names must be a file.  An
\* installation that is not valid is not replaced by another way to launch.
Launch ==
    IF ~managed.receipt THEN "unmanaged" ELSE IF managed.content = "none" THEN "invalid" ELSE "managed"

ResolveAgent(p) ==
    /\ Starts(p)
    /\ process' = [process EXCEPT ![p] = [Idle EXCEPT !.launch =
                     IF Launch = "managed" THEN managed.content ELSE Launch]]
    /\ UNCHANGED releaseVars /\ UNCHANGED agentVars

InstallAgent(p) ==
    /\ Starts(p) /\ Launch = "unmanaged"
    /\ process' = [process EXCEPT ![p] = [Idle EXCEPT !.pc = "staging"]]
    /\ UNCHANGED releaseVars /\ UNCHANGED agentVars

\* Slip: the receipt is written where the agent will be, then its content.
PlaceAgentInPlace(p) ==
    /\ At(p, "staging")
    /\ \/ ~Exists /\ managed' = [receipt |-> TRUE, content |-> "part"] /\ UNCHANGED process
       \/ managed.content = "part" /\ managed' = [receipt |-> TRUE, content |-> "whole"] /\ Fails(p)
    /\ UNCHANGED removing /\ UNCHANGED starts /\ UNCHANGED releaseVars

\* npm, uv or a download with the registry's digest fill the staging directory;
\* it takes its place with the receipt, unless something is there.
PlaceAgent(p) ==
    /\ At(p, "staging")
    /\ \/ ~Exists /\ managed' = [receipt |-> TRUE, content |-> "whole"]
       \/ UNCHANGED managed
    /\ Fails(p)
    /\ UNCHANGED removing /\ UNCHANGED starts /\ UNCHANGED releaseVars

UninstallAgent(p) ==
    /\ Starts(p) /\ managed.receipt
    /\ removing' = TRUE
    /\ process' = [process EXCEPT ![p] = [Idle EXCEPT !.pc = "removing"]]
    /\ UNCHANGED managed /\ UNCHANGED releaseVars

\* rmtree takes file after file, in no particular order.
RemoveFile(p) ==
    /\ At(p, "removing")
    /\ \/ managed.receipt /\ managed' = [managed EXCEPT !.receipt = FALSE] /\ UNCHANGED process
       \/ managed.content = "whole" /\ managed' = [managed EXCEPT !.content = "part"] /\ UNCHANGED process
       \/ managed.content = "part" /\ managed' = [managed EXCEPT !.content = "none"] /\ UNCHANGED process
       \/ ~Exists /\ Fails(p) /\ UNCHANGED managed
    /\ UNCHANGED removing /\ UNCHANGED starts /\ UNCHANGED releaseVars

-----------------------------------------------------------------------------
Stop(p) ==
    /\ ~At(p, "idle") /\ Fails(p)
    /\ UNCHANGED releaseVars /\ UNCHANGED agentVars /\ UNCHANGED starts

Update(p) ==
    \/ Check(p) \/ Package(p) \/ Verify(p) \/ Install(p) \/ Extract(p) \/ ReadPointer(p)
    \/ WritePointer(p) \/ WriteLaunchers(p) \/ RollbackRelease(p)

ManageAgent(p) ==
    \/ ResolveAgent(p) \/ InstallAgent(p) \/ PlaceAgent(p) \/ UninstallAgent(p) \/ RemoveFile(p)

InstallationNext ==
    ImportPublisher \/ Publish \/ \E p \in Commands : Update(p) \/ ManageAgent(p) \/ Stop(p)

InstallationSpec == InstallationInit /\ [][InstallationNext]_installationVars

-----------------------------------------------------------------------------
(* The launchers start a complete, signed release, and a rollback goes to     *)
(* one, whoever installs or rolls back at the same time and wherever a        *)
(* process stops.                                                             *)
PointerIsInstalled ==
    /\ \A v \in {pointer.current, pointer.previous} \ {NoRelease} : versions[v] = "signed"
    /\ launchers => pointer.current # NoRelease

(* An agent is launched from its managed directory only with all its content, *)
(* as long as no one removes it.                                              *)
LaunchedIsWhole ==
    ~removing => \A p \in Commands : process[p].launch # "part"

(* updater.py and agent_installation.py: what is launched is installed,       *)
(* whole and verified.                                                        *)
LaunchesAreWhole == PointerIsInstalled /\ LaunchedIsWhole
=============================================================================
