---------------------------- MODULE AgentsProofs ----------------------------
(***************************************************************************)
(* Proofs about the agents HoH works with: the tokens of remote agents     *)
(* (OAuthTokens), for any processes and bounds; a turn of a local agent    *)
(* (AcpTurns), for any kinds of tools and policies; the calls of remote    *)
(* agents (A2AClients), for any clients and limits of the inbox; what is   *)
(* installed (Installations), for any commands and releases; a call of a   *)
(* role (RoleAdapters), for any number of retries; conversations and plans *)
(* (ProjectPlanning), for any plans and processes; the documents of a      *)
(* review (ReviewEvidence), for any configurations and bounds; the gate on *)
(* a patch (PatchPolicy), for any lists of changes and any scopes.         *)
(***************************************************************************)
EXTENDS OAuthTokens, AcpTurns, A2AClients, Installations, RoleAdapters, ProjectPlanning,
        ReviewEvidence, PatchPolicy, FiniteOrders, FiniteSetTheorems, SequenceTheorems, TLAPS

-----------------------------------------------------------------------------
(***************************************************************************)
(* OAuthTokens.  What is about to be saved is accepted by the server: a    *)
(* server that rotates has given it to this process alone, and a server    *)
(* that does not takes no refresh token back.                              *)
(***************************************************************************)
Tokens(n) == [access: 0..n, refresh: 0..n]

ClientStates(n) == [pc: {"idle", "refresh", "credentials", "device", "save"},
                    token: Tokens(n), got: Nat]

OAuthTypes ==
    /\ rotating \in BOOLEAN
    /\ issued \in Nat /\ losses \in Nat
    /\ live \subseteq 1..issued
    /\ store \in Tokens(issued) /\ cache \in [Processes -> Tokens(issued)]
    /\ client \in [Processes -> ClientStates(issued)]

SavedIsLive == \A p \in Processes : client[p].pc = "save" => client[p].token.refresh \in live

\* A rotated token is known to the process that is about to save it, and to
\* nobody else.
HeldAlone ==
    \A p \in Processes : rotating /\ client[p].pc = "save" =>
       /\ store.refresh # client[p].token.refresh
       /\ \A q \in Processes \ {p} :
             client[q].pc \in {"refresh", "save"} =>
                client[q].token.refresh # client[p].token.refresh

OAuthInvariant == OAuthTypes /\ SavedIsLive /\ HeldAlone /\ SignedInStays

\* A client with what it holds of the first n answers holds it of one more.
LEMMA StatesGrow ==
  ASSUME NEW n \in Nat
  PROVE  Tokens(n) \subseteq Tokens(n + 1) /\ ClientStates(n) \subseteq ClientStates(n + 1)
BY DEF Tokens, ClientStates

LEMMA OAuthFirst == OAuthInit => OAuthInvariant
<1> SUFFICES ASSUME OAuthInit PROVE OAuthInvariant
  OBVIOUS
<1>1. NoToken \in Tokens(0) /\ Resting \in ClientStates(0) /\ Resting.pc = "idle"
  BY DEF NoToken, Resting, Tokens, ClientStates
<1>2. OAuthTypes
  BY <1>1 DEF OAuthInit, OAuthTypes
<1>3. QED
  BY <1>1, <1>2 DEF OAuthInit, OAuthInvariant, SavedIsLive, HeldAlone, SignedInStays

\* A step of p that is not an answer of the server, nor the end of a save.
LEMMA QuietKeeps ==
  ASSUME OAuthInvariant, NEW p \in Processes, NEW l \in ClientStates(issued),
         client' = [client EXCEPT ![p] = l], client[p].pc # "save", l.pc # "save",
         l.pc = "refresh" => l.token.refresh = store.refresh,
         cache' \in [Processes -> Tokens(issued)],
         UNCHANGED <<rotating, live, issued, losses, store>>
  PROVE  OAuthInvariant'
<1>1. OAuthTypes'
  BY DEF OAuthInvariant, OAuthTypes
<1>2. client'[p] = l /\ \A q \in Processes \ {p} : client'[q] = client[q]
  BY DEF OAuthInvariant, OAuthTypes
<1>3. SavedIsLive'
  BY <1>2 DEF OAuthInvariant, SavedIsLive
<1>4. HeldAlone'
  BY <1>2 DEF OAuthInvariant, HeldAlone
<1>5. SignedInStays'
  BY <1>2 DEF OAuthInvariant, SignedInStays
<1>6. QED
  BY <1>1, <1>3, <1>4, <1>5 DEF OAuthInvariant

\* The server answers p, which is about to save: the refresh token is a new one,
\* or, of a server that does not rotate, perhaps an old one.
LEMMA AnswerKeepsSignIn ==
  ASSUME OAuthInvariant, NEW p \in Processes, NEW r \in 1..(issued + 1), NEW old,
         client' = [client EXCEPT ![p] = [pc |-> "save", got |-> 0,
                                          token |-> [access |-> issued + 1, refresh |-> r]]],
         client[p].pc # "save",
         issued' = issued + 1, r \in live', live' \subseteq live \cup {issued + 1},
         rotating => r = issued + 1 /\ live \ {old} \subseteq live',
         ~rotating => live \subseteq live',
         rotating /\ old \in live => client[p].pc = "refresh" /\ client[p].token.refresh = old,
         UNCHANGED <<rotating, losses, store, cache>>
  PROVE  OAuthInvariant'
<1> DEFINE l == [pc |-> "save", got |-> 0, token |-> [access |-> issued + 1, refresh |-> r]]
<1>0. issued \in Nat /\ issued + 1 \in Nat /\ client \in [Processes -> ClientStates(issued)]
  BY DEF OAuthInvariant, OAuthTypes
<1>1. l \in ClientStates(issued + 1) /\ l.pc = "save" /\ l.token.refresh = r
  BY <1>0 DEF ClientStates, Tokens
<1> HIDE DEF l
<1>2. client' = [client EXCEPT ![p] = l]
  BY DEF l
<1>3. client'[p] = l /\ \A q \in Processes \ {p} : client'[q] = client[q]
  BY <1>0, <1>2
<1>4. OAuthTypes'
  <2>1. client' \in [Processes -> ClientStates(issued + 1)]
    BY <1>0, <1>1, <1>2, StatesGrow
  <2>2. store' \in Tokens(issued + 1) /\ cache' \in [Processes -> Tokens(issued + 1)]
    BY <1>0, StatesGrow DEF OAuthInvariant, OAuthTypes
  <2>3. live' \subseteq 1..(issued + 1)
    BY <1>0 DEF OAuthInvariant, OAuthTypes
  <2>4. QED
    BY <1>0, <2>1, <2>2, <2>3 DEF OAuthInvariant, OAuthTypes
\* Nobody else has a token that is new, or the one that was used up.
<1>5. /\ store.refresh <= issued /\ store.refresh \in Nat
      /\ \A q \in Processes : client[q].token.refresh \in 0..issued
  BY DEF OAuthInvariant, OAuthTypes, Tokens, ClientStates
<1>6. \A q \in Processes \ {p} : client[q].pc = "save" => client[q].token.refresh \in live'
  <2> SUFFICES ASSUME NEW q \in Processes \ {p}, client[q].pc = "save"
               PROVE  client[q].token.refresh \in live'
    OBVIOUS
  <2>1. client[q].token.refresh \in live
    BY DEF OAuthInvariant, SavedIsLive
  <2>2. CASE ~rotating
    BY <2>1, <2>2
  <2>3. CASE rotating /\ old \notin live
    BY <2>1, <2>3
  <2>4. CASE rotating /\ old \in live
    <3>1. client[p].token.refresh # client[q].token.refresh
      BY <2>4 DEF OAuthInvariant, HeldAlone
    <3>2. QED
      BY <2>1, <2>4, <3>1
  <2>5. rotating \in BOOLEAN
    BY DEF OAuthInvariant, OAuthTypes
  <2>6. QED
    BY <2>2, <2>3, <2>4, <2>5
<1>7. SavedIsLive'
  BY <1>1, <1>3, <1>6 DEF SavedIsLive
<1>8. HeldAlone'
  <2> SUFFICES ASSUME NEW q \in Processes, rotating, client'[q].pc = "save"
               PROVE  /\ store.refresh # client'[q].token.refresh
                      /\ \A w \in Processes \ {q} : client'[w].pc \in {"refresh", "save"} =>
                            client'[w].token.refresh # client'[q].token.refresh
    BY DEF HeldAlone
  <2>1. r = issued + 1 /\ \A w \in Processes : client[w].token.refresh # r
    BY <1>0, <1>5
  <2>2. CASE q = p
    BY <1>0, <1>1, <1>3, <1>5, <2>1, <2>2
  <2>3. CASE q # p
    <3>1. client'[q] = client[q] /\ client[q].pc = "save"
      BY <1>3, <2>3
    <3>2. /\ store.refresh # client[q].token.refresh
          /\ \A w \in Processes \ {q} : client[w].pc \in {"refresh", "save"} =>
                client[w].token.refresh # client[q].token.refresh
      BY <3>1 DEF OAuthInvariant, HeldAlone
    <3>3. QED
      BY <1>1, <1>3, <2>1, <3>1, <3>2
  <2>4. QED
    BY <2>2, <2>3
<1>9. SignedInStays'
  BY <1>1, <1>3 DEF SignedInStays
<1>10. QED
  BY <1>4, <1>7, <1>8, <1>9 DEF OAuthInvariant

\* access_token takes what there is, or begins to ask; a refresh or a sign-in
\* may come to nothing.
LEMMA LocalKeeps ==
  ASSUME OAuthInvariant, NEW p \in Processes,
         \/ UseCached(p) \/ UseSaved(p) \/ Ask(p) \/ RefreshFails(p)
         \/ Login(p) \/ LoginFails(p)
  PROVE  OAuthInvariant'
<1>0. /\ issued \in Nat /\ store \in Tokens(issued) /\ cache \in [Processes -> Tokens(issued)]
      /\ UNCHANGED <<rotating, live, issued, losses, store>> /\ client[p].pc # "save"
      /\ cache' \in [Processes -> Tokens(issued)]
  BY DEF OAuthInvariant, OAuthTypes, UseCached, UseSaved, Ask, RefreshFails, Login, LoginFails, server
<1>1. ASSUME NEW token \in Tokens(issued), Gets(p, token)
      PROVE  OAuthInvariant'
  <2> DEFINE l == [Resting EXCEPT !.got = token.access]
  <2>1. l \in ClientStates(issued) /\ l.pc = "idle"
    BY <1>0 DEF Resting, NoToken, ClientStates, Tokens
  <2>2. client' = [client EXCEPT ![p] = l]
    BY <1>1 DEF Gets
  <2> HIDE DEF l
  <2>3. QED
    BY <1>0, <2>1, <2>2, QuietKeeps
<1>2. ASSUME NEW pc \in {"idle", "refresh", "credentials", "device"}, NEW token \in Tokens(issued),
             Local(p, pc, token), pc = "refresh" => token = store
      PROVE  OAuthInvariant'
  <2> DEFINE l == [pc |-> pc, token |-> token, got |-> 0]
  <2>1. l \in ClientStates(issued) /\ l.pc = pc /\ l.token = token /\ pc # "save"
    BY <1>0 DEF ClientStates
  <2>2. client' = [client EXCEPT ![p] = l]
    BY <1>2 DEF Local
  <2> HIDE DEF l
  <2>3. QED
    BY <1>0, <1>2, <2>1, <2>2, QuietKeeps
<1>3. NoToken \in Tokens(issued)
  BY <1>0 DEF NoToken, Tokens
<1>4. cache[p] \in Tokens(issued)
  BY <1>0
<1>5. QED
  BY <1>0, <1>1, <1>2, <1>3, <1>4 DEF UseCached, UseSaved, Ask, RefreshFails, Login, LoginFails

\* The server answers a refresh or a sign-in.
LEMMA ServerKeeps ==
  ASSUME OAuthInvariant, NEW p \in Processes, Refresh(p) \/ Granted(p)
  PROVE  OAuthInvariant'
<1> DEFINE old == client[p].token.refresh
           new == issued + 1
<1>0. /\ issued \in Nat /\ new \in Nat /\ issued' = new /\ live \subseteq 1..issued
      /\ client[p].pc # "save" /\ UNCHANGED <<rotating, losses, store, cache>>
      /\ rotating \in BOOLEAN
  BY DEF OAuthInvariant, OAuthTypes, Refresh, Granted, Issue
<1>1. CASE Granted(p)
  <2>1. /\ live' = live \cup {new}
        /\ client' = [client EXCEPT ![p] = [pc |-> "save", got |-> 0,
                                            token |-> [access |-> new, refresh |-> new]]]
    BY <1>1 DEF Granted, Local
  <2>2. new \in 1..(issued + 1) /\ 0 \notin live
    BY <1>0
  <2>3. QED
    BY <1>0, <2>1, <2>2, AnswerKeepsSignIn
<1>2. CASE Refresh(p) /\ rotating
  <2>1. /\ live' = (live \ {old}) \cup {new}
        /\ Local(p, "save", Refreshed(old, [access |-> new, refresh |-> new]))
        /\ client[p].pc = "refresh"
    BY <1>2 DEF Refresh
  <2>2. Refreshed(old, [access |-> new, refresh |-> new]) = [access |-> new, refresh |-> new]
    BY <1>0 DEF Refreshed
  <2>3. client' = [client EXCEPT ![p] = [pc |-> "save", got |-> 0,
                                        token |-> [access |-> new, refresh |-> new]]]
    BY <2>1, <2>2 DEF Local
  <2>4. new \in 1..(issued + 1)
    BY <1>0
  <2> HIDE DEF old
  <2>5. QED
    BY <1>0, <1>2, <2>1, <2>3, <2>4, AnswerKeepsSignIn DEF old
<1>3. CASE Refresh(p) /\ ~rotating
  <2>1. /\ live' = live /\ old \in live
        /\ Local(p, "save", Refreshed(old, [access |-> new, refresh |-> 0]))
    BY <1>3 DEF Refresh
  <2>2. Refreshed(old, [access |-> new, refresh |-> 0]) = [access |-> new, refresh |-> old]
    BY DEF Refreshed
  <2>3. client' = [client EXCEPT ![p] = [pc |-> "save", got |-> 0,
                                        token |-> [access |-> new, refresh |-> old]]]
    BY <2>1, <2>2 DEF Local
  <2> HIDE DEF old
  <2>4. old \in 1..issued
    BY <1>0, <2>1
  <2>5. old \in 1..(issued + 1)
    BY <1>0, <2>4
  <2>6. QED
    BY <1>0, <1>3, <2>1, <2>3, <2>5, AnswerKeepsSignIn
<1>4. QED
  BY <1>0, <1>1, <1>2, <1>3

\* What the client itself is given has no refresh token.
LEMMA CredentialsKeep ==
  ASSUME OAuthInvariant, NEW p \in Processes, ClientCredentials(p)
  PROVE  OAuthInvariant'
<1> DEFINE token == [access |-> issued + 1, refresh |-> 0]
           l == [Resting EXCEPT !.got = token.access]
<1>0. /\ issued \in Nat /\ issued' = issued + 1 /\ client[p].pc = "credentials"
      /\ UNCHANGED <<rotating, live, losses, store>>
      /\ cache' = [cache EXCEPT ![p] = token] /\ client' = [client EXCEPT ![p] = l]
  BY DEF OAuthInvariant, OAuthTypes, ClientCredentials, Issue, Gets
<1>1. token \in Tokens(issued + 1) /\ l \in ClientStates(issued + 1) /\ l.pc = "idle"
  BY <1>0 DEF Resting, NoToken, ClientStates, Tokens
<1> HIDE DEF token, l
<1>2. client'[p] = l /\ \A q \in Processes \ {p} : client'[q] = client[q]
  BY <1>0 DEF OAuthInvariant, OAuthTypes
<1>3. OAuthTypes'
  <2>1. /\ client' \in [Processes -> ClientStates(issued + 1)]
        /\ cache' \in [Processes -> Tokens(issued + 1)] /\ store' \in Tokens(issued + 1)
    BY <1>0, <1>1, StatesGrow DEF OAuthInvariant, OAuthTypes
  <2>2. live' \subseteq 1..(issued + 1)
    BY <1>0 DEF OAuthInvariant, OAuthTypes
  <2>3. QED
    BY <1>0, <2>1, <2>2 DEF OAuthInvariant, OAuthTypes
<1>4. SavedIsLive' /\ HeldAlone' /\ SignedInStays'
  BY <1>0, <1>1, <1>2 DEF OAuthInvariant, SavedIsLive, HeldAlone, SignedInStays
<1>5. QED
  BY <1>3, <1>4 DEF OAuthInvariant

LEMMA SaveKeeps ==
  ASSUME OAuthInvariant, NEW p \in Processes, Save(p) \/ Lose(p)
  PROVE  OAuthInvariant'
<1> DEFINE token == client[p].token
<1>0. /\ issued \in Nat /\ losses \in Nat /\ token \in Tokens(issued) /\ token.refresh \in live
      /\ client[p].pc = "save" /\ UNCHANGED <<rotating, live, issued>>
      /\ client \in [Processes -> ClientStates(issued)]
      /\ cache \in [Processes -> Tokens(issued)]
  BY DEF OAuthInvariant, OAuthTypes, ClientStates, SavedIsLive, Save, Lose, server
<1>1. PICK l \in ClientStates(issued) : l.pc = "idle" /\ client' = [client EXCEPT ![p] = l]
  <2>1. /\ Resting \in ClientStates(issued) /\ Resting.pc = "idle"
        /\ [Resting EXCEPT !.got = token.access] \in ClientStates(issued)
        /\ [Resting EXCEPT !.got = token.access].pc = "idle"
    BY <1>0 DEF Resting, NoToken, ClientStates, Tokens
  <2>2. \/ client' = [client EXCEPT ![p] = [Resting EXCEPT !.got = token.access]]
        \/ client' = [client EXCEPT ![p] = Resting]
    BY DEF Save, Lose, Gets
  <2>3. QED
    BY <2>1, <2>2
<1>2. client'[p] = l /\ \A q \in Processes \ {p} : client'[q] = client[q]
  BY <1>0, <1>1
<1>3. client' \in [Processes -> ClientStates(issued)]
  BY <1>0, <1>1
<1>4. cache' \in [Processes -> Tokens(issued)]
  <2>1. NoToken \in Tokens(issued)
    BY <1>0 DEF NoToken, Tokens
  <2>2. \/ cache' = [cache EXCEPT ![p] = token]
        \/ cache' = [cache EXCEPT ![p] = NoToken]
    BY DEF Save, Lose
  <2> HIDE DEF token
  <2>3. QED
    BY <1>0, <2>1, <2>2
<1>5. SavedIsLive'
  BY <1>0, <1>1, <1>2 DEF OAuthInvariant, SavedIsLive
<1>6. CASE Save(p)
  <2>1. store' = token /\ losses' = losses
    BY <1>6 DEF Save, server
  <2>2. OAuthTypes'
    BY <1>0, <1>3, <1>4, <2>1 DEF OAuthInvariant, OAuthTypes
  <2>3. HeldAlone'
    BY <1>0, <1>1, <1>2, <2>1 DEF OAuthInvariant, HeldAlone
  <2>4. SignedInStays'
    BY <1>0, <2>1 DEF SignedInStays
  <2>5. QED
    BY <1>5, <2>2, <2>3, <2>4 DEF OAuthInvariant
<1>7. CASE Lose(p)
  <2>1. store' = store /\ losses' = losses + 1
    BY <1>7 DEF Lose
  <2>2. OAuthTypes'
    BY <1>0, <1>3, <1>4, <2>1 DEF OAuthInvariant, OAuthTypes
  <2>3. HeldAlone'
    BY <1>0, <1>1, <1>2, <2>1 DEF OAuthInvariant, HeldAlone
  <2>4. SignedInStays'
    BY <1>0, <2>1 DEF SignedInStays
  <2>5. QED
    BY <1>5, <2>2, <2>3, <2>4 DEF OAuthInvariant
<1>8. QED
  BY <1>6, <1>7

\* oauth.py, oauth_store.py: what the processes hold of the server's tokens.
THEOREM TokensAreSound == OAuthSpec => []OAuthInvariant
<1>1. OAuthInvariant /\ [OAuthNext]_oauthVars => OAuthInvariant'
  <2> SUFFICES ASSUME OAuthInvariant, [OAuthNext]_oauthVars PROVE OAuthInvariant'
    OBVIOUS
  <2>1. CASE Expire \/ UNCHANGED oauthVars
    <3>1. UNCHANGED <<rotating, live, issued, losses, store, cache, client>>
      BY <2>1 DEF Expire, oauthVars
    <3>2. QED
      BY <3>1 DEF OAuthInvariant, OAuthTypes, SavedIsLive, HeldAlone, SignedInStays
  <2>2. QED
    BY <2>1, LocalKeeps, ServerKeeps, CredentialsKeep, SaveKeeps DEF OAuthNext, Token
<1>2. QED
  BY <1>1, OAuthFirst, PTL DEF OAuthSpec

\* Who signed in stays signed in, however many processes refresh or sign in at
\* once, as long as no answer was lost on its way to the token file.
THEOREM SignInsAreKept == OAuthSpec => []SignedInStays
<1>1. OAuthInvariant => SignedInStays
  BY DEF OAuthInvariant
<1>2. QED
  BY <1>1, TokensAreSound, PTL

-----------------------------------------------------------------------------
(***************************************************************************)
(* AcpTurns.  Whatever the agent sends, in whatever order: a response in   *)
(* the pipe that names a request is one the agent gave, and an outcome on  *)
(* its way to the agent allows only what the policy does.                  *)
(***************************************************************************)
Kinds == ToolKinds \cup {"none"}

Lines == [type: {"response", "permission", "notification", "garbage"},
          id: Nat, stop: Stops, http: BOOLEAN, kind: Kinds]

Given(answers) ==
    {l \in Lines : l.type = "response" /\ l.id # 0 => <<l.id, l.stop>> \in answers}

Orders == [type: {"request", "outcome"}, id: Nat, kind: Kinds, allowed: BOOLEAN]

Permitted == {m \in Orders : m.allowed => Allows(m.kind)}

Turns == [id: Nat, waiting: BOOLEAN, http: BOOLEAN, ended: {"no", "ok", "error", "raised"}]

Callers == [pc: {"starting", "waiting", "returned"},
            result: {"none", "ok", "error", "raised"}]

AgentStates == [alive: BOOLEAN, http: BOOLEAN, open: SUBSET Nat,
                answered: SUBSET (Nat \X Stops), asked: SUBSET Kinds,
                granted: SUBSET Kinds, says: Nat]

AcpTypes ==
    /\ role \in {"worker", "critic", "login"}
    /\ turn \in Turns /\ caller \in Callers /\ agent \in AgentStates
    /\ toAgent \in Seq(Permitted) /\ toClient \in Seq(Given(agent.answered))

\* The agent answered the last request with the end of the turn.
LastAnswered ==
    \E answer \in agent.answered :
       answer[1] = Len(Steps) /\ (answer[2] = "end_turn" \/ (role = "login" /\ answer[2] # "error"))

TurnIsHonest == turn.ended = "ok" => LastAnswered

CallerIsHonest ==
    /\ caller.result = "ok" => turn.ended = "ok"
    /\ caller.pc # "waiting" => ~agent.alive

GrantsAllowed == \A kind \in agent.granted : Allows(kind)

AcpInvariant == AcpTypes /\ TurnIsHonest /\ CallerIsHonest /\ GrantsAllowed

\* What a pipe holds, and what it holds after a line was read or written.
LEMMA PipeFacts ==
  ASSUME NEW S, NEW s \in Seq(S)
  PROVE  /\ s # <<>> => Head(s) \in S /\ Tail(s) \in Seq(S)
         /\ \A x \in S : Append(s, x) \in Seq(S)
         /\ \A T : S \subseteq T => s \in Seq(T)
OBVIOUS

LEMMA AcpFirst == AcpInit => AcpInvariant
<1> SUFFICES ASSUME AcpInit PROVE AcpInvariant
  OBVIOUS
<1>1. NotStarted \in AgentStates /\ NotStarted.granted = {} /\ ~NotStarted.alive
  BY DEF NotStarted, AgentStates
<1>2. toAgent \in Seq(Permitted) /\ toClient \in Seq(Given(agent.answered))
  BY DEF AcpInit
<1>3. AcpTypes
  BY <1>1, <1>2 DEF AcpInit, AcpTypes, Turns, Callers
<1>4. QED
  BY <1>1, <1>3 DEF AcpInit, AcpInvariant, TurnIsHonest, CallerIsHonest, GrantsAllowed

\* A step of the agent that takes nothing back it has answered.
LEMMA AgentKeeps ==
  ASSUME AcpInvariant, UNCHANGED <<role, policy, transport, turn, caller>>,
         agent' \in AgentStates, agent'.alive => agent.alive,
         agent.answered \subseteq agent'.answered,
         \A kind \in agent'.granted : kind \in agent.granted \/ Allows(kind),
         toAgent' \in Seq(Permitted), toClient' \in Seq(Given(agent'.answered))
  PROVE  AcpInvariant'
<1>1. Permitted' = Permitted /\ \A kind : Allows(kind)' = Allows(kind)
  BY DEF Permitted, Allows
<1>2. AcpTypes'
  BY <1>1 DEF AcpInvariant, AcpTypes, Given
<1>3. LastAnswered => LastAnswered'
  BY DEF LastAnswered, Steps
<1>4. TurnIsHonest' /\ CallerIsHonest' /\ GrantsAllowed'
  BY <1>1, <1>3 DEF AcpInvariant, TurnIsHonest, CallerIsHonest, GrantsAllowed
<1>5. QED
  BY <1>2, <1>4 DEF AcpInvariant

LEMMA AgentStepKeeps ==
  ASSUME AcpInvariant, AgentStep
  PROVE  AcpInvariant'
<1>0. /\ agent \in AgentStates /\ UNCHANGED <<role, policy, transport, turn, caller>>
      /\ toAgent \in Seq(Permitted) /\ toClient \in Seq(Given(agent.answered))
  BY DEF AcpInvariant, AcpTypes, AgentStep, AgentReads, AgentAnswers, AgentSays, AgentExits,
         config
<1>1. CASE AgentReads
  <2> DEFINE message == Head(toAgent)
  <2>1. message \in Permitted /\ Tail(toAgent) \in Seq(Permitted)
    BY <1>0, <1>1, PipeFacts DEF AgentReads
  <2>2. \/ agent' = [agent EXCEPT !.open = @ \cup {message.id}]
        \/ /\ agent' = [agent EXCEPT !.asked = @ \ {message.kind},
                          !.granted = IF message.allowed THEN @ \cup {message.kind} ELSE @]
           /\ message.type # "request"
    BY <1>1 DEF AgentReads
  <2>3. message.id \in Nat /\ message.kind \in Kinds /\ (message.allowed => Allows(message.kind))
    BY <2>1 DEF Permitted, Orders
  <2> HIDE DEF message
  <2>4. /\ agent' \in AgentStates /\ agent'.alive = agent.alive
        /\ agent'.answered = agent.answered
        /\ \A kind \in agent'.granted : kind \in agent.granted \/ Allows(kind)
    <3>1. /\ agent.open \cup {message.id} \in SUBSET Nat
          /\ agent.asked \ {message.kind} \in SUBSET Kinds
          /\ agent.granted \cup {message.kind} \in SUBSET Kinds
      BY <1>0, <2>3 DEF AgentStates
    <3>2. CASE agent' = [agent EXCEPT !.open = @ \cup {message.id}]
      BY <1>0, <3>1, <3>2 DEF AgentStates
    <3>3. CASE message.allowed /\ agent' = [agent EXCEPT !.asked = @ \ {message.kind},
                                                         !.granted = @ \cup {message.kind}]
      BY <1>0, <2>3, <3>1, <3>3 DEF AgentStates
    <3>4. CASE ~message.allowed /\ agent' = [agent EXCEPT !.asked = @ \ {message.kind},
                                                          !.granted = @]
      BY <1>0, <3>1, <3>4 DEF AgentStates
    <3>5. QED
      BY <2>2, <3>2, <3>3, <3>4
  <2>5. toAgent' \in Seq(Permitted) /\ toClient' = toClient
    BY <1>1, <2>1 DEF AgentReads, message
  <2>6. QED
    BY <1>0, <2>4, <2>5, AgentKeeps
<1>2. CASE AgentAnswers
  <2>1. PICK id \in agent.open, stop \in Stops, http \in BOOLEAN :
          /\ agent' = [agent EXCEPT !.open = @ \ {id}, !.answered = @ \cup {<<id, stop>>}]
          /\ Says([type |-> "response", id |-> id, stop |-> stop, http |-> http, kind |-> "none"])
    BY <1>2 DEF AgentAnswers
  <2> DEFINE l == [type |-> "response", id |-> id, stop |-> stop, http |-> http, kind |-> "none"]
  <2>2. id \in Nat
    BY <1>0 DEF AgentStates
  <2>3. /\ agent' \in AgentStates /\ agent'.alive = agent.alive
        /\ agent'.answered = agent.answered \cup {<<id, stop>>}
        /\ agent'.granted = agent.granted
    <3>1. /\ agent.open \ {id} \in SUBSET Nat
          /\ agent.answered \cup {<<id, stop>>} \in SUBSET (Nat \X Stops)
      BY <1>0, <2>2 DEF AgentStates
    <3>2. QED
      BY <1>0, <2>1, <3>1 DEF AgentStates
  <2>4. l \in Given(agent'.answered) /\ Given(agent.answered) \subseteq Given(agent'.answered)
    BY <2>2, <2>3 DEF Given, Lines, Kinds
  <2>5. toClient' = Append(toClient, l)
    BY <2>1 DEF Says
  <2> HIDE DEF l
  <2>6. toClient' \in Seq(Given(agent'.answered))
    BY <1>0, <2>4, <2>5, PipeFacts
  <2>7. toAgent' = toAgent
    BY <1>2 DEF AgentAnswers
  <2>8. QED
    BY <1>0, <2>3, <2>6, <2>7, AgentKeeps
<1>3. CASE AgentSays
  <2>1. PICK type \in {"permission", "notification", "stray", "garbage"}, kind \in ToolKinds :
          /\ agent' = [agent EXCEPT !.says = @ + 1,
                         !.asked = IF type = "permission" THEN @ \cup {kind} ELSE @]
          /\ Says([type |-> IF type = "stray" THEN "response" ELSE type, id |-> 0,
                   stop |-> "end_turn", http |-> FALSE, kind |-> kind])
    BY <1>3 DEF AgentSays
  <2> DEFINE l == [type |-> IF type = "stray" THEN "response" ELSE type, id |-> 0,
                   stop |-> "end_turn", http |-> FALSE, kind |-> kind]
  <2>2. /\ agent' \in AgentStates /\ agent'.alive = agent.alive
        /\ agent'.answered = agent.answered /\ agent'.granted = agent.granted
    <3>1. /\ agent.asked \cup {kind} \in SUBSET Kinds /\ agent.says + 1 \in Nat
          /\ agent.asked \in SUBSET Kinds
      BY <1>0 DEF AgentStates, Kinds
    <3>2. QED
      BY <1>0, <2>1, <3>1 DEF AgentStates
  <2>3. l \in Given(agent.answered)
    BY DEF Given, Lines, Kinds, Stops
  <2>4. toClient' = Append(toClient, l)
    BY <2>1 DEF Says
  <2> HIDE DEF l
  <2>5. toClient' \in Seq(Given(agent'.answered))
    BY <1>0, <2>2, <2>3, <2>4, PipeFacts
  <2>6. toAgent' = toAgent
    BY <1>3 DEF AgentSays
  <2>7. QED
    BY <1>0, <2>2, <2>5, <2>6, AgentKeeps
<1>4. CASE AgentExits
  <2>1. /\ agent' \in AgentStates /\ ~agent'.alive
        /\ agent'.answered = agent.answered /\ agent'.granted = agent.granted
    BY <1>0, <1>4 DEF AgentExits, AgentStates
  <2>2. toAgent' = toAgent /\ toClient' = toClient
    BY <1>4 DEF AgentExits
  <2>3. QED
    BY <1>0, <2>1, <2>2, AgentKeeps
<1>5. QED
  BY <1>1, <1>2, <1>3, <1>4 DEF AgentStep

\* A step of the turn, which ends well only after the last answer.
LEMMA TurnKeeps ==
  ASSUME AcpInvariant, UNCHANGED <<role, policy, transport, caller, agent>>,
         turn.ended = "no", turn' \in Turns, turn'.ended = "ok" => LastAnswered,
         toAgent' \in Seq(Permitted), toClient' \in Seq(Given(agent.answered))
  PROVE  AcpInvariant'
<1>1. Permitted' = Permitted /\ \A kind : Allows(kind)' = Allows(kind)
  BY DEF Permitted, Allows
<1>2. AcpTypes'
  BY <1>1 DEF AcpInvariant, AcpTypes, Given
<1>3. LastAnswered' = LastAnswered
  BY DEF LastAnswered, Steps
<1>4. TurnIsHonest' /\ CallerIsHonest' /\ GrantsAllowed'
  BY <1>1, <1>3 DEF AcpInvariant, TurnIsHonest, CallerIsHonest, GrantsAllowed
<1>5. QED
  BY <1>2, <1>4 DEF AcpInvariant

LEMMA TurnStepKeeps ==
  ASSUME AcpInvariant, TurnStep
  PROVE  AcpInvariant'
<1>0. /\ turn \in Turns /\ turn.ended = "no" /\ UNCHANGED <<role, policy, transport, caller, agent>>
      /\ toAgent \in Seq(Permitted) /\ toClient \in Seq(Given(agent.answered))
  BY DEF AcpInvariant, AcpTypes, TurnStep, NextRequest, AnswerPermission, SkipLine, TakeAnswer,
         TurnBreaks, Running, config
<1>1. /\ toClient # <<>> => /\ Line \in Given(agent.answered)
                            /\ Tail(toClient) \in Seq(Given(agent.answered))
  BY <1>0, PipeFacts DEF Line
\* The turn ends in another way than well, or takes a step of its own.
<1>2. /\ \A how \in {"error", "raised"} : Ends(how) => turn' \in Turns /\ turn'.ended # "ok"
      /\ Ends("ok") => turn' \in Turns
  BY <1>0 DEF Ends, Turns
<1>3. CASE NextRequest
  <2>1. CASE \E how \in {"error", "raised"} : Ends(how) /\ UNCHANGED toAgent
    <3>1. turn' \in Turns /\ turn'.ended # "ok" /\ toAgent' = toAgent /\ toClient' = toClient
      BY <1>2, <1>3, <2>1 DEF NextRequest
    <3>2. QED
      BY <1>0, <3>1, TurnKeeps
  <2>2. CASE /\ turn' = [turn EXCEPT !.id = @ + 1, !.waiting = TRUE]
             /\ toAgent' = Append(toAgent, [type |-> "request", id |-> turn.id + 1,
                                            kind |-> "none", allowed |-> FALSE])
    <3> DEFINE m == [type |-> "request", id |-> turn.id + 1, kind |-> "none", allowed |-> FALSE]
    <3>0. turn.id + 1 \in Nat
      BY <1>0 DEF Turns
    <3>1. turn' \in Turns /\ turn'.ended = "no" /\ turn.id + 1 \in Nat
      BY <1>0, <2>2, <3>0 DEF Turns
    <3>2. m \in Permitted
      BY <3>1 DEF Permitted, Orders, Kinds
    <3>3. toAgent' = Append(toAgent, m) /\ toClient' = toClient
      BY <1>3, <2>2 DEF NextRequest
    <3> HIDE DEF m
    <3>4. toAgent' \in Seq(Permitted)
      BY <1>0, <3>2, <3>3, PipeFacts
    <3>5. QED
      BY <1>0, <3>1, <3>3, <3>4, TurnKeeps
  <2>3. QED
    BY <1>3, <2>1, <2>2 DEF NextRequest
<1>4. CASE AnswerPermission
  <2>1. toClient' = Tail(toClient) /\ toClient # <<>>
    BY <1>4 DEF AnswerPermission
  <2>2. CASE turn' = turn
    <3>1. PICK option \in BOOLEAN :
            toAgent' = Append(toAgent, [type |-> "outcome", id |-> 0, kind |-> Line.kind,
                                        allowed |-> option /\ Allows(Line.kind)])
               \/ toAgent' = toAgent
      BY <1>4 DEF AnswerPermission
    <3> DEFINE m == [type |-> "outcome", id |-> 0, kind |-> Line.kind,
                     allowed |-> option /\ Allows(Line.kind)]
    <3>2. Line.kind \in Kinds
      BY <1>1, <2>1 DEF Given, Lines
    <3>3. m \in Permitted
      BY <3>2 DEF Permitted, Orders
    <3>4. toAgent' = Append(toAgent, m) \/ toAgent' = toAgent
      BY <3>1
    <3> HIDE DEF m
    <3>5. toAgent' \in Seq(Permitted)
      BY <1>0, <3>3, <3>4, PipeFacts
    <3>6. QED
      BY <1>0, <1>1, <2>1, <2>2, <3>5, TurnKeeps
  <2>3. CASE Ends("raised") /\ toAgent' = toAgent
    BY <1>0, <1>1, <1>2, <2>1, <2>3, TurnKeeps
  <2>4. QED
    BY <1>4, <2>2, <2>3 DEF AnswerPermission
<1>5. CASE SkipLine
  <2>1. toClient' = Tail(toClient) /\ toClient # <<>> /\ toAgent' = toAgent /\ turn' = turn
    BY <1>5 DEF SkipLine
  <2>2. QED
    BY <1>0, <1>1, <2>1, TurnKeeps
<1>6. CASE TakeAnswer
  <2>1. /\ toClient' = Tail(toClient) /\ toClient # <<>> /\ toAgent' = toAgent
        /\ Line.type = "response" /\ Line.id = turn.id
    BY <1>6 DEF TakeAnswer, AnswersMine
  <2>2. CASE Ends("error")
    BY <1>0, <1>1, <1>2, <2>1, <2>2, TurnKeeps
  <2>3. CASE turn' = [turn EXCEPT !.waiting = FALSE, !.http = IF turn.id = 1 THEN Line.http ELSE @]
    <3>1. Line.http \in BOOLEAN
      BY <1>1, <2>1 DEF Given, Lines
    <3>2. turn' \in Turns /\ turn'.ended = "no"
      BY <1>0, <2>3, <3>1 DEF Turns
    <3>3. QED
      BY <1>0, <1>1, <2>1, <3>2, TurnKeeps
  <2>4. CASE /\ Ends("ok") /\ turn.id = Len(Steps) /\ Line.stop # "error"
             /\ ~(role # "login" /\ Line.stop = "refusal")
    <3>1. Line.id # 0 /\ Line.stop \in Stops
      BY <1>1, <2>1, <2>4 DEF Steps, Given, Lines
    <3>2. <<Line.id, Line.stop>> \in agent.answered
      BY <1>1, <2>1, <3>1 DEF Given
    <3>3. LastAnswered
      BY <2>1, <2>4, <3>1, <3>2 DEF LastAnswered, Stops
    <3>4. QED
      BY <1>0, <1>1, <1>2, <2>1, <2>4, <3>3, TurnKeeps
  <2>5. QED
    BY <1>6, <2>2, <2>3, <2>4 DEF TakeAnswer
<1>7. CASE TurnBreaks
  <2>1. turn' \in Turns /\ turn'.ended # "ok" /\ toAgent' = toAgent /\ toClient' = toClient
    BY <1>2, <1>7 DEF TurnBreaks
  <2>2. QED
    BY <1>0, <2>1, TurnKeeps
<1>8. QED
  BY <1>3, <1>4, <1>5, <1>6, <1>7 DEF TurnStep

\* The caller starts the agent, and stops it whichever way it returns.
LEMMA CallerKeeps ==
  ASSUME AcpInvariant, Start \/ Return
  PROVE  AcpInvariant'
<1>0. /\ UNCHANGED <<role, policy, transport, turn, toAgent, toClient>>
      /\ agent \in AgentStates /\ caller \in Callers /\ turn \in Turns
  BY DEF AcpInvariant, AcpTypes, Start, Return, config
<1>1. /\ agent' \in AgentStates /\ caller' \in Callers
      /\ agent'.answered = agent.answered /\ agent'.granted = agent.granted
      /\ caller'.pc # "waiting" => ~agent'.alive
      /\ caller'.result = "ok" => turn.ended = "ok"
  <2>1. CASE Start
    <3>1. caller.result = "ok" => turn.ended = "ok"
      BY DEF AcpInvariant, CallerIsHonest
    <3>2. ~agent.alive
      BY <2>1 DEF Start, AcpInvariant, CallerIsHonest
    <3>3. CASE caller' = [caller EXCEPT !.pc = "waiting"] /\ agent' = [agent EXCEPT !.alive = TRUE]
      BY <1>0, <3>1, <3>3 DEF AgentStates, Callers
    <3>4. CASE caller' = [pc |-> "returned", result |-> "error"] /\ agent' = agent
      BY <1>0, <3>2, <3>4 DEF Callers
    <3>5. QED
      BY <2>1, <3>3, <3>4 DEF Start
  <2>2. CASE Return
    BY <1>0, <2>2 DEF Return, Terminated, AgentStates, Callers, Turns
  <2>3. QED
    BY <2>1, <2>2
<1>2. Permitted' = Permitted /\ \A kind : Allows(kind)' = Allows(kind)
  BY <1>0 DEF Permitted, Allows
<1>3. AcpTypes'
  BY <1>0, <1>1, <1>2 DEF AcpInvariant, AcpTypes, Given
<1>4. LastAnswered' = LastAnswered
  BY <1>0, <1>1 DEF LastAnswered, Steps
<1>5. TurnIsHonest' /\ CallerIsHonest' /\ GrantsAllowed'
  BY <1>0, <1>1, <1>2, <1>4 DEF AcpInvariant, TurnIsHonest, CallerIsHonest, GrantsAllowed
<1>6. QED
  BY <1>3, <1>5 DEF AcpInvariant

\* acp.py: what the pipes hold, and what the thread and the caller know.
THEOREM TurnsAreSound == AcpSpec => []AcpInvariant
<1>1. AcpInvariant /\ UNCHANGED acpVars => AcpInvariant'
  <2> SUFFICES ASSUME AcpInvariant, UNCHANGED acpVars PROVE AcpInvariant'
    OBVIOUS
  <2>1. UNCHANGED <<role, policy, transport, turn, caller, agent, toAgent, toClient>>
    BY DEF acpVars
  <2>2. QED
    BY <2>1, AgentKeeps DEF AcpInvariant, AcpTypes
<1>2. AcpInvariant /\ [AcpNext]_acpVars => AcpInvariant'
  BY <1>1, AgentStepKeeps, TurnStepKeeps, CallerKeeps DEF AcpNext
<1>3. QED
  BY <1>2, AcpFirst, PTL DEF AcpSpec

\* acp.py, acp_agents.py: a turn succeeds with the agent's own answer to its last
\* request, and the agent was allowed no more than the policy of its role.
THEOREM LocalTurns == AcpSpec => []LocalTurnsHold
<1>1. AcpInvariant => LocalTurnsHold
  <2> SUFFICES ASSUME AcpInvariant PROVE LocalTurnsHold
    OBVIOUS
  <2>1. ResultIsOfThisTurn
    BY DEF AcpInvariant, TurnIsHonest, CallerIsHonest, LastAnswered, ResultIsOfThisTurn
  <2>2. PermissionsWithinPolicy
    BY DEF AcpInvariant, GrantsAllowed, Allows, PermissionsWithinPolicy
  <2>3. QED
    BY <2>1, <2>2 DEF LocalTurnsHold
<1>2. QED
  BY <1>1, TurnsAreSound, PTL

-----------------------------------------------------------------------------
(***************************************************************************)
(* A2AClients.  What a client has heard of its task the agent has said, so *)
(* a completion heard is one that stands; the shared receiver counts who   *)
(* is inside; and the inbox of a waiting client holds all it was sent.     *)
(***************************************************************************)
TaskStates == {Working} \cup Terminal

TaskEvents == TaskStates \cup {Message}

Remotes == [state: TaskStates \cup {"none"}, emitted: Seq(TaskEvents)]

Receivers == [references: Nat, running: BOOLEAN, evicted: SUBSET Clients,
              inbox: [tasks: Seq(Clients), events: [Clients -> Seq(TaskEvents)]]]

CallStates == [pc: {"prepare", "discover", "enter", "send", "stream", "subscribed", "push",
                    "poll", "leave", "ended", "returned"},
               by: Ways, seen: Seq(TaskEvents), named: BOOLEAN,
               end: {"none", "result", "error", "timeout", "usable", "final", "retryable"}]

A2ATypes ==
    /\ remote \in [Clients -> Remotes] /\ net \in [Clients -> SUBSET Nat]
    /\ receiver \in Receivers /\ calls \in [Clients -> CallStates]
    /\ recorded \in [Clients -> Seq(TaskEvents)]

InPlace(l) ==
    /\ l.pc \in {"enter", "push", "leave"} => l.by = "push"
    /\ l.pc = "poll" => l.by = "poll"
    /\ l.pc \in {"stream", "subscribed"} => l.by = "stream"

Unstarted == {"prepare", "discover", "enter", "send"}

NothingSent(c) ==
    /\ remote[c] = Unsent /\ net[c] = {} /\ recorded[c] = <<>>
    /\ calls[c].seen = <<>> /\ receiver.inbox.events[c] = <<>>

Messaged(r) == Message \in ToSet(r.emitted)

\* What an agent may have said of this task.
SaidIn(r) ==
    {x \in TaskEvents : /\ x = "COMPLETED" => r.state = "COMPLETED"
                        /\ x = Message => Messaged(r)}

\* What the agent has said of a task it does not take back.
Later(before, after) ==
    /\ before.state = "COMPLETED" => after.state = "COMPLETED"
    /\ Messaged(before) => Messaged(after)

Heard(c) ==
    LET said == SaidIn(remote[c]) IN
    /\ remote[c].emitted \in Seq(said) /\ net[c] \subseteq 1..Len(remote[c].emitted)
    /\ calls[c].seen \in Seq(said) /\ recorded[c] \in Seq(said)
    /\ receiver.inbox.events[c] \in Seq(said)

Unbroken(c) ==
    calls[c].by = "push" /\ c \notin receiver.evicted /\ Len(recorded[c]) <= EventLimit

NothingMissed(c) ==
    Unbroken(c) => /\ IsPrefix(calls[c].seen, recorded[c])
                   /\ calls[c].pc = "push" => receiver.inbox.events[c] = recorded[c]

Told(r) == r.state = "COMPLETED" \/ Messaged(r)

Earned(l, r) == l.end \in {"result", "usable"} => Told(r) \/ ~l.named

EndIsHonest(c) == Earned(calls[c], remote[c])

ClientHolds(c) ==
    /\ InPlace(calls[c]) /\ (calls[c].pc \in Unstarted => NothingSent(c))
    /\ Heard(c) /\ NothingMissed(c) /\ EndIsHonest(c)

A2AInvariant == A2ATypes /\ ReceiverHeld /\ \A c \in Clients : ClientHolds(c)

\* The first part of a sequence, and what follows it.
LEMMA PrefixFacts ==
  ASSUME NEW S, NEW s \in Seq(S), NEW t \in Seq(S)
  PROVE  /\ IsPrefix(<<>>, t) /\ IsPrefix(t, t)
         /\ IsPrefix(s, t) => s \o SubSeq(t, Len(s) + 1, Len(t)) = t
         /\ \A x \in S : IsPrefix(s, t) => IsPrefix(s, Append(t, x))
<1>1. IsPrefix(<<>>, t) /\ IsPrefix(t, t)
  BY DEF IsPrefix
<1>2. ASSUME IsPrefix(s, t) PROVE s \o SubSeq(t, Len(s) + 1, Len(t)) = t
  <2>1. /\ Len(s) \in Nat /\ Len(t) \in Nat /\ Len(s) <= Len(t)
        /\ SubSeq(s, 1, Len(s)) = SubSeq(t, 1, Len(s))
    BY <1>2 DEF IsPrefix
  <2>2. s = SubSeq(t, 1, Len(s)) /\ t = SubSeq(t, 1, Len(t))
    BY <2>1, SubSeqFull
  <2>3. SubSeq(t, 1, Len(s)) \o SubSeq(t, Len(s) + 1, Len(t)) = SubSeq(t, 1, Len(t))
    <3>1. 1 \in 1..(Len(t) + 1) /\ Len(s) \in (1 - 1)..Len(t) /\ Len(t) \in Len(s)..Len(t)
      BY <2>1
    <3>2. QED
      BY <3>1, ConcatAdjacentSubSeq
  <2>4. QED
    BY <2>2, <2>3
<1>3. ASSUME NEW x \in S, IsPrefix(s, t) PROVE IsPrefix(s, Append(t, x))
  <2>1. /\ Len(s) \in Nat /\ Len(t) \in Nat /\ Len(s) <= Len(t)
        /\ SubSeq(s, 1, Len(s)) = SubSeq(t, 1, Len(s))
    BY <1>3 DEF IsPrefix
  <2>2. SubSeq(Append(t, x), 1, Len(s)) = SubSeq(t, 1, Len(s)) /\ Len(Append(t, x)) = Len(t) + 1
    BY <2>1
  <2>3. QED
    BY <2>1, <2>2 DEF IsPrefix
<1>4. QED
  BY <1>1, <1>2, <1>3

LEMMA SaidFacts ==
  ASSUME NEW r, NEW x \in SaidIn(r)
  PROVE  /\ x \in TaskEvents
         /\ x = "COMPLETED" => r.state = "COMPLETED"
         /\ x = Message => Messaged(r)
BY DEF SaidIn

LEMMA SaidGrows ==
  ASSUME NEW before, NEW after, Later(before, after), NEW s \in Seq(SaidIn(before))
  PROVE  s \in Seq(SaidIn(after))
<1>1. ASSUME NEW x \in SaidIn(before) PROVE x \in SaidIn(after)
  <2>1. /\ x \in TaskEvents
        /\ x = "COMPLETED" => before.state = "COMPLETED"
        /\ x = Message => Messaged(before)
    BY <1>1, SaidFacts
  <2>2. (x = "COMPLETED" => after.state = "COMPLETED") /\ (x = Message => Messaged(after))
    BY <2>1, Zenon DEF Later
  <2>3. QED
    BY <2>1, <2>2, Zenon DEF SaidIn
<1>2. QED
  BY <1>1, PipeFacts

LEMMA A2AFirst == A2AInit => A2AInvariant
<1> SUFFICES ASSUME A2AInit PROVE A2AInvariant
  OBVIOUS
<1>1. PICK mix \in Mixes : calls = [c \in Clients |-> Fresh(mix[c])]
  BY DEF A2AInit
<1>2. \A c \in Clients : mix[c] \in Ways
  BY <1>1, A2AConstants
<1>3. \A c \in Clients : calls[c] \in CallStates /\ calls[c].pc = "prepare" /\ calls[c].seen = <<>>
                         /\ calls[c].end = "none"
  BY <1>1, <1>2 DEF Fresh, CallStates
<1>4. Unsent \in Remotes /\ Closed \in Receivers
  BY DEF Unsent, Remotes, Closed, EmptyInbox, Receivers
<1>5. A2ATypes
  BY <1>1, <1>3, <1>4 DEF A2AInit, A2ATypes
<1>6. ReceiverHeld
  <2>1. {c \in Clients : Inside(c)} = {}
    BY <1>3 DEF Inside
  <2>2. QED
    BY <2>1, FS_EmptySet DEF A2AInit, Closed, ReceiverHeld
<1>7. ASSUME NEW c \in Clients PROVE ClientHolds(c)
  <2>1. NothingSent(c) /\ InPlace(calls[c]) /\ EndIsHonest(c)
    BY <1>3 DEF A2AInit, NothingSent, Closed, EmptyInbox, InPlace, EndIsHonest, Earned
  <2>2. <<>> \in Seq(SaidIn(remote[c])) /\ IsPrefix(<<>>, <<>>)
    BY DEF IsPrefix
  <2>3. Heard(c) /\ NothingMissed(c)
    BY <1>3, <2>1, <2>2 DEF NothingSent, Unsent, Heard, NothingMissed
  <2>4. QED
    BY <2>1, <2>3 DEF ClientHolds
<1>8. QED
  BY <1>5, <1>6, <1>7 DEF A2AInvariant

\* A step leaves a client alone: what it takes from its inbox is of no use to it.
LEMMA OthersHold ==
  ASSUME NEW d \in Clients, ClientHolds(d),
         calls'[d] = calls[d], remote'[d] = remote[d], net'[d] = net[d],
         recorded'[d] = recorded[d], receiver.evicted \subseteq receiver'.evicted,
         \/ receiver'.inbox.events[d] = receiver.inbox.events[d]
         \/ /\ receiver'.inbox.events[d] = <<>>
            /\ d \in receiver'.evicted \/ calls[d].pc # "push"
  PROVE  ClientHolds(d)'
<1>1. InPlace(calls[d])' /\ (calls[d].pc \in Unstarted => NothingSent(d))' /\ EndIsHonest(d)'
  BY DEF ClientHolds, InPlace, NothingSent, EndIsHonest
<1>2. Heard(d)'
  <2>1. Heard(d) /\ <<>> \in Seq(SaidIn(remote[d]))
    BY DEF ClientHolds
  <2>2. QED
    BY <2>1 DEF Heard
<1>3. NothingMissed(d)'
  BY DEF ClientHolds, NothingMissed, Unbroken
<1>4. QED
  BY <1>1, <1>2, <1>3 DEF ClientHolds

\* A step of c that enters or leaves no receiver: c, its task, its deliveries
\* and the receiver become l, r, n and v.
CallStep(c, l, r, n, v) ==
    /\ l \in CallStates /\ r \in Remotes /\ n \in SUBSET Nat /\ v \in Receivers
    /\ calls' = [calls EXCEPT ![c] = l] /\ remote' = [remote EXCEPT ![c] = r]
    /\ net' = [net EXCEPT ![c] = n] /\ receiver' = v /\ recorded' = recorded
    /\ v.references = receiver.references /\ v.running = receiver.running
    /\ v.evicted = receiver.evicted
    /\ \A d \in Clients \ {c} : v.inbox.events[d] = receiver.inbox.events[d]
    /\ \/ v.inbox.events[c] = receiver.inbox.events[c]
       \/ v.inbox.events[c] = <<>> /\ l.pc # "push"
    /\ l.by = calls[c].by /\ InPlace(l)
    /\ l.by = "push" => (l.pc \in {"send", "push", "leave"}
                            <=> calls[c].pc \in {"send", "push", "leave"})
    /\ l.pc = "push" => calls[c].pc \in {"send", "push"}
    /\ l.pc \in Unstarted => /\ calls[c].pc \in Unstarted
                             /\ r = remote[c] /\ n = net[c] /\ l.seen = calls[c].seen
    /\ Later(remote[c], r)
    /\ r.emitted \in Seq(SaidIn(r)) /\ n \subseteq 1..Len(r.emitted)
    /\ l.seen \in Seq(SaidIn(r))
    /\ Earned(l, r)
    /\ Unbroken(c) => IsPrefix(l.seen, recorded[c])

LEMMA CallKeeps ==
  ASSUME A2AInvariant, NEW c \in Clients, NEW l, NEW r, NEW n, NEW v, CallStep(c, l, r, n, v)
  PROVE  A2AInvariant'
<1> USE DEF CallStep
<1>0. /\ calls \in [Clients -> CallStates] /\ remote \in [Clients -> Remotes]
      /\ net \in [Clients -> SUBSET Nat] /\ recorded \in [Clients -> Seq(TaskEvents)]
      /\ ClientHolds(c)
  BY DEF A2AInvariant, A2ATypes
<1>1. /\ calls'[c] = l /\ remote'[c] = r /\ net'[c] = n
      /\ \A d \in Clients \ {c} :
            calls'[d] = calls[d] /\ remote'[d] = remote[d] /\ net'[d] = net[d]
  BY <1>0
<1>2. A2ATypes'
  BY <1>0 DEF A2ATypes
<1>3. ReceiverHeld'
  <2>1. \A d \in Clients : Inside(d)' <=> Inside(d)
    BY <1>1 DEF Inside
  <2>2. {d \in Clients : Inside(d)}' = {d \in Clients : Inside(d)}
    BY <2>1
  <2>3. QED
    BY <2>1, <2>2 DEF A2AInvariant, ReceiverHeld
<1>4. ASSUME NEW d \in Clients \ {c} PROVE ClientHolds(d)'
  BY <1>1, OthersHold DEF A2AInvariant
<1>5. ClientHolds(c)'
  <2>1. InPlace(calls[c])' /\ EndIsHonest(c)'
    BY <1>1 DEF InPlace, EndIsHonest
  <2>2. (calls[c].pc \in Unstarted => NothingSent(c))'
    BY <1>0, <1>1 DEF ClientHolds, NothingSent, Unstarted
  <2>3. Heard(c)'
    <3>1. /\ recorded[c] \in Seq(SaidIn(remote[c]))
          /\ receiver.inbox.events[c] \in Seq(SaidIn(remote[c]))
      BY <1>0 DEF ClientHolds, Heard
    <3>2. recorded[c] \in Seq(SaidIn(r)) /\ receiver.inbox.events[c] \in Seq(SaidIn(r))
      BY <3>1, SaidGrows
    <3>3. v.inbox.events[c] \in Seq(SaidIn(r))
      BY <3>2, EmptySeq
    <3>4. QED
      BY <1>1, <3>2, <3>3 DEF Heard
  <2>4. NothingMissed(c)'
    <3>1. Unbroken(c)' => Unbroken(c)
      BY <1>1 DEF Unbroken
    <3>2. calls[c].pc \in {"send", "push"} /\ Unbroken(c) => receiver.inbox.events[c] = recorded[c]
      BY <1>0 DEF ClientHolds, NothingSent, NothingMissed, Unstarted
    <3>3. QED
      BY <1>1, <3>1, <3>2 DEF NothingMissed
  <2>5. QED
    BY <2>1, <2>2, <2>3, <2>4 DEF ClientHolds
<1>6. QED
  BY <1>2, <1>3, <1>4, <1>5 DEF A2AInvariant

\* The same where the agent says nothing and the inbox stays as it is.
LEMMA LocalCallKeeps ==
  ASSUME A2AInvariant, NEW c \in Clients, NEW l \in CallStates,
         calls' = [calls EXCEPT ![c] = l], UNCHANGED <<remote, net, receiver, recorded>>,
         l.by = calls[c].by, InPlace(l),
         l.by = "push" => (l.pc \in {"send", "push", "leave"}
                             <=> calls[c].pc \in {"send", "push", "leave"}),
         l.pc = "push" => calls[c].pc \in {"send", "push"},
         l.pc \in Unstarted => calls[c].pc \in Unstarted /\ l.seen = calls[c].seen,
         l.seen \in Seq(SaidIn(remote[c])),
         Earned(l, remote[c]),
         Unbroken(c) => IsPrefix(l.seen, recorded[c])
  PROVE  A2AInvariant'
<1>1. CallStep(c, l, remote[c], net[c], receiver)
  BY DEF A2AInvariant, A2ATypes, ClientHolds, Heard, CallStep, Later
<1>2. QED
  BY <1>1, CallKeeps

\* What the agent says next.
LEMMA SaidMore ==
  ASSUME A2AInvariant, NEW c \in Clients, NEW event \in TaskEvents, remote[c].state # "COMPLETED", NEW r,
         r = [state |-> IF event = Message THEN Working ELSE event, emitted |-> Append(remote[c].emitted, event)]
  PROVE  /\ r \in Remotes /\ Later(remote[c], r) /\ r.emitted \in Seq(SaidIn(r))
         /\ event = "COMPLETED" => r.state = "COMPLETED"
         /\ event = Message => Messaged(r)
         /\ Len(remote[c].emitted) \in Nat /\ Len(r.emitted) = Len(remote[c].emitted) + 1
<1> DEFINE emitted == remote[c].emitted
           said == Append(emitted, event)
<1>0. emitted \in Seq(TaskEvents) /\ emitted \in Seq(SaidIn(remote[c]))
  BY DEF A2AInvariant, A2ATypes, ClientHolds, Heard, Remotes
<1>1. r.emitted = said /\ r.state = (IF event = Message THEN Working ELSE event)
  OBVIOUS
<1> HIDE DEF emitted
<1>2. /\ said \in Seq(TaskEvents) /\ Len(emitted) \in Nat /\ Len(said) = Len(emitted) + 1
      /\ said[Len(emitted) + 1] = event /\ \A i \in DOMAIN emitted : i \in DOMAIN said /\ said[i] = emitted[i]
      /\ Len(emitted) + 1 \in DOMAIN said
  BY <1>0
<1> HIDE DEF said
<1>3. Message \in ToSet(emitted) \/ event = Message => Message \in ToSet(said)
  BY <1>2 DEF ToSet
<1>4. r.state \in TaskStates /\ (event = "COMPLETED" => r.state = "COMPLETED")
  BY <1>1 DEF TaskEvents, TaskStates, Message
<1>5. Later(remote[c], r) /\ (event = Message => Messaged(r))
  BY <1>1, <1>3 DEF Later, Messaged, emitted
<1>6. event \in SaidIn(r)
  BY <1>4, <1>5 DEF SaidIn
<1>7. emitted \in Seq(SaidIn(r))
  BY <1>0, <1>5, SaidGrows
<1>8. said \in Seq(SaidIn(r))
  BY <1>6, <1>7, PipeFacts DEF said
<1>9. r \in Remotes
  BY <1>1, <1>2, <1>4 DEF Remotes
<1>10. QED
  BY <1>1, <1>2, <1>4, <1>5, <1>8, <1>9 DEF emitted

LEMMA EmitFacts ==
  ASSUME A2AInvariant, NEW c \in Clients, NEW event \in TaskEvents,
         remote[c].state # "COMPLETED", Emit(c, event)
  PROVE  \E r \in Remotes : \E n \in SUBSET Nat :
            /\ remote' = [remote EXCEPT ![c] = r] /\ net' = [net EXCEPT ![c] = n]
            /\ Later(remote[c], r) /\ r.emitted \in Seq(SaidIn(r)) /\ n \subseteq 1..Len(r.emitted)
            /\ event = "COMPLETED" => r.state = "COMPLETED"
            /\ event = Message => Messaged(r)
<1> DEFINE emitted == remote[c].emitted
           r == [state |-> IF event = Message THEN Working ELSE event, emitted |-> Append(emitted, event)]
<1>0. /\ remote \in [Clients -> Remotes] /\ net \in [Clients -> SUBSET Nat]
      /\ net[c] \subseteq 1..Len(emitted) /\ net[c] \in SUBSET Nat
  BY DEF A2AInvariant, A2ATypes, ClientHolds, Heard
<1>1. remote' = [remote EXCEPT ![c] = r]
  BY <1>0 DEF Emit
<1>2. \/ net' = [net EXCEPT ![c] = net[c] \cup {Len(emitted) + 1}]
      \/ net' = [net EXCEPT ![c] = net[c]]
  BY <1>0 DEF Emit
<1>3. /\ r \in Remotes /\ Later(remote[c], r) /\ r.emitted \in Seq(SaidIn(r))
      /\ event = "COMPLETED" => r.state = "COMPLETED"
      /\ event = Message => Messaged(r)
      /\ Len(emitted) \in Nat /\ Len(r.emitted) = Len(emitted) + 1
  <2>1. PICK q : q = r
    OBVIOUS
  <2>2. QED
    BY <2>1, SaidMore
<1> HIDE DEF emitted, r
<1>4. /\ net[c] \subseteq 1..Len(r.emitted) /\ net[c] \cup {Len(emitted) + 1} \subseteq 1..Len(r.emitted)
      /\ net[c] \cup {Len(emitted) + 1} \in SUBSET Nat
  BY <1>0, <1>3
<1>5. QED
  BY <1>0, <1>1, <1>2, <1>3, <1>4

\* Of what was said any first part may have been heard, and a task that was
\* heard to be completed is.
LEMMA HeardFacts ==
  ASSUME NEW r, NEW s \in Seq(SaidIn(r))
  PROVE  /\ s \in Seq(TaskEvents)
         /\ \A m \in Nat : \A n \in m..Len(s) : SubSeq(s, 1, n) \in Seq(SaidIn(r))
         /\ Outcome(LastState(s)) \in {"none", "error", "result"}
         /\ Outcome(LastState(s)) = "result" => Told(r)
<1>1. SaidIn(r) \subseteq TaskEvents
  BY DEF SaidIn
<1>2. s \in Seq(TaskEvents)
  BY <1>1, PipeFacts
<1>3. \A m \in Nat : \A n \in m..Len(s) : SubSeq(s, 1, n) \in Seq(SaidIn(r))
  OBVIOUS
<1>4. Outcome(LastState(s)) \in {"none", "error", "result"}
  BY DEF Outcome
<1>5. Outcome(LastState(s)) = "result" => LastState(s) \in {"COMPLETED", Message}
  BY DEF Outcome
<1>6. LastState(s) \in {"COMPLETED", Message} => Told(r)
  <2>1. CASE s = <<>>
    BY <2>1 DEF LastState, Message
  <2>2. CASE s # <<>>
    <3>1. Len(s) \in 1..Len(s)
      BY <2>2
    <3>2. s[Len(s)] \in SaidIn(r)
      BY <3>1
    <3>3. LastState(s) = s[Len(s)]
      BY <2>2 DEF LastState, Last
    <3>4. LastState(s) \in SaidIn(r)
      BY <3>2, <3>3
    <3>5. /\ LastState(s) = "COMPLETED" => r.state = "COMPLETED"
          /\ LastState(s) = Message => Messaged(r)
      BY <3>4, SaidFacts
    <3>6. QED
      BY <3>5 DEF Told
  <2>3. QED
    BY <2>1, <2>2
<1>7. QED
  BY <1>2, <1>3, <1>4, <1>5, <1>6

\* What the call becomes when it leaves with this end.
LEMMA LeavingFacts ==
  ASSUME NEW c, NEW l \in CallStates, NEW end \in {"result", "error", "timeout"}
  PROVE  LET left == Leaving(c, l, end) IN
         /\ left \in CallStates /\ left.by = l.by /\ left.seen = l.seen /\ left.end = end
         /\ left.named = l.named
         /\ left.pc = IF l.by = "push" THEN "leave" ELSE "ended"
         /\ InPlace(left)
BY DEF Leaving, CallStates, InPlace

\* The client leaves with what it took of this answer.
LeftWith(l, local, outcome) ==
    /\ l \in CallStates /\ l.by = local.by /\ l.seen = local.seen /\ InPlace(l)
    /\ l.pc = IF local.by = "push" THEN "leave" ELSE "ended"
    /\ l.end \in {"result", "error"}
    /\ l.end = "result" => outcome = "result" \/ ~l.named

\* The client goes on with a named task that is not over, or leaves.
LEMMA TakenFacts ==
  ASSUME NEW c, NEW local \in CallStates, NEW outcome \in {"none", "error", "result"}, NEW named \in BOOLEAN,
         NEW next, NEW l, l = Taken(c, local, outcome, named, next)
  PROVE  (outcome = "none" /\ l = next) \/ LeftWith(l, local, outcome)
<1>1. CASE outcome # "none"
  <2>1. l = Leaving(c, local, outcome) /\ outcome \in {"result", "error"}
    BY <1>1 DEF Taken
  <2>2. QED
    BY <2>1, LeavingFacts DEF LeftWith
<1>2. CASE outcome = "none" /\ ~named
  <2>1. PICK q : q = [local EXCEPT !.named = FALSE]
    OBVIOUS
  <2>2. q \in CallStates /\ q.by = local.by /\ q.seen = local.seen /\ q.named = FALSE
    BY <2>1 DEF CallStates
  <2>3. l = Leaving(c, q, "result")
    BY <1>2, <2>1 DEF Taken
  <2>4. QED
    BY <2>2, <2>3, LeavingFacts DEF LeftWith
<1>3. CASE outcome = "none" /\ named
  BY <1>3 DEF Taken
<1>4. QED
  BY <1>1, <1>2, <1>3

\* What is left of the receiver when c discards its task.
LEMMA DiscardFacts ==
  ASSUME A2AInvariant, NEW c \in Clients
  PROVE  /\ Discarded(c) \in Receivers /\ Discarded(c).inbox.events[c] = <<>>
         /\ \A d \in Clients \ {c} : Discarded(c).inbox.events[d] = receiver.inbox.events[d]
         /\ Discarded(c).references = receiver.references
         /\ Discarded(c).running = receiver.running /\ Discarded(c).evicted = receiver.evicted
<1> DEFINE tasks == receiver.inbox.tasks
           at == CHOOSE i \in DOMAIN tasks : tasks[i] = c
           kept == IF c \in ToSet(tasks) THEN RemoveAt(tasks, at) ELSE tasks
           events == [receiver.inbox.events EXCEPT ![c] = <<>>]
<1>1. /\ receiver \in Receivers /\ tasks \in Seq(Clients)
      /\ receiver.inbox.events \in [Clients -> Seq(TaskEvents)]
  BY DEF A2AInvariant, A2ATypes, Receivers
<1>2. kept \in Seq(Clients)
  <2>1. CASE c \in ToSet(tasks)
    <3>1. at \in DOMAIN tasks
      BY <2>1 DEF ToSet
    <3> HIDE DEF at
    <3>2. at \in 1..Len(tasks) /\ Len(tasks) \in Nat
      BY <1>1, <3>1
    <3> HIDE DEF tasks
    <3>3. SubSeq(tasks, 1, at - 1) \in Seq(Clients) /\ SubSeq(tasks, at + 1, Len(tasks)) \in Seq(Clients)
      BY <1>1, <3>2
    <3>4. QED
      BY <2>1, <3>3 DEF RemoveAt
  <2>2. QED
    BY <1>1, <2>1
<1>3. /\ events \in [Clients -> Seq(TaskEvents)] /\ events[c] = <<>>
      /\ \A d \in Clients \ {c} : events[d] = receiver.inbox.events[d]
  BY <1>1, EmptySeq
<1>4. Discarded(c) = [receiver EXCEPT !.inbox = [tasks |-> kept, events |-> events]]
  BY DEF Discarded
<1> DEFINE inbox == [tasks |-> kept, events |-> events]
<1>5. /\ inbox \in [tasks: Seq(Clients), events: [Clients -> Seq(TaskEvents)]]
      /\ inbox.events = events
  BY <1>2, <1>3
<1> HIDE DEF kept, events, inbox
<1>6. Discarded(c) = [receiver EXCEPT !.inbox = inbox]
  BY <1>4 DEF inbox
<1>7. /\ Discarded(c) \in Receivers /\ Discarded(c).inbox = inbox
      /\ Discarded(c).references = receiver.references
      /\ Discarded(c).running = receiver.running /\ Discarded(c).evicted = receiver.evicted
  BY <1>1, <1>5, <1>6 DEF Receivers
<1>8. QED
  BY <1>3, <1>5, <1>7

\* The steps of a call in which the agent says nothing and the receiver stays.
LEMMA QuietCallsKeep ==
  ASSUME A2AInvariant, NEW c \in Clients,
         Prepare(c) \/ Discover(c) \/ AdapterReturns(c) \/ Stream(c)
  PROVE  A2AInvariant'
<1> DEFINE k == calls[c]  said == SaidIn(remote[c])
<1>0. /\ k \in CallStates /\ InPlace(k) /\ k.seen \in Seq(said) /\ ClientHolds(c)
      /\ Unbroken(c) => IsPrefix(k.seen, recorded[c])
      /\ EndIsHonest(c)
      /\ k.by \in Ways /\ remote[c].emitted \in Seq(said) /\ remote[c] \in Remotes
  BY DEF A2AInvariant, A2ATypes, ClientHolds, Heard, NothingMissed, CallStates
<1>1. UNCHANGED <<remote, net, receiver, recorded>>
  BY DEF Prepare, Discover, AdapterReturns, Stream
<1>2. CASE Prepare(c)
  <2>1. PICK l : /\ calls' = [calls EXCEPT ![c] = l] /\ k.pc = "prepare"
                 /\ l \in {[k EXCEPT !.pc = "discover"],
                           [k EXCEPT !.pc = "returned", !.end = "final"]}
    BY <1>2 DEF Prepare, Goto, Becomes
  <2>2. /\ l \in CallStates /\ l.pc \in {"discover", "returned"} /\ l.by = k.by
        /\ l.seen = k.seen /\ l.end \in {k.end, "final"} /\ l.named = k.named
    BY <1>0, <2>1 DEF CallStates
  <2>3. QED
    BY <1>0, <1>1, <2>1, <2>2, LocalCallKeeps DEF InPlace, Unstarted, EndIsHonest, Earned
<1>3. CASE Discover(c)
  <2>1. PICK l : /\ calls' = [calls EXCEPT ![c] = l] /\ k.pc = "discover"
                 /\ \/ l = [k EXCEPT !.pc = "ended", !.end = "error"]
                    \/ l = [k EXCEPT !.pc = "enter"] /\ k.by = "push"
                    \/ l = [k EXCEPT !.pc = "send"] /\ k.by # "push"
    BY <1>3 DEF Discover, Goto, Becomes
  <2>2. /\ l \in CallStates /\ l.pc \in {"ended", "enter", "send"} /\ l.by = k.by
        /\ l.seen = k.seen /\ l.end \in {k.end, "error"} /\ l.named = k.named
        /\ l.pc = "enter" => k.by = "push"
        /\ l.pc = "send" => k.by # "push"
    BY <1>0, <2>1 DEF CallStates
  <2>3. QED
    BY <1>0, <1>1, <2>1, <2>2, LocalCallKeeps DEF InPlace, Unstarted, EndIsHonest, Earned
<1>4. CASE AdapterReturns(c)
  <2>1. PICK verdict : /\ verdict \in {"usable", "final", "retryable"}
                       /\ verdict = "usable" => k.end = "result"
                       /\ calls' = [calls EXCEPT ![c] = [k EXCEPT !.pc = "returned", !.end = verdict]]
                       /\ k.pc = "ended"
    BY <1>4 DEF AdapterReturns, Becomes
  <2> DEFINE l == [k EXCEPT !.pc = "returned", !.end = verdict]
  <2>2. /\ l \in CallStates /\ l.pc = "returned" /\ l.by = k.by
        /\ l.seen = k.seen /\ l.end = verdict /\ l.named = k.named
    BY <1>0, <2>1 DEF CallStates
  <2>3. calls' = [calls EXCEPT ![c] = l]
    BY <2>1
  <2> HIDE DEF l
  <2>4. QED
    BY <1>0, <1>1, <2>1, <2>2, <2>3, LocalCallKeeps DEF InPlace, Unstarted, EndIsHonest, Earned
<1>5. CASE Stream(c)
  <2>1. k.by = "stream" /\ k.pc \in {"stream", "subscribed"}
    BY <1>0, <1>5 DEF Stream, InPlace
  <2>2. PICK l : calls' = [calls EXCEPT ![c] = l]
             /\ \/ l = Leaving(c, k, "error")
                \/ \E n \in (Len(k.seen) + 1)..Len(remote[c].emitted) : \E named \in BOOLEAN :
                     LET local == [k EXCEPT !.seen = SubSeq(remote[c].emitted, 1, n)]
                         next == IF k.pc = "stream" THEN [local EXCEPT !.pc = "subscribed"]
                                 ELSE Leaving(c, local, "error")
                     IN l = Taken(c, local, Outcome(LastState(local.seen)), named, next)
    BY <1>5 DEF Stream, End, Becomes
  <2>3. /\ l \in CallStates /\ l.by = "stream" /\ l.pc \in {"ended", "subscribed"}
        /\ InPlace(l) /\ l.seen \in Seq(said) /\ Earned(l, remote[c])
    <3>1. CASE l = Leaving(c, k, "error")
      BY <1>0, <2>1, <3>1, LeavingFacts DEF Earned
    <3>2. ASSUME NEW n \in (Len(k.seen) + 1)..Len(remote[c].emitted), NEW named \in BOOLEAN, NEW local, NEW next,
                 local = [k EXCEPT !.seen = SubSeq(remote[c].emitted, 1, n)],
                 next = IF k.pc = "stream" THEN [local EXCEPT !.pc = "subscribed"] ELSE Leaving(c, local, "error"),
                 l = Taken(c, local, Outcome(LastState(local.seen)), named, next)
          PROVE /\ l \in CallStates /\ l.by = "stream" /\ l.pc \in {"ended", "subscribed"}
                /\ InPlace(l) /\ l.seen \in Seq(said) /\ Earned(l, remote[c])
      <4>1. PICK seen : seen = SubSeq(remote[c].emitted, 1, n)
        OBVIOUS
      <4>2. seen \in Seq(said) /\ seen \in Seq(TaskEvents)
        <5>1. Len(k.seen) + 1 \in Nat
          BY <1>0 DEF CallStates
        <5>2. QED
          BY <1>0, <4>1, <5>1, HeardFacts
      <4>3. /\ local \in CallStates /\ local.by = "stream" /\ local.seen = seen
            /\ local.end = k.end /\ local.named = k.named
        BY <1>0, <2>1, <3>2, <4>1, <4>2 DEF CallStates
      <4>4. /\ Outcome(LastState(seen)) \in {"none", "error", "result"}
            /\ Outcome(LastState(seen)) = "result" => Told(remote[c])
        BY <4>2, HeardFacts
      <4>5. CASE l = next
        <5>1. CASE k.pc = "stream"
          <6>1. /\ l \in CallStates /\ l.by = "stream" /\ l.pc = "subscribed" /\ l.seen = seen
                /\ l.end = k.end /\ l.named = k.named
            BY <3>2, <4>3, <4>5, <5>1 DEF CallStates
          <6>2. QED
            BY <1>0, <4>2, <6>1 DEF InPlace, EndIsHonest, Earned
        <5>2. CASE k.pc # "stream"
          <6>1. l = Leaving(c, local, "error")
            BY <3>2, <4>5, <5>2
          <6>2. QED
            BY <4>2, <4>3, <6>1, LeavingFacts DEF Earned
        <5>3. QED
          BY <5>1, <5>2
      <4>6. CASE l # next
        <5>1. PICK outcome \in {"none", "error", "result"} : outcome = Outcome(LastState(seen))
          BY <4>4
        <5>2. l = Taken(c, local, outcome, named, next)
          BY <3>2, <4>3, <5>1
        <5>3. /\ l \in CallStates /\ l.by = local.by /\ l.seen = local.seen /\ InPlace(l)
              /\ l.pc = IF local.by = "push" THEN "leave" ELSE "ended"
              /\ l.end \in {"result", "error"}
              /\ l.end = "result" => outcome = "result" \/ ~l.named
          <6>1. local \in CallStates /\ named \in BOOLEAN /\ outcome \in {"none", "error", "result"}
            BY <3>2, <4>3, <5>1
          <6>2. (outcome = "none" /\ l = next) \/ LeftWith(l, local, outcome)
            BY <5>2, <6>1, TakenFacts, Zenon
          <6>3. QED
            BY <4>6, <6>2 DEF LeftWith
        <5>4. QED
          BY <4>2, <4>3, <4>4, <5>1, <5>3 DEF Earned
      <4>7. QED
        BY <4>5, <4>6
    <3>3. QED
      BY <2>2, <3>1, <3>2
  <2>4. ~Unbroken(c)
    BY <2>1 DEF Unbroken
  <2>5. QED
    BY <1>0, <1>1, <2>1, <2>2, <2>3, <2>4, LocalCallKeeps DEF Unstarted
<1>6. QED
  BY <1>2, <1>3, <1>4, <1>5

\* The task is asked about, and may be over or answer with a message.
LEMMA PollKeeps ==
  ASSUME A2AInvariant, NEW c \in Clients, Poll(c)
  PROVE  A2AInvariant'
<1> DEFINE k == calls[c]
<1>0. /\ k \in CallStates /\ InPlace(k) /\ k.seen \in Seq(SaidIn(remote[c])) /\ k.pc = "poll" /\ k.by = "poll"
      /\ Unbroken(c) => IsPrefix(k.seen, recorded[c])
      /\ UNCHANGED <<net, receiver, recorded>> /\ receiver \in Receivers
      /\ net \in [Clients -> SUBSET Nat] /\ net[c] \in SUBSET Nat /\ net[c] \subseteq 1..Len(remote[c].emitted)
      /\ remote \in [Clients -> Remotes]
  BY DEF A2AInvariant, A2ATypes, ClientHolds, Heard, NothingMissed, InPlace, Poll
<1>1. ASSUME NEW end \in {"result", "error"}, NEW r \in Remotes, End(c, end), remote' = [remote EXCEPT ![c] = r],
             Later(remote[c], r), r.emitted \in Seq(SaidIn(r)), net[c] \subseteq 1..Len(r.emitted),
             end = "result" => Told(r)
      PROVE  A2AInvariant'
  <2>1. PICK l : l = Leaving(c, k, end)
    OBVIOUS
  <2>2. /\ l \in CallStates /\ l.by = k.by /\ l.seen = k.seen /\ l.end = end
        /\ l.pc = "ended" /\ InPlace(l)
    BY <1>0, <2>1, LeavingFacts
  <2>3. calls' = [calls EXCEPT ![c] = l]
    BY <1>1, <2>1 DEF End, Becomes
  <2>4. l.seen \in Seq(SaidIn(r)) /\ Earned(l, r)
    BY <1>0, <1>1, <2>2, SaidGrows DEF Earned
  <2>5. net' = [net EXCEPT ![c] = net[c]] /\ receiver' = receiver /\ recorded' = recorded
    BY <1>0
  <2>6. CallStep(c, l, r, net[c], receiver)
    BY <1>0, <1>1, <2>2, <2>3, <2>4, <2>5 DEF CallStep, Unstarted
  <2>7. QED
    BY <2>6, CallKeeps
<1>2. CASE UNCHANGED remote /\ \E end \in {"result", "error"} :
              End(c, end) /\ (end = "result" => remote[c].state = "COMPLETED")
  <2>1. /\ remote' = [remote EXCEPT ![c] = remote[c]] /\ remote[c] \in Remotes
        /\ remote[c].emitted \in Seq(SaidIn(remote[c])) /\ Later(remote[c], remote[c])
    BY <1>0, <1>2 DEF A2AInvariant, ClientHolds, Heard, Later
  <2>2. QED
    BY <1>0, <1>1, <1>2, <2>1 DEF Told
<1>3. CASE remote[c].state = Working /\ remote' = [remote EXCEPT ![c].emitted = Append(@, Message)]
           /\ End(c, "result")
  <2>1. PICK r : r = [state |-> IF Message = Message THEN Working ELSE Message,
                      emitted |-> Append(remote[c].emitted, Message)]
    OBVIOUS
  <2>2. /\ r \in Remotes /\ Later(remote[c], r) /\ r.emitted \in Seq(SaidIn(r)) /\ Messaged(r)
        /\ Len(remote[c].emitted) \in Nat /\ Len(r.emitted) = Len(remote[c].emitted) + 1
    <3>1. Message \in TaskEvents /\ remote[c].state # "COMPLETED"
      BY <1>3 DEF TaskEvents, Working
    <3>2. QED
      BY <2>1, <3>1, SaidMore
  <2>3. remote' = [remote EXCEPT ![c] = r]
    <3>1. [remote[c] EXCEPT !.emitted = Append(@, Message)] = r
      <4>1. PICK m \in Remotes : m = remote[c] /\ m.state = Working
        BY <1>0, <1>3
      <4>2. r = [state |-> Working, emitted |-> Append(m.emitted, Message)]
        BY <2>1, <4>1
      <4>3. [m EXCEPT !.emitted = Append(@, Message)] = [state |-> Working, emitted |-> Append(m.emitted, Message)]
        <5>1. m = [state |-> Working, emitted |-> m.emitted]
          BY <4>1 DEF Remotes
        <5>2. \A s : [[state |-> Working, emitted |-> s] EXCEPT !.emitted = Append(@, Message)]
                        = [state |-> Working, emitted |-> Append(s, Message)]
          OBVIOUS
        <5>3. QED
          BY <5>1, <5>2
      <4>4. QED
        BY <4>1, <4>2, <4>3
    <3>2. remote' = [remote EXCEPT ![c] = [remote[c] EXCEPT !.emitted = Append(@, Message)]]
      BY <1>0, <1>3
    <3>3. QED
      BY <3>1, <3>2
  <2>4. net[c] \subseteq 1..Len(r.emitted)
    BY <1>0, <2>2
  <2>5. QED
    BY <1>1, <1>3, <2>2, <2>3, <2>4 DEF Told
<1>4. CASE /\ Outcome(remote[c].state) # "none"
           /\ End(c, Outcome(remote[c].state)) /\ UNCHANGED remote
  <2>1. PICK state : state = remote[c].state /\ state \in TaskStates \cup {"none"}
    BY <1>0 DEF Remotes
  <2>2. /\ Outcome(state) = "none" \/ Outcome(state) \in {"result", "error"}
        /\ Outcome(state) = "result" => state = "COMPLETED"
    BY <2>1 DEF Outcome, TaskStates, Terminal, Failures, Working, Message
  <2>3. QED
    BY <1>2, <1>4, <2>1, <2>2
<1>5. Outcome(Message) = "result"
  BY DEF Outcome, Failures, Message
<1>6. \/ End(c, "error") /\ UNCHANGED remote
      \/ /\ Outcome(remote[c].state) # "none"
         /\ End(c, Outcome(remote[c].state)) /\ UNCHANGED remote
      \/ /\ remote[c].state = Working
         /\ remote' = [remote EXCEPT ![c].emitted = Append(@, Message)] /\ End(c, Outcome(Message))
  BY DEF Poll
<1>7. QED
  BY <1>2, <1>3, <1>4, <1>5, <1>6

\* The task is asked for, and may fail or be over at once.
LEMMA SendKeeps ==
  ASSUME A2AInvariant, NEW c \in Clients, Send(c)
  PROVE  A2AInvariant'
<1> DEFINE k == calls[c]
<1>0. /\ k \in CallStates /\ k.pc = "send" /\ k.by \in Ways /\ k.seen = <<>>
      /\ ClientHolds(c) /\ NothingSent(c) /\ k.seen \in Seq(SaidIn(remote[c]))
      /\ UNCHANGED <<receiver, recorded>> /\ receiver \in Receivers
      /\ remote[c].state # "COMPLETED" /\ IsPrefix(k.seen, recorded[c])
  BY PrefixFacts, EmptySeq
     DEF A2AInvariant, A2ATypes, Send, ClientHolds, Heard, NothingSent, Unsent, Unstarted, CallStates
<1>1. CASE End(c, "error") /\ UNCHANGED <<remote, net>>
  <2> DEFINE l == Leaving(c, k, "error")
  <2>1. /\ l \in CallStates /\ l.by = k.by /\ l.seen = k.seen /\ l.end = "error" /\ InPlace(l)
        /\ l.pc = IF k.by = "push" THEN "leave" ELSE "ended"
    BY <1>0, LeavingFacts
  <2>2. calls' = [calls EXCEPT ![c] = l]
    BY <1>1 DEF End, Becomes
  <2> HIDE DEF l
  <2>3. QED
    BY <1>0, <1>1, <2>1, <2>2, LocalCallKeeps DEF Unstarted, Earned
<1>2. ASSUME NEW event \in TaskEvents, NEW l, Emit(c, event), calls' = [calls EXCEPT ![c] = l],
             l \in CallStates, l.by = k.by, l.seen = <<>>, InPlace(l), l.pc \notin Unstarted,
             l.by = "push" => l.pc \in {"push", "leave"},
             l.end \in {"result", "usable"} => event \in {"COMPLETED", Message} \/ ~l.named
      PROVE  A2AInvariant'
  <2>1. PICK r \in Remotes, n \in SUBSET Nat :
            /\ remote' = [remote EXCEPT ![c] = r] /\ net' = [net EXCEPT ![c] = n]
            /\ Later(remote[c], r) /\ r.emitted \in Seq(SaidIn(r)) /\ n \subseteq 1..Len(r.emitted)
            /\ event = "COMPLETED" => r.state = "COMPLETED"
            /\ event = Message => Messaged(r)
    <3>1. remote[c].state # "COMPLETED" /\ Emit(c, event)
      BY <1>0, <1>2
    <3>2. QED
      BY <3>1, EmitFacts
  <2>2. l.seen \in Seq(SaidIn(r)) /\ l.seen = k.seen
    BY <1>0, <1>2, EmptySeq
  <2>3. Earned(l, r)
    BY <1>2, <2>1 DEF Earned, Told
  <2>4. CallStep(c, l, r, n, receiver)
    BY <1>0, <1>2, <2>1, <2>2, <2>3 DEF CallStep
  <2>5. QED
    BY <2>4, CallKeeps
<1>3. ASSUME NEW event \in TaskEvents, NEW l, Emit(c, event), calls' = [calls EXCEPT ![c] = l],
             l \in CallStates, l.by = k.by, l.seen = k.seen, InPlace(l),
             l.pc = IF k.by = "push" THEN "leave" ELSE "ended",
             l.end = "result" => event \in {"COMPLETED", Message} \/ ~l.named, l.end \in {"result", "error"}
      PROVE  A2AInvariant'
  BY <1>0, <1>2, <1>3 DEF Unstarted
<1>4. ASSUME NEW event \in TaskEvents, Emit(c, event), Becomes(c, [k EXCEPT !.pc = k.by])
      PROVE  A2AInvariant'
  <2> DEFINE l == [k EXCEPT !.pc = k.by]
  <2>1. /\ l \in CallStates /\ l.by = k.by /\ l.seen = k.seen /\ l.end = k.end /\ l.pc = k.by
        /\ l.named = k.named
    BY <1>0 DEF CallStates, Ways
  <2>2. calls' = [calls EXCEPT ![c] = l]
    BY <1>4 DEF Becomes
  <2> HIDE DEF l
  <2>3. l.end \in {"result", "usable"} => ~l.named
    BY <1>0, <2>1 DEF ClientHolds, EndIsHonest, Earned, Told, NothingSent, Unsent, Messaged, ToSet
  <2>4. InPlace(l) /\ l.pc \notin Unstarted
    BY <1>0, <2>1 DEF InPlace, Ways, Unstarted
  <2>5. QED
    BY <1>0, <1>2, <1>4, <2>1, <2>2, <2>3, <2>4
<1>5. CASE Emit(c, Working) /\ End(c, "error")
  <2>1. PICK l : l = Leaving(c, k, "error")
    OBVIOUS
  <2>2. /\ l \in CallStates /\ l.by = k.by /\ l.seen = k.seen /\ l.end = "error" /\ InPlace(l)
        /\ l.pc = IF k.by = "push" THEN "leave" ELSE "ended"
    BY <1>0, <2>1, LeavingFacts
  <2>3. calls' = [calls EXCEPT ![c] = l] /\ Working \in TaskEvents
    BY <1>5, <2>1 DEF End, Becomes, TaskEvents, TaskStates
  <2>4. QED
    BY <1>3, <1>5, <2>2, <2>3
<1>6. ASSUME NEW event \in TaskEvents, NEW named \in BOOLEAN, Emit(c, event),
             Becomes(c, IF k.by = "stream" THEN [k EXCEPT !.pc = k.by]
                        ELSE Taken(c, k, Outcome(event), named, [k EXCEPT !.pc = k.by]))
      PROVE  A2AInvariant'
  <2>1. CASE k.by = "stream"
    BY <1>4, <1>6, <2>1
  <2>2. CASE k.by # "stream"
    <3>1. PICK next, l : next = [k EXCEPT !.pc = k.by] /\ l = Taken(c, k, Outcome(event), named, next)
      OBVIOUS
    <3>2. Becomes(c, l)
      BY <1>6, <2>2, <3>1
    <3>3. CASE l = next
      BY <1>4, <1>6, <3>1, <3>2, <3>3
    <3>4. CASE l # next
      <4>1. Outcome(event) \in {"none", "error", "result"}
            /\ (Outcome(event) = "result" => event \in {"COMPLETED", Message})
        BY DEF Outcome
      <4>2. /\ l \in CallStates /\ l.by = k.by /\ l.seen = k.seen /\ InPlace(l)
            /\ l.pc = IF k.by = "push" THEN "leave" ELSE "ended"
            /\ l.end \in {"result", "error"}
            /\ l.end = "result" => Outcome(event) = "result" \/ ~l.named
        BY <1>0, <3>1, <3>4, <4>1, TakenFacts DEF LeftWith
      <4>3. calls' = [calls EXCEPT ![c] = l]
        BY <3>2 DEF Becomes
      <4>4. QED
        BY <1>3, <1>6, <4>1, <4>2, <4>3
    <3>5. QED
      BY <3>3, <3>4
  <2>3. QED
    BY <2>1, <2>2
<1>7. QED
  <2>1. \/ End(c, "error") /\ UNCHANGED <<remote, net>>
        \/ Emit(c, Working) /\ End(c, "error")
        \/ \E event \in {Working, "COMPLETED", "FAILED", Message} : \E named \in BOOLEAN :
              /\ Emit(c, event)
              /\ Becomes(c, IF k.by = "stream" THEN [k EXCEPT !.pc = k.by]
                            ELSE Taken(c, k, Outcome(event), named, [k EXCEPT !.pc = k.by]))
    BY DEF Send
  <2>2. {Working, "COMPLETED", "FAILED", Message} \subseteq TaskEvents
    BY DEF TaskEvents, TaskStates, Terminal, Failures
  <2>3. QED
    BY <1>1, <1>5, <1>6, <2>1, <2>2

\* The task that was asked for goes on, whether or not its client listens.
LEMMA RemoteStepKeeps ==
  ASSUME A2AInvariant, NEW c \in Clients, RemoteStep(c)
  PROVE  A2AInvariant'
<1> DEFINE l == calls[c]
<1>0. /\ l \in CallStates /\ ClientHolds(c) /\ receiver \in Receivers
      /\ l.seen \in Seq(SaidIn(remote[c])) /\ InPlace(l)
      /\ UNCHANGED <<receiver, calls, recorded>> /\ remote[c].state = Working
      /\ calls' = [calls EXCEPT ![c] = l] /\ l.by = calls[c].by /\ l.pc = calls[c].pc
      /\ Unbroken(c) => IsPrefix(l.seen, recorded[c])
      /\ Earned(l, remote[c])
  BY DEF A2AInvariant, A2ATypes, RemoteStep, ClientHolds, Heard, NothingMissed, EndIsHonest, Working
<1>1. l.pc \notin Unstarted
  BY <1>0 DEF ClientHolds, NothingSent, Unsent, Working
<1> HIDE DEF l
<1>2. PICK event \in TaskEvents : Emit(c, event)
  BY DEF RemoteStep, TaskEvents, TaskStates, Terminal, Failures
<1>3. PICK r \in Remotes, n \in SUBSET Nat :
          /\ remote' = [remote EXCEPT ![c] = r] /\ net' = [net EXCEPT ![c] = n]
          /\ Later(remote[c], r) /\ r.emitted \in Seq(SaidIn(r)) /\ n \subseteq 1..Len(r.emitted)
  <2>1. remote[c].state # "COMPLETED"
    BY <1>0 DEF Working
  <2>2. QED
    BY <1>2, <2>1, EmitFacts
<1>4. l.seen \in Seq(SaidIn(r)) /\ Earned(l, r)
  BY <1>0, <1>3, SaidGrows DEF Earned, Told, Later
<1>5. CallStep(c, l, r, n, receiver)
  BY <1>0, <1>1, <1>3, <1>4 DEF CallStep
<1>6. QED
  BY <1>5, CallKeeps

\* The deadline passes: the task is cancelled, and forgotten by the inbox.
LEMMA TimeoutKeeps ==
  ASSUME A2AInvariant, NEW c \in Clients, Timeout(c)
  PROVE  A2AInvariant'
<1> DEFINE k == calls[c]
           l == Leaving(c, k, "timeout")
           v == IF k.pc = "push" THEN Discarded(c) ELSE receiver
<1>0. /\ k \in CallStates /\ k.pc \in {"push", "poll"} /\ InPlace(k) /\ receiver \in Receivers
      /\ k.seen \in Seq(SaidIn(remote[c])) /\ recorded' = recorded /\ receiver' = v
      /\ Unbroken(c) => IsPrefix(k.seen, recorded[c])
      /\ remote[c] \in Remotes /\ net[c] \in SUBSET Nat /\ Heard(c)
  BY DEF A2AInvariant, A2ATypes, Timeout, ClientHolds, Heard, NothingMissed
<1>1. /\ l \in CallStates /\ l.by = k.by /\ l.seen = k.seen /\ l.end = "timeout" /\ InPlace(l)
      /\ l.pc = IF k.by = "push" THEN "leave" ELSE "ended"
  BY <1>0, LeavingFacts
<1>2. calls' = [calls EXCEPT ![c] = l]
  BY DEF Timeout, End, Becomes
<1>3. /\ v \in Receivers /\ v.references = receiver.references /\ v.running = receiver.running
      /\ v.evicted = receiver.evicted
      /\ \A d \in Clients \ {c} : v.inbox.events[d] = receiver.inbox.events[d]
      /\ v.inbox.events[c] = receiver.inbox.events[c] \/ v.inbox.events[c] = <<>>
  BY <1>0, DiscardFacts
<1> HIDE DEF l, v
<1>4. PICK r \in Remotes, n \in SUBSET Nat :
          /\ remote' = [remote EXCEPT ![c] = r] /\ net' = [net EXCEPT ![c] = n]
          /\ Later(remote[c], r)
          /\ r.emitted \in Seq(SaidIn(r)) /\ n \subseteq 1..Len(r.emitted)
  <2>1. CASE UNCHANGED <<remote, net>>
    <3>1. /\ remote' = [remote EXCEPT ![c] = remote[c]] /\ net' = [net EXCEPT ![c] = net[c]]
      BY <2>1 DEF A2AInvariant, A2ATypes
    <3>2. QED
      BY <1>0, <3>1 DEF Heard, Later
  <2>2. CASE remote[c].state = Working /\ Emit(c, "CANCELED")
    <3>1. "CANCELED" \in TaskEvents /\ remote[c].state # "COMPLETED"
      BY <2>2 DEF TaskEvents, TaskStates, Terminal, Failures, Working
    <3>2. QED
      BY <2>2, <3>1, EmitFacts
  <2>3. QED
    BY <2>1, <2>2 DEF Timeout
<1>5. l.seen \in Seq(SaidIn(r)) /\ Earned(l, r)
  BY <1>0, <1>1, <1>4, SaidGrows DEF Earned
<1>6. CallStep(c, l, r, n, v)
  BY <1>0, <1>1, <1>2, <1>3, <1>4, <1>5 DEF CallStep, InPlace, Unstarted
<1>7. QED
  BY <1>6, CallKeeps

\* The inbox holds all that was accepted: what is read of it follows what was
\* read before.
LEMMA WaitForPushKeeps ==
  ASSUME A2AInvariant, NEW c \in Clients, WaitForPush(c)
  PROVE  A2AInvariant'
<1> DEFINE k == calls[c]
           events == receiver.inbox.events[c]
           seen == k.seen \o Unread(c)
           read == [k EXCEPT !.seen = seen]
           said == SaidIn(remote[c])
<1>0. /\ k \in CallStates /\ k.pc = "push" /\ k.by = "push" /\ receiver \in Receivers
      /\ k.seen \in Seq(said) /\ events \in Seq(said) /\ recorded[c] \in Seq(said)
      /\ UNCHANGED <<remote, net, recorded>> /\ EndIsHonest(c) /\ InPlace(k)
      /\ Unbroken(c) => IsPrefix(k.seen, recorded[c]) /\ events = recorded[c]
      /\ remote[c] \in Remotes /\ net[c] \in SUBSET Nat /\ Heard(c)
      /\ remote' = [remote EXCEPT ![c] = remote[c]] /\ net' = [net EXCEPT ![c] = net[c]]
  BY DEF A2AInvariant, A2ATypes, WaitForPush, ClientHolds, Heard, NothingMissed, InPlace
<1>1. Unread(c) = SubSeq(events, Len(k.seen) + 1, Len(events))
  BY DEF Unread
<1>2. seen \in Seq(said)
  <2>1. SubSeq(events, Len(k.seen) + 1, Len(events)) \in Seq(said)
    <3>1. Len(k.seen) + 1 \in Nat \ {0} /\ Len(events) \in Nat
      BY <1>0
    <3> HIDE DEF events
    <3>2. QED
      BY <1>0, <3>1
  <2>2. QED
    BY <1>0, <1>1, <2>1
<1>3. Unbroken(c) => IsPrefix(seen, recorded[c])
  <2> SUFFICES ASSUME Unbroken(c) PROVE IsPrefix(seen, recorded[c])
    OBVIOUS
  <2>1. /\ k.seen \in Seq(said) /\ recorded[c] \in Seq(said) /\ IsPrefix(k.seen, recorded[c])
        /\ Unread(c) = SubSeq(recorded[c], Len(k.seen) + 1, Len(recorded[c]))
    BY <1>0, <1>1
  <2>2. k.seen \o SubSeq(recorded[c], Len(k.seen) + 1, Len(recorded[c])) = recorded[c]
    <3> HIDE DEF k, said
    <3>1. QED
      BY <2>1, PrefixFacts
  <2>3. seen = recorded[c]
    BY <2>1, <2>2
  <2>4. QED
    BY <1>0, <2>3, PrefixFacts
<1>4. /\ seen \in Seq(TaskEvents) /\ Outcome(LastState(seen)) \in {"none", "error", "result"}
      /\ Outcome(LastState(seen)) = "result" => Told(remote[c])
  <2> HIDE DEF seen
  <2>1. QED
    BY <1>2, HeardFacts
<1>5. /\ Outcome(LastState(seen)) = "none" =>
            Becomes(c, read) /\ receiver' = receiver
      /\ Outcome(LastState(seen)) # "none" =>
            Becomes(c, Leaving(c, read, Outcome(LastState(seen)))) /\ receiver' = Discarded(c)
  BY DEF WaitForPush
<1> HIDE DEF seen
<1>6. /\ read \in CallStates /\ read.pc = "push" /\ read.by = "push" /\ read.seen = seen
      /\ read.end = k.end /\ read.named = k.named /\ InPlace(read)
  BY <1>0, <1>4 DEF CallStates, InPlace
<1> HIDE DEF read
<1>7. CASE Outcome(LastState(seen)) = "none"
  <2>1. calls' = [calls EXCEPT ![c] = read] /\ receiver' = receiver
    BY <1>5, <1>7 DEF Becomes
  <2>2. QED
    BY <1>0, <1>2, <1>3, <1>6, <2>1, LocalCallKeeps DEF Unstarted, EndIsHonest, Earned
<1>8. CASE Outcome(LastState(seen)) # "none"
  <2> DEFINE end == Outcome(LastState(seen))
             l == Leaving(c, read, end)
  <2>1. calls' = [calls EXCEPT ![c] = l] /\ receiver' = Discarded(c)
    BY <1>5, <1>8 DEF Becomes
  <2>2. end \in {"error", "result"} /\ (end = "result" => Told(remote[c]))
    BY <1>4, <1>8
  <2> HIDE DEF end
  <2>3. /\ l \in CallStates /\ l.by = "push" /\ l.seen = seen /\ l.end = end
        /\ l.pc = "leave" /\ InPlace(l)
    BY <1>6, <2>2, LeavingFacts
  <2> HIDE DEF l
  <2>4. CallStep(c, l, remote[c], net[c], Discarded(c))
    BY <1>0, <1>2, <1>3, <2>1, <2>2, <2>3, DiscardFacts DEF CallStep, Heard, Unstarted, Later, Earned
  <2>5. QED
    BY <2>4, CallKeeps
<1>9. QED
  BY <1>7, <1>8

Insiders == {d \in Clients : Inside(d)}

\* The receiver counts who is inside, and runs for them.
LEMMA InsideCounts ==
  ASSUME A2AInvariant
  PROVE  /\ IsFiniteSet(Insiders) /\ Cardinality(Insiders) \in Nat
         /\ receiver.references = Cardinality(Insiders)
         /\ receiver.running <=> Insiders # {}
<1>1. IsFiniteSet(Insiders)
  BY A2AConstants, FS_Subset DEF Insiders
<1>2. QED
  BY <1>1, FS_CardinalityType DEF A2AInvariant, ReceiverHeld, Insiders

LEMMA EnterKeeps ==
  ASSUME A2AInvariant, NEW c \in Clients, Enter(c)
  PROVE  A2AInvariant'
<1> DEFINE k == calls[c]
<1>0. /\ k \in CallStates /\ k.pc = "enter" /\ k.by = "push" /\ receiver \in Receivers
      /\ ClientHolds(c) /\ NothingSent(c) /\ UNCHANGED <<remote, net, recorded>>
      /\ k.seen \in Seq(SaidIn(remote[c]))
      /\ Unbroken(c) => IsPrefix(k.seen, recorded[c])
      /\ calls \in [Clients -> CallStates]
  BY DEF A2AInvariant, A2ATypes, Enter, ClientHolds, InPlace, Unstarted, Heard, NothingMissed
<1>1. CASE Becomes(c, [k EXCEPT !.pc = "ended", !.end = "error"]) /\ receiver' = receiver
  <2> DEFINE l == [k EXCEPT !.pc = "ended", !.end = "error"]
  <2>1. /\ l \in CallStates /\ l.pc = "ended" /\ l.by = k.by /\ l.seen = k.seen
        /\ l.end = "error" /\ InPlace(l)
    BY <1>0 DEF CallStates, InPlace
  <2>2. calls' = [calls EXCEPT ![c] = l]
    BY <1>1 DEF Becomes
  <2> HIDE DEF l
  <2>3. QED
    BY <1>0, <1>1, <2>1, <2>2, LocalCallKeeps DEF Unstarted, Earned
<1>2. CASE /\ receiver' = [receiver EXCEPT !.references = @ + 1, !.running = TRUE]
           /\ Becomes(c, [k EXCEPT !.pc = "send"])
  <2> DEFINE l == [k EXCEPT !.pc = "send"]
  <2>1. /\ l \in CallStates /\ l.pc = "send" /\ l.by = "push" /\ l.seen = k.seen
        /\ l.end = k.end /\ l.named = k.named
    BY <1>0 DEF CallStates
  <2>2. calls' = [calls EXCEPT ![c] = l]
    BY <1>2 DEF Becomes
  <2> HIDE DEF l
  <2>3. calls'[c] = l /\ \A d \in Clients \ {c} : calls'[d] = calls[d]
    BY <1>0, <2>2
  <2>4. /\ receiver' \in Receivers /\ receiver'.inbox = receiver.inbox
        /\ receiver'.evicted = receiver.evicted /\ receiver'.running = TRUE
        /\ receiver'.references = receiver.references + 1
    <3>1. receiver.references + 1 \in Nat
      BY <1>0 DEF Receivers
    <3>2. QED
      BY <1>0, <1>2, <3>1 DEF Receivers
  <2>5. A2ATypes'
    BY <1>0, <2>1, <2>2, <2>4 DEF A2AInvariant, A2ATypes
  <2>6. ReceiverHeld'
    <3>1. c \notin Insiders
      BY <1>0 DEF Insiders, Inside
    <3>2. Insiders' = Insiders \cup {c}
      BY <2>1, <2>3 DEF Insiders, Inside
    <3>3. Cardinality(Insiders \cup {c}) = Cardinality(Insiders) + 1
      BY <3>1, InsideCounts, FS_AddElement
    <3>4. QED
      BY <2>4, <3>2, <3>3, InsideCounts DEF ReceiverHeld, Insiders
  <2>7. ASSUME NEW d \in Clients \ {c} PROVE ClientHolds(d)'
    BY <1>0, <2>3, <2>4, OthersHold DEF A2AInvariant
  <2>8. ClientHolds(c)'
    <3>1. NothingSent(c)'
      BY <1>0, <2>1, <2>3, <2>4 DEF NothingSent
    <3>2. InPlace(calls[c])' /\ Heard(c)' /\ NothingMissed(c)' /\ EndIsHonest(c)'
      BY <1>0, <2>1, <2>3, <2>4
         DEF ClientHolds, InPlace, Heard, NothingMissed, Unbroken, EndIsHonest, Earned
    <3>3. QED
      BY <3>1, <3>2 DEF ClientHolds
  <2>9. QED
    BY <2>5, <2>6, <2>7, <2>8 DEF A2AInvariant
<1>3. QED
  BY <1>1, <1>2 DEF Enter, Goto

\* Whoever leaves last has nobody waiting at the inbox that goes.
LEMMA LeaveKeeps ==
  ASSUME A2AInvariant, NEW c \in Clients, Leave(c)
  PROVE  A2AInvariant'
<1> DEFINE k == calls[c]
           l == [k EXCEPT !.pc = "ended"]
<1>0. /\ k \in CallStates /\ k.pc = "leave" /\ k.by = "push" /\ receiver \in Receivers
      /\ ClientHolds(c) /\ UNCHANGED <<remote, net, recorded>>
      /\ calls \in [Clients -> CallStates]
  BY DEF A2AInvariant, A2ATypes, Leave, ClientHolds, InPlace
<1>1. /\ l \in CallStates /\ l.pc = "ended" /\ l.by = "push" /\ l.seen = k.seen
      /\ l.end = k.end /\ l.named = k.named
  BY <1>0 DEF CallStates
<1>2. calls' = [calls EXCEPT ![c] = l]
  BY DEF Leave, Goto, Becomes
<1> HIDE DEF l
<1>3. calls'[c] = l /\ \A d \in Clients \ {c} : calls'[d] = calls[d]
  BY <1>0, <1>2
<1>4. c \in Insiders /\ Insiders' = Insiders \ {c}
  BY <1>0, <1>1, <1>3 DEF Insiders, Inside
<1>5. Cardinality(Insiders \ {c}) = Cardinality(Insiders) - 1 /\ IsFiniteSet(Insiders \ {c})
  BY <1>4, InsideCounts, FS_RemoveElement
<1>6. /\ receiver' \in Receivers /\ receiver'.evicted = receiver.evicted
      /\ receiver'.references = receiver.references - 1
      /\ receiver'.running <=> Insiders \ {c} # {}
      /\ \A d \in Clients :
            \/ receiver'.inbox.events[d] = receiver.inbox.events[d]
            \/ receiver'.inbox.events[d] = <<>> /\ (d # c => calls[d].pc # "push")
  <2>1. CASE receiver.references = 1
    <3>1. Insiders \ {c} = {}
      BY <1>5, <2>1, InsideCounts, FS_EmptySet
    <3>2. \A d \in Clients \ {c} : calls[d].pc # "push"
      BY <3>1 DEF Insiders, Inside, A2AInvariant, ClientHolds, InPlace
    <3>3. receiver' = [Closed EXCEPT !.evicted = receiver.evicted] /\ receiver.evicted \in SUBSET Clients
      BY <1>0, <2>1 DEF Leave, Receivers
    <3>4. /\ receiver' \in Receivers /\ receiver'.evicted = receiver.evicted
          /\ receiver'.references = 0 /\ receiver'.running = FALSE
          /\ \A d \in Clients : receiver'.inbox.events[d] = <<>>
      BY <3>3, EmptySeq DEF Closed, EmptyInbox, Receivers
    <3>5. QED
      BY <2>1, <3>1, <3>2, <3>4
  <2>2. CASE receiver.references # 1
    <3>1. receiver.references - 1 \in Nat \ {0}
      <4>1. receiver.references # 0
        BY <1>4, InsideCounts, FS_EmptySet
      <4>2. QED
        BY <2>2, <4>1, InsideCounts
    <3>2. receiver' = [receiver EXCEPT !.references = receiver.references - 1]
      BY <2>2 DEF Leave
    <3>3. /\ receiver' \in Receivers /\ receiver'.evicted = receiver.evicted
          /\ receiver'.references = receiver.references - 1
          /\ receiver'.running = receiver.running /\ receiver'.inbox = receiver.inbox
      BY <1>0, <3>1, <3>2 DEF Receivers
    <3>4. Insiders \ {c} # {} /\ receiver.running
      BY <1>4, <1>5, <3>1, InsideCounts, FS_EmptySet
    <3>5. QED
      BY <3>3, <3>4
  <2>3. QED
    BY <2>1, <2>2
<1>7. A2ATypes'
  BY <1>0, <1>1, <1>2, <1>6 DEF A2AInvariant, A2ATypes
<1>8. ReceiverHeld'
  <2>1. receiver'.references = Cardinality(Insiders')
    BY <1>4, <1>5, <1>6, InsideCounts
  <2>2. receiver'.running <=> Insiders' # {}
    BY <1>4, <1>6
  <2>3. QED
    BY <2>1, <2>2 DEF ReceiverHeld, Insiders
<1>9. ASSUME NEW d \in Clients \ {c} PROVE ClientHolds(d)'
  BY <1>0, <1>3, <1>6, OthersHold DEF A2AInvariant
<1>10. ClientHolds(c)'
  <2>1. InPlace(calls[c])' /\ (calls[c].pc \notin Unstarted)' /\ EndIsHonest(c)'
    BY <1>0, <1>1, <1>3 DEF InPlace, Unstarted, EndIsHonest, Earned, ClientHolds
  <2>2. receiver'.inbox.events[c] \in Seq(SaidIn(remote[c]))
    BY <1>0, <1>6, EmptySeq DEF ClientHolds, Heard
  <2>3. Heard(c)'
    BY <1>0, <1>1, <1>3, <2>2 DEF ClientHolds, Heard
  <2>4. NothingMissed(c)'
    BY <1>0, <1>1, <1>3, <1>6 DEF ClientHolds, NothingMissed, Unbroken
  <2>5. QED
    BY <2>1, <2>3, <2>4 DEF ClientHolds
<1>11. QED
  BY <1>7, <1>8, <1>9, <1>10 DEF A2AInvariant

\* An event is recorded: of the other tasks an inbox that is full loses one.
LEMMA RecordFacts ==
  ASSUME A2AInvariant, NEW c \in Clients, NEW state \in TaskEvents
  PROVE  LET inbox == receiver.inbox
             kept == Record(inbox, c, state)
         IN /\ kept \in [tasks: Seq(Clients), events: [Clients -> Seq(TaskEvents)]]
            /\ Evicted(inbox, c) \subseteq Clients \ {c}
            /\ \A d \in Clients \ {c} : kept.events[d] = inbox.events[d]
                                        \/ (kept.events[d] = <<>> /\ d \in Evicted(inbox, c))
            /\ Len(inbox.events[c]) < EventLimit => kept.events[c] = Append(inbox.events[c], state)
            /\ \A S : inbox.events[c] \in Seq(S) /\ state \in S => kept.events[c] \in Seq(S)
<1> DEFINE inbox == receiver.inbox
           tasks == inbox.tasks
           gone == Evicted(inbox, c)
           left == IF gone = {} THEN tasks ELSE Tail(tasks)
           events == [d \in Clients |-> IF d \in gone THEN <<>> ELSE inbox.events[d]]
           target == Append(events[c], state)
           rest == SubSeq(target, IF Len(target) > EventLimit THEN 2 ELSE 1, Len(target))
           after == [events EXCEPT ![c] = rest]
           line == IF c \in ToSet(left) THEN left ELSE Append(left, c)
<1>0. /\ tasks \in Seq(Clients) /\ inbox.events \in [Clients -> Seq(TaskEvents)]
      /\ EventLimit \in Nat /\ TaskLimit \in Nat \ {0}
  BY A2AConstants DEF A2AInvariant, A2ATypes, Receivers
<1>1. gone \subseteq Clients \ {c} /\ left \in Seq(Clients)
  <2>1. CASE gone = {}
    BY <1>0, <2>1
  <2>2. CASE gone # {}
    <3>1. c \notin ToSet(tasks) /\ Len(tasks) >= TaskLimit /\ gone = {Head(tasks)}
      BY <2>2 DEF Evicted
    <3> HIDE DEF tasks
    <3>2. tasks # <<>> /\ Head(tasks) \in ToSet(tasks) /\ Head(tasks) \in Clients
      BY <1>0, <3>1 DEF ToSet
    <3>3. Tail(tasks) \in Seq(Clients)
      BY <1>0, <3>2
    <3> HIDE DEF gone
    <3>4. QED
      BY <2>2, <3>1, <3>2, <3>3
  <2>3. QED
    BY <2>1, <2>2
<1>2. line \in Seq(Clients)
  <2> HIDE DEF left
  <2>1. QED
    BY <1>1
<1>3. /\ events \in [Clients -> Seq(TaskEvents)] /\ events[c] = inbox.events[c]
      /\ \A d \in Clients : events[d] = inbox.events[d] \/ (events[d] = <<>> /\ d \in gone)
  <2> HIDE DEF gone
  <2>1. QED
    BY <1>0, <1>1, EmptySeq
<1> HIDE DEF events
<1>4. ASSUME NEW S, inbox.events[c] \in Seq(S), state \in S
      PROVE  rest \in Seq(S)
  <2>1. target \in Seq(S) /\ Len(target) \in Nat
    BY <1>3, <1>4
  <2> HIDE DEF target
  <2>2. QED
    BY <1>0, <2>1
<1>5. Len(inbox.events[c]) < EventLimit => rest = Append(inbox.events[c], state)
  <2> SUFFICES ASSUME Len(inbox.events[c]) < EventLimit
               PROVE  rest = Append(inbox.events[c], state)
    OBVIOUS
  <2>1. inbox.events[c] \in Seq(TaskEvents) /\ target = Append(inbox.events[c], state)
    BY <1>0, <1>3
  <2>2. target \in Seq(TaskEvents) /\ Len(target) = Len(inbox.events[c]) + 1
    BY <2>1
  <2>3. ~(Len(target) > EventLimit)
    BY <1>0, <2>1, <2>2
  <2>4. rest = SubSeq(target, 1, Len(target))
    BY <2>3
  <2> HIDE DEF target, rest
  <2>5. QED
    BY <2>1, <2>2, <2>4, SubSeqFull
<1>6. rest \in Seq(TaskEvents)
  BY <1>0, <1>4
<1> HIDE DEF rest
<1>7. /\ after \in [Clients -> Seq(TaskEvents)] /\ after[c] = rest
      /\ \A d \in Clients \ {c} : after[d] = events[d]
  BY <1>3, <1>6
<1>8. Record(inbox, c, state) = [tasks |-> line, events |-> after]
  BY DEF Record, events, rest
<1> HIDE DEF line, after, inbox, gone
<1>9. QED
  BY <1>1, <1>2, <1>3, <1>4, <1>5, <1>7, <1>8 DEF inbox, gone

LEMMA DeliverKeeps ==
  ASSUME A2AInvariant, NEW c \in Clients, Deliver(c)
  PROVE  A2AInvariant'
<1> DEFINE inbox == receiver.inbox
           said == SaidIn(remote[c])
<1>0. /\ receiver \in Receivers /\ recorded \in [Clients -> Seq(TaskEvents)]
      /\ net \in [Clients -> SUBSET Nat] /\ ClientHolds(c) /\ Heard(c)
      /\ UNCHANGED <<remote, calls>>
      /\ inbox.events[c] \in Seq(TaskEvents)
  BY DEF A2AInvariant, A2ATypes, Receivers, Deliver, ClientHolds
<1>1. PICK i \in net[c] :
        LET state == remote[c].emitted[i] IN
        /\ net' = [net EXCEPT ![c] = @ \ {i}]
        /\ receiver' = [receiver EXCEPT !.inbox = Record(@, c, state),
                                        !.evicted = @ \cup Evicted(receiver.inbox, c)]
        /\ recorded' = [recorded EXCEPT ![c] = Append(@, state)]
  BY DEF Deliver
<1> DEFINE state == remote[c].emitted[i]
           kept == Record(inbox, c, state)
           gone == Evicted(inbox, c)
           heard == Append(recorded[c], state)
<1>2. state \in said /\ state \in TaskEvents
  <2>1. remote[c].emitted \in Seq(said) /\ i \in 1..Len(remote[c].emitted)
    BY <1>0, <1>1 DEF Heard
  <2>2. state \in said
    BY <2>1
  <2>3. QED
    BY <2>2 DEF SaidIn
<1> HIDE DEF state
<1>3. /\ kept \in [tasks: Seq(Clients), events: [Clients -> Seq(TaskEvents)]]
      /\ gone \subseteq Clients \ {c}
      /\ \A d \in Clients \ {c} : kept.events[d] = inbox.events[d]
                                  \/ (kept.events[d] = <<>> /\ d \in gone)
      /\ Len(inbox.events[c]) < EventLimit => kept.events[c] = Append(inbox.events[c], state)
      /\ inbox.events[c] \in Seq(said) => kept.events[c] \in Seq(said)
  BY <1>2, RecordFacts
<1>4. receiver' = [receiver EXCEPT !.inbox = kept, !.evicted = receiver.evicted \cup gone]
  BY <1>1 DEF state
<1>5. /\ heard \in Seq(TaskEvents) /\ heard \in Seq(said) /\ Len(heard) = Len(recorded[c]) + 1
      /\ Len(recorded[c]) \in Nat
  BY <1>0, <1>2 DEF Heard
<1>6. recorded' = [recorded EXCEPT ![c] = heard]
  BY <1>1 DEF state
<1>7. /\ net' \in [Clients -> SUBSET Nat] /\ net'[c] \subseteq net[c]
      /\ \A d \in Clients \ {c} : net'[d] = net[d]
  BY <1>0, <1>1
<1> HIDE DEF kept, gone, heard
<1>8. /\ recorded' \in [Clients -> Seq(TaskEvents)] /\ recorded'[c] = heard
      /\ \A d \in Clients \ {c} : recorded'[d] = recorded[d]
  BY <1>0, <1>5, <1>6
<1>9. /\ receiver' \in Receivers /\ receiver'.inbox = kept
      /\ receiver'.evicted = receiver.evicted \cup gone
      /\ receiver'.references = receiver.references /\ receiver'.running = receiver.running
  <2>1. receiver.evicted \cup gone \in SUBSET Clients
    BY <1>0, <1>3 DEF Receivers
  <2>2. QED
    BY <1>0, <1>3, <1>4, <2>1 DEF Receivers
<1>10. A2ATypes'
  BY <1>0, <1>7, <1>8, <1>9 DEF A2AInvariant, A2ATypes
<1>11. ReceiverHeld'
  <2>1. {d \in Clients : Inside(d)}' = {d \in Clients : Inside(d)}
    BY <1>0 DEF Inside
  <2>2. QED
    BY <1>0, <1>9, <2>1 DEF A2AInvariant, ReceiverHeld, Inside
<1>12. ASSUME NEW d \in Clients \ {c} PROVE ClientHolds(d)'
  BY <1>0, <1>3, <1>7, <1>8, <1>9, OthersHold DEF A2AInvariant
<1>13. ClientHolds(c)'
  <2>1. InPlace(calls[c])' /\ EndIsHonest(c)'
    BY <1>0 DEF ClientHolds, InPlace, EndIsHonest
  <2>2. (calls[c].pc \notin Unstarted)'
    BY <1>0, <1>1 DEF ClientHolds, NothingSent, Unstarted
  <2>3. Heard(c)'
    BY <1>0, <1>3, <1>5, <1>7, <1>8, <1>9 DEF Heard
  <2>4. NothingMissed(c)'
    <3> SUFFICES ASSUME Unbroken(c)'
                 PROVE  /\ IsPrefix(calls[c].seen, heard)
                        /\ calls[c].pc = "push" => kept.events[c] = heard
      BY <1>0, <1>8, <1>9 DEF NothingMissed
    <3>1. Unbroken(c) /\ Len(recorded[c]) < EventLimit
      <4>1. Len(heard) <= EventLimit /\ EventLimit \in Nat
        BY <1>8, A2AConstants DEF Unbroken
      <4>2. Len(recorded[c]) < EventLimit
        BY <1>5, <4>1
      <4>3. calls[c].by = "push" /\ c \notin receiver.evicted
        BY <1>0, <1>9 DEF Unbroken
      <4>4. QED
        BY <1>5, <4>1, <4>2, <4>3 DEF Unbroken
    <3>2. IsPrefix(calls[c].seen, recorded[c])
      BY <1>0, <3>1 DEF ClientHolds, NothingMissed
    <3>3. calls[c].seen \in Seq(said) /\ recorded[c] \in Seq(said)
      BY <1>0 DEF Heard
    <3>4. IsPrefix(calls[c].seen, Append(recorded[c], state))
      <4> HIDE DEF said
      <4>1. QED
        BY <1>2, <3>2, <3>3, PrefixFacts
    <3>5. ASSUME calls[c].pc = "push" PROVE kept.events[c] = Append(recorded[c], state)
      <4>1. inbox.events[c] = recorded[c]
        BY <1>0, <3>1, <3>5 DEF ClientHolds, NothingMissed
      <4>2. QED
        BY <1>3, <3>1, <4>1
    <3>6. QED
      BY <3>4, <3>5 DEF heard
  <2>5. QED
    BY <2>1, <2>2, <2>3, <2>4 DEF ClientHolds
<1>14. QED
  BY <1>10, <1>11, <1>12, <1>13 DEF A2AInvariant

\* a2a.py, a2a_push.py: what the clients know of their tasks, and what the
\* receiver they share holds for them.
THEOREM CallsAreSound == A2ASpec => []A2AInvariant
<1>1. A2AInvariant /\ UNCHANGED a2aVars => A2AInvariant'
  <2> SUFFICES ASSUME A2AInvariant, UNCHANGED a2aVars PROVE A2AInvariant'
    OBVIOUS
  <2>1. UNCHANGED <<remote, net, receiver, calls, recorded>>
    BY DEF a2aVars
  <2>2. A2ATypes' /\ ReceiverHeld'
    BY <2>1 DEF A2AInvariant, A2ATypes, ReceiverHeld, Inside
  <2>3. ASSUME NEW d \in Clients PROVE ClientHolds(d)'
    BY <2>1, OthersHold DEF A2AInvariant
  <2>4. QED
    BY <2>2, <2>3 DEF A2AInvariant
<1>2. A2AInvariant /\ [A2ANext]_a2aVars => A2AInvariant'
  BY <1>1, QuietCallsKeep, PollKeeps, SendKeeps, RemoteStepKeeps, TimeoutKeeps, WaitForPushKeeps,
     EnterKeeps, LeaveKeeps, DeliverKeeps DEF A2ANext, Call
<1>3. QED
  BY <1>2, A2AFirst, PTL DEF A2ASpec

\* A call's result is that of a task that completed, but for an answer that names
\* no task and for a message; its events are seen once and in order within the
\* limits of the inbox, and the receiver runs for as long as somebody is inside,
\* for any clients and limits.
THEOREM RemoteResults == A2ASpec => []RemoteResultsHold
<1>1. A2AInvariant => RemoteResultsHold
  <2> SUFFICES ASSUME A2AInvariant PROVE RemoteResultsHold
    OBVIOUS
  <2>1. ReceiverHeld
    BY DEF A2AInvariant
  <2>2. ResultIsOfCompletedTask
    BY DEF A2AInvariant, ClientHolds, EndIsHonest, Earned, Told, Messaged, ResultIsOfCompletedTask
  <2>3. EventsSeenOnce
    BY DEF A2AInvariant, ClientHolds, NothingMissed, Unbroken, EventsSeenOnce
  <2>4. QED
    BY <2>1, <2>2, <2>3 DEF RemoteResultsHold
<1>2. QED
  BY <1>1, CallsAreSound, PTL

-----------------------------------------------------------------------------
(***************************************************************************)
(* Installations.  What a command carries from one step to the next stays  *)
(* true under the steps of all others: nothing signed is ever replaced.    *)
(***************************************************************************)
Pointers == [current : Releases \cup {NoRelease}, previous : Releases \cup {NoRelease}]

CommandStates ==
    [pc : {"idle", "package", "verify", "install", "extract", "activate", "point", "launchers",
           "back", "staging", "removing"},
     version : Releases \cup {NoRelease}, read : Pointers,
     launch : {"none", "unmanaged", "invalid", "part", "whole"}]

InstallationTypes ==
    /\ trusted \in BOOLEAN /\ offered \in Nat /\ starts \in Nat
    /\ packages \in [Releases -> {"none", "other", "signed"}]
    /\ versions \in [Releases -> {"none", "signed"}]
    /\ pointer \in Pointers /\ launchers \in BOOLEAN
    /\ managed \in [receipt : BOOLEAN, content : {"none", "part", "whole"}]
    /\ removing \in BOOLEAN
    /\ process \in [Commands -> CommandStates]

Signed(v) == v \in Releases /\ versions[v] = "signed"

\* What a command in state s relies on.
CommandSound(s) ==
    /\ s.pc \in {"package", "verify", "install", "extract", "activate", "point", "launchers"} =>
          s.version \in Releases
    /\ s.pc \in {"install", "extract"} => packages[s.version] = "signed"
    /\ s.pc \in {"activate", "point", "launchers"} => versions[s.version] = "signed"
    /\ s.pc \in {"point", "back"} =>
          Signed(s.read.current) /\ (s.read.previous # NoRelease => Signed(s.read.previous))
    /\ s.pc = "launchers" => pointer.current # NoRelease
    /\ s.pc = "removing" => removing
    /\ s.launch = "part" => removing

PointerSound ==
    /\ pointer.current # NoRelease => Signed(pointer.current)
    /\ pointer.previous # NoRelease => Signed(pointer.previous)
    /\ launchers => pointer.current # NoRelease

AgentSound == managed.content = "part" => removing

CommandsSound == \A q \in Commands : CommandSound(process[q])

InstallationInvariant == InstallationTypes /\ PointerSound /\ AgentSound /\ CommandsSound

LEMMA InstallationsFirst == InstallationInit => InstallationInvariant
<1> SUFFICES ASSUME InstallationInit PROVE InstallationInvariant
  OBVIOUS
<1>1. Idle \in CommandStates /\ Idle.read \in Pointers /\ Idle.pc = "idle" /\ Idle.launch = "none"
  BY DEF Idle, CommandStates, Pointers
<1>2. InstallationTypes
  BY <1>1 DEF InstallationInit, InstallationTypes
<1>3. PointerSound /\ AgentSound
  BY DEF InstallationInit, PointerSound, AgentSound, Idle
<1>4. CommandsSound
  BY <1>1 DEF InstallationInit, CommandsSound, CommandSound
<1>5. QED
  BY <1>2, <1>3, <1>4 DEF InstallationInvariant

(* What others rely on survives a step that keeps what is signed.            *)
SignedStays ==
    /\ \A v \in Releases : packages[v] = "signed" => packages'[v] = "signed"
    /\ \A v \in Releases : versions[v] = "signed" => versions'[v] = "signed"
    /\ pointer.current # NoRelease => pointer'.current # NoRelease
    /\ removing => removing'

LEMMA OthersRely ==
  ASSUME InstallationInvariant, SignedStays, NEW p \in Commands, NEW s \in CommandStates,
         process' = [process EXCEPT ![p] = s], CommandSound(s)'
  PROVE  process' \in [Commands -> CommandStates] /\ CommandsSound'
<1>1. process' \in [Commands -> CommandStates]
  BY DEF InstallationInvariant, InstallationTypes
<1>2. ASSUME NEW q \in Commands PROVE CommandSound(process[q])'
  <2>1. CASE q = p
    <3>1. process'[q] = s
      BY <2>1 DEF InstallationInvariant, InstallationTypes
    <3>2. QED
      BY <3>1
  <2>2. CASE q # p
    <3>1. process'[q] = process[q] /\ process[q] \in CommandStates /\ CommandSound(process[q])
      BY <2>2 DEF InstallationInvariant, InstallationTypes, CommandsSound
    <3>2. QED
      BY <3>1 DEF CommandSound, Signed, SignedStays, CommandStates, Pointers
  <2>3. QED
    BY <2>1, <2>2
<1>3. QED
  BY <1>1, <1>2 DEF CommandsSound

LEMMA IdleIsSound == Idle \in CommandStates /\ CommandSound(Idle)
BY DEF Idle, CommandStates, Pointers, CommandSound

LEMMA IdleIsSoundNext == CommandSound(Idle)'
BY DEF Idle, CommandSound

(* A step of one command that leaves what is installed as it is.             *)
LEMMA CommandMoves ==
  ASSUME InstallationInvariant, NEW p \in Commands, NEW s \in CommandStates,
         process' = [process EXCEPT ![p] = s], CommandSound(s),
         UNCHANGED releaseVars, UNCHANGED agentVars, starts' \in Nat
  PROVE  InstallationInvariant'
<1>1. SignedStays
  BY DEF SignedStays, releaseVars, agentVars
<1>2. CommandSound(s)'
  BY DEF CommandSound, Signed, releaseVars, agentVars
<1>3. process' \in [Commands -> CommandStates] /\ CommandsSound'
  BY <1>1, <1>2, OthersRely
<1>4. InstallationTypes' /\ PointerSound' /\ AgentSound'
  BY <1>3 DEF InstallationInvariant, InstallationTypes, PointerSound, AgentSound, Signed,
              releaseVars, agentVars
<1>5. QED
  BY <1>3, <1>4 DEF InstallationInvariant

LEMMA NewestIsThere ==
  ASSUME NEW S \in SUBSET Releases, S # {}
  PROVE  Newest(S) \in S
<1>1. S \in SUBSET Int /\ IsFiniteSet(S)
  <2>1. S \in SUBSET Int
    BY InstallationConstants
  <2>2. IsFiniteSet(S)
    BY InstallationConstants, FS_Subset
  <2>3. QED
    BY <2>1, <2>2
<1>2. \E v \in S : \A w \in S : w <= v
  BY <1>1, GreatestNumber
<1>3. QED
  BY <1>2 DEF Newest

LEMMA CheckKeeps ==
  ASSUME InstallationInvariant, NEW p \in Commands, Check(p)
  PROVE  InstallationInvariant'
<1>1. PICK running \in {NoRelease, pointer.current} :
        LET newer == {v \in Releases : running < v /\ v <= offered} IN
        /\ newer # {}
        /\ process' = [process EXCEPT ![p] = [Idle EXCEPT !.pc = "package", !.version = Newest(newer)]]
  BY DEF Check
<1> DEFINE newer == {v \in Releases : running < v /\ v <= offered}
<1>2. newer \in SUBSET Releases /\ newer # {}
  BY <1>1
<1>3. Newest(newer) \in Releases
  BY <1>2, NewestIsThere
<1>4. PICK s : s = [Idle EXCEPT !.pc = "package", !.version = Newest(newer)]
  OBVIOUS
<1> HIDE DEF newer
<1>5. /\ s \in CommandStates /\ s.pc = "package" /\ s.version \in Releases /\ s.launch = "none"
  BY <1>3, <1>4 DEF Idle, CommandStates, Pointers
<1>6. process' = [process EXCEPT ![p] = s]
  BY <1>1, <1>4 DEF newer
<1>7. CommandSound(s)
  BY <1>5 DEF CommandSound
<1>8. UNCHANGED releaseVars /\ UNCHANGED agentVars /\ starts' \in Nat
  BY DEF Check, Starts, InstallationInvariant, InstallationTypes
<1>9. QED
  BY <1>5, <1>6, <1>7, <1>8, CommandMoves

LEMMA VerifyKeeps ==
  ASSUME InstallationInvariant, NEW p \in Commands, Verify(p)
  PROVE  InstallationInvariant'
<1>1. process[p] \in CommandStates /\ CommandSound(process[p]) /\ process[p].pc = "verify"
  BY DEF InstallationInvariant, InstallationTypes, CommandsSound, Verify, At
<1>2. UNCHANGED releaseVars /\ UNCHANGED agentVars /\ starts' \in Nat
  BY DEF Verify, InstallationInvariant, InstallationTypes
<1>3. CASE packages[process[p].version] = "signed"
  <2>1. PICK s : s = [process[p] EXCEPT !.pc = "install"]
    OBVIOUS
  <2>2. s \in CommandStates /\ s.pc = "install" /\ s.version = process[p].version
        /\ s.launch = process[p].launch
    BY <1>1, <2>1 DEF CommandStates
  <2>3. CommandSound(s)
    BY <1>1, <1>3, <2>2 DEF CommandSound
  <2>4. process' = [process EXCEPT ![p] = s]
    BY <1>3, <2>1 DEF Verify, StepsTo
  <2>5. QED
    BY <1>2, <2>2, <2>3, <2>4, CommandMoves
<1>4. CASE packages[process[p].version] # "signed"
  BY <1>2, <1>4, IdleIsSound, CommandMoves DEF Verify, Fails
<1>5. QED
  BY <1>3, <1>4

LEMMA InstallKeeps ==
  ASSUME InstallationInvariant, NEW p \in Commands, Install(p)
  PROVE  InstallationInvariant'
<1>1. process[p] \in CommandStates /\ CommandSound(process[p]) /\ process[p].pc = "install"
  BY DEF InstallationInvariant, InstallationTypes, CommandsSound, Install, At
<1>2. UNCHANGED releaseVars /\ UNCHANGED agentVars /\ starts' \in Nat
  BY DEF Install, InstallationInvariant, InstallationTypes
<1>3. PICK s : s = [process[p] EXCEPT !.pc =
                      IF versions[process[p].version] # "none" THEN "activate" ELSE "extract"]
  OBVIOUS
<1>4. /\ s \in CommandStates /\ s.version = process[p].version /\ s.launch = process[p].launch
      /\ s.pc = IF versions[process[p].version] # "none" THEN "activate" ELSE "extract"
  BY <1>1, <1>3 DEF CommandStates
<1>5. process[p].version \in Releases /\ versions[process[p].version] \in {"none", "signed"}
  BY <1>1 DEF CommandSound, InstallationInvariant, InstallationTypes
<1>6. CommandSound(s)
  BY <1>1, <1>4, <1>5 DEF CommandSound
<1>7. process' = [process EXCEPT ![p] = s]
  BY <1>3 DEF Install, StepsTo
<1>8. QED
  BY <1>2, <1>4, <1>6, <1>7, CommandMoves

LEMMA ReadPointerKeeps ==
  ASSUME InstallationInvariant, NEW p \in Commands, ReadPointer(p)
  PROVE  InstallationInvariant'
<1>1. process[p] \in CommandStates /\ CommandSound(process[p]) /\ process[p].pc = "activate"
  BY DEF InstallationInvariant, InstallationTypes, CommandsSound, ReadPointer, At
<1>2. UNCHANGED releaseVars /\ UNCHANGED agentVars /\ starts' \in Nat
  BY DEF ReadPointer, InstallationInvariant, InstallationTypes
<1>3. PICK read : read = [current |-> process[p].version, previous |-> pointer.current]
  OBVIOUS
<1>4. PICK s : s = [process[p] EXCEPT !.pc = "point", !.read = read]
  OBVIOUS
<1>5. /\ process[p].version \in Releases /\ versions[process[p].version] = "signed"
      /\ pointer.current \in Releases \cup {NoRelease}
      /\ pointer.current # NoRelease => Signed(pointer.current)
  BY <1>1 DEF CommandSound, InstallationInvariant, InstallationTypes, PointerSound, Pointers
<1>6. /\ read \in Pointers /\ read.current = process[p].version /\ read.previous = pointer.current
  BY <1>3, <1>5 DEF Pointers
<1>7. /\ s \in CommandStates /\ s.version = process[p].version /\ s.launch = process[p].launch
      /\ s.pc = "point" /\ s.read = read
  BY <1>1, <1>4, <1>6 DEF CommandStates
<1>8. CommandSound(s)
  BY <1>1, <1>5, <1>6, <1>7 DEF CommandSound, Signed
<1>9. process' = [process EXCEPT ![p] = s]
  BY <1>1, <1>3, <1>4 DEF ReadPointer, CommandStates, InstallationInvariant, InstallationTypes
<1>10. QED
  BY <1>2, <1>7, <1>8, <1>9, CommandMoves

LEMMA RollbackReleaseKeeps ==
  ASSUME InstallationInvariant, NEW p \in Commands, RollbackRelease(p)
  PROVE  InstallationInvariant'
<1>1. UNCHANGED releaseVars /\ UNCHANGED agentVars /\ starts' \in Nat
  BY DEF RollbackRelease, Starts, InstallationInvariant, InstallationTypes
<1>2. PICK read : read = [current |-> pointer.previous, previous |-> pointer.current]
  OBVIOUS
<1>3. PICK s : s = [Idle EXCEPT !.pc = "back", !.read = read]
  OBVIOUS
<1>4. /\ pointer \in Pointers /\ Signed(pointer.previous)
      /\ pointer.current # NoRelease => Signed(pointer.current)
  BY DEF RollbackRelease, InstallationInvariant, InstallationTypes, PointerSound
<1>5. /\ read \in Pointers /\ read.current = pointer.previous /\ read.previous = pointer.current
  BY <1>2, <1>4 DEF Pointers
<1>6. s \in CommandStates /\ s.launch = "none" /\ s.pc = "back" /\ s.read = read
  BY <1>3, <1>5 DEF CommandStates, Idle
<1>7. CommandSound(s)
  BY <1>4, <1>5, <1>6 DEF CommandSound
<1>8. process' = [process EXCEPT ![p] = s]
  BY <1>2, <1>3 DEF RollbackRelease
<1>9. QED
  BY <1>1, <1>6, <1>7, <1>8, CommandMoves

LEMMA StopKeeps ==
  ASSUME InstallationInvariant, NEW p \in Commands, Stop(p)
  PROVE  InstallationInvariant'
<1>1. UNCHANGED releaseVars /\ UNCHANGED agentVars /\ starts' \in Nat
  BY DEF Stop, InstallationInvariant, InstallationTypes
<1>2. process' = [process EXCEPT ![p] = Idle]
  BY DEF Stop, Fails
<1>3. QED
  BY <1>1, <1>2, IdleIsSound, CommandMoves

LEMMA ResolveAgentKeeps ==
  ASSUME InstallationInvariant, NEW p \in Commands, ResolveAgent(p)
  PROVE  InstallationInvariant'
<1>1. UNCHANGED releaseVars /\ UNCHANGED agentVars /\ starts' \in Nat
  BY DEF ResolveAgent, Starts, InstallationInvariant, InstallationTypes
<1>2. PICK launch : launch = IF Launch = "managed" THEN managed.content ELSE Launch
  OBVIOUS
<1>3. launch \in {"unmanaged", "invalid", "part", "whole"} /\ (launch = "part" => removing)
  BY <1>2 DEF Launch, InstallationInvariant, InstallationTypes, AgentSound
<1>4. PICK s : s = [Idle EXCEPT !.launch = launch]
  OBVIOUS
<1>5. s \in CommandStates /\ s.pc = "idle" /\ s.launch = launch
  BY <1>3, <1>4 DEF Idle, CommandStates, Pointers
<1>6. CommandSound(s)
  BY <1>3, <1>5 DEF CommandSound
<1>7. process' = [process EXCEPT ![p] = s]
  BY <1>2, <1>4 DEF ResolveAgent
<1>8. QED
  BY <1>1, <1>5, <1>6, <1>7, CommandMoves

LEMMA InstallAgentKeeps ==
  ASSUME InstallationInvariant, NEW p \in Commands, InstallAgent(p)
  PROVE  InstallationInvariant'
<1>1. UNCHANGED releaseVars /\ UNCHANGED agentVars /\ starts' \in Nat
  BY DEF InstallAgent, Starts, InstallationInvariant, InstallationTypes
<1>2. PICK s : s = [Idle EXCEPT !.pc = "staging"]
  OBVIOUS
<1>3. s \in CommandStates /\ s.pc = "staging" /\ s.launch = "none"
  BY <1>2 DEF Idle, CommandStates, Pointers
<1>4. CommandSound(s)
  BY <1>3 DEF CommandSound
<1>5. process' = [process EXCEPT ![p] = s]
  BY <1>2 DEF InstallAgent
<1>6. QED
  BY <1>1, <1>3, <1>4, <1>5, CommandMoves

-----------------------------------------------------------------------------
(* StepsTo that change what is installed.                                      *)
LEMMA CatalogKeeps ==
  ASSUME InstallationInvariant, ImportPublisher \/ Publish
  PROVE  InstallationInvariant'
<1>1. /\ UNCHANGED <<packages, versions, pointer, launchers, managed, removing, starts, process>>
      /\ trusted' \in BOOLEAN /\ offered' \in Nat
  <2>1. trusted \in BOOLEAN /\ offered \in Nat
    BY DEF InstallationInvariant, InstallationTypes
  <2>2. CASE ImportPublisher
    BY <2>1, <2>2 DEF ImportPublisher, agentVars
  <2>3. CASE Publish
    BY <2>1, <2>3 DEF Publish, agentVars
  <2>4. QED
    BY <2>2, <2>3
<1>2. QED
  BY <1>1 DEF InstallationInvariant, InstallationTypes, PointerSound, AgentSound, Signed,
              CommandsSound, CommandSound

LEMMA PackageKeeps ==
  ASSUME InstallationInvariant, NEW p \in Commands, Package(p)
  PROVE  InstallationInvariant'
<1>1. process[p] \in CommandStates /\ CommandSound(process[p]) /\ process[p].pc = "package"
      /\ process[p].version \in Releases
  BY DEF InstallationInvariant, InstallationTypes, CommandsSound, Package, At, CommandSound
<1>2. PICK s : s = [process[p] EXCEPT !.pc = "verify"]
  OBVIOUS
<1>3. /\ s \in CommandStates /\ s.pc = "verify" /\ s.version = process[p].version
      /\ s.launch = process[p].launch
  BY <1>1, <1>2 DEF CommandStates
<1>4. CommandSound(s)
  BY <1>1, <1>3 DEF CommandSound
<1>5. starts' = starts /\ starts \in Nat
  BY DEF Package, InstallationInvariant, InstallationTypes
<1>6. CASE Fails(p) /\ UNCHANGED packages
  <2>1. UNCHANGED releaseVars /\ UNCHANGED agentVars
    BY <1>6 DEF Package, releaseVars
  <2>2. QED
    BY <1>5, <1>6, <2>1, IdleIsSound, CommandMoves DEF Fails
<1>7. CASE StepsTo(p, "verify") /\ UNCHANGED packages
  <2>1. UNCHANGED releaseVars /\ UNCHANGED agentVars
    BY <1>7 DEF Package, releaseVars
  <2>2. process' = [process EXCEPT ![p] = s]
    BY <1>2, <1>7 DEF StepsTo
  <2>3. QED
    BY <1>3, <1>4, <1>5, <2>1, <2>2, CommandMoves
<1>8. CASE StepsTo(p, "verify") /\ packages' = [packages EXCEPT ![process[p].version] = "signed"]
  <2>1. UNCHANGED <<trusted, offered, versions, pointer, launchers, managed, removing, starts>>
    BY DEF Package, agentVars
  <2>2. /\ packages' \in [Releases -> {"none", "other", "signed"}]
        /\ \A v \in Releases : packages[v] = "signed" => packages'[v] = "signed"
    BY <1>8 DEF InstallationInvariant, InstallationTypes
  <2>3. SignedStays
    BY <2>1, <2>2 DEF SignedStays
  <2>4. CommandSound(s)'
    BY <1>3, <1>4, <2>1, <2>2 DEF CommandSound, Signed
  <2>5. process' = [process EXCEPT ![p] = s]
    BY <1>2, <1>8 DEF StepsTo
  <2>6. process' \in [Commands -> CommandStates] /\ CommandsSound'
    BY <1>3, <2>3, <2>4, <2>5, OthersRely
  <2>7. QED
    BY <2>1, <2>2, <2>6 DEF InstallationInvariant, InstallationTypes, PointerSound, AgentSound, Signed
<1>9. QED
  BY <1>6, <1>7, <1>8 DEF Package

LEMMA ExtractKeeps ==
  ASSUME InstallationInvariant, NEW p \in Commands, Extract(p)
  PROVE  InstallationInvariant'
<1>1. /\ process[p] \in CommandStates /\ CommandSound(process[p]) /\ process[p].pc = "extract"
      /\ process[p].version \in Releases /\ packages[process[p].version] = "signed"
  BY DEF InstallationInvariant, InstallationTypes, CommandsSound, Extract, At, CommandSound
<1>2. CASE Fails(p) /\ UNCHANGED versions
  <2>1. UNCHANGED releaseVars /\ UNCHANGED agentVars /\ starts' \in Nat
    BY <1>2 DEF Extract, releaseVars, InstallationInvariant, InstallationTypes
  <2>2. QED
    BY <1>2, <2>1, IdleIsSound, CommandMoves DEF Fails
<1>3. CASE /\ StepsTo(p, "activate") /\ versions[process[p].version] = "none"
           /\ versions' = [versions EXCEPT ![process[p].version] = packages[process[p].version]]
  <2>1. PICK s : s = [process[p] EXCEPT !.pc = "activate"]
    OBVIOUS
  <2>2. /\ s \in CommandStates /\ s.pc = "activate" /\ s.version = process[p].version
        /\ s.launch = process[p].launch
    BY <1>1, <2>1 DEF CommandStates
  <2>3. UNCHANGED <<trusted, offered, packages, pointer, launchers, managed, removing, starts>>
    BY DEF Extract, agentVars
  <2>4. /\ versions' \in [Releases -> {"none", "signed"}]
        /\ \A v \in Releases : versions[v] = "signed" => versions'[v] = "signed"
        /\ versions'[process[p].version] = "signed"
    BY <1>1, <1>3 DEF InstallationInvariant, InstallationTypes
  <2>5. SignedStays
    BY <2>3, <2>4 DEF SignedStays
  <2>6. CommandSound(s)'
    BY <1>1, <2>2, <2>3, <2>4 DEF CommandSound
  <2>7. process' = [process EXCEPT ![p] = s]
    BY <1>3, <2>1 DEF StepsTo
  <2>8. process' \in [Commands -> CommandStates] /\ CommandsSound'
    BY <2>2, <2>5, <2>6, <2>7, OthersRely
  <2>9. PointerSound'
    BY <2>3, <2>4 DEF InstallationInvariant, PointerSound, Signed
  <2>10. QED
    BY <2>3, <2>4, <2>8, <2>9 DEF InstallationInvariant, InstallationTypes, AgentSound
<1>4. QED
  BY <1>2, <1>3 DEF Extract

LEMMA WritePointerKeeps ==
  ASSUME InstallationInvariant, NEW p \in Commands, WritePointer(p)
  PROVE  InstallationInvariant'
<1>1. /\ process[p] \in CommandStates /\ CommandSound(process[p]) /\ process[p].pc \in {"point", "back"}
  BY DEF InstallationInvariant, InstallationTypes, CommandsSound, WritePointer
<1>2. /\ pointer' = process[p].read /\ pointer' \in Pointers
      /\ Signed(pointer'.current) /\ (pointer'.previous # NoRelease => Signed(pointer'.previous))
  BY <1>1 DEF WritePointer, CommandSound, CommandStates
<1>3. UNCHANGED <<trusted, offered, packages, versions, launchers, managed, removing, starts>>
  BY DEF WritePointer, agentVars
<1>4. pointer'.current # NoRelease
  BY <1>2, InstallationConstants DEF Signed, NoRelease
<1>5. SignedStays
  BY <1>3, <1>4 DEF SignedStays
<1>6. PICK s : s = IF process[p].pc = "back" THEN Idle ELSE [process[p] EXCEPT !.pc = "launchers"]
  OBVIOUS
<1>7. s \in CommandStates /\ CommandSound(s)'
  <2>1. CASE process[p].pc = "back"
    BY <1>6, <2>1, IdleIsSound, IdleIsSoundNext
  <2>2. CASE process[p].pc = "point"
    <3>1. /\ s \in CommandStates /\ s.pc = "launchers" /\ s.version = process[p].version
          /\ s.launch = process[p].launch
      BY <1>1, <1>6, <2>2 DEF CommandStates
    <3>2. CommandSound(s)'
      BY <1>1, <1>3, <1>4, <2>2, <3>1 DEF CommandSound
    <3>3. QED
      BY <3>1, <3>2
  <2>3. QED
    BY <1>1, <2>1, <2>2
<1>8. process' = [process EXCEPT ![p] = s]
  BY <1>1, <1>6 DEF WritePointer, At, Fails, StepsTo
<1>9. process' \in [Commands -> CommandStates] /\ CommandsSound'
  BY <1>5, <1>7, <1>8, OthersRely
<1>10. PointerSound'
  BY <1>2, <1>3, <1>4 DEF PointerSound, Signed
<1>11. QED
  BY <1>2, <1>3, <1>9, <1>10 DEF InstallationInvariant, InstallationTypes, AgentSound

LEMMA WriteLaunchersKeeps ==
  ASSUME InstallationInvariant, NEW p \in Commands, WriteLaunchers(p)
  PROVE  InstallationInvariant'
<1>1. pointer.current # NoRelease
  BY DEF WriteLaunchers, At, InstallationInvariant, CommandsSound, CommandSound
<1>2. /\ UNCHANGED <<trusted, offered, packages, versions, pointer, managed, removing, starts>>
      /\ launchers' = TRUE
  BY DEF WriteLaunchers, agentVars
<1>3. SignedStays
  BY <1>2 DEF SignedStays
<1>4. process' = [process EXCEPT ![p] = Idle]
  BY DEF WriteLaunchers, Fails
<1>5. process' \in [Commands -> CommandStates] /\ CommandsSound'
  BY <1>3, <1>4, IdleIsSound, IdleIsSoundNext, OthersRely
<1>6. PointerSound'
  BY <1>1, <1>2 DEF InstallationInvariant, PointerSound, Signed
<1>7. QED
  BY <1>2, <1>5, <1>6 DEF InstallationInvariant, InstallationTypes, AgentSound

(* A step on an agent's directory.                                           *)
LEMMA AgentMoves ==
  ASSUME InstallationInvariant, UNCHANGED releaseVars,
         managed' \in [receipt : BOOLEAN, content : {"none", "part", "whole"}],
         removing' \in BOOLEAN, removing => removing', AgentSound',
         starts' \in Nat, NEW p \in Commands, NEW s \in CommandStates,
         process' = [process EXCEPT ![p] = s], CommandSound(s)'
  PROVE  InstallationInvariant'
<1>1. SignedStays
  BY DEF SignedStays, releaseVars
<1>2. process' \in [Commands -> CommandStates] /\ CommandsSound'
  BY <1>1, OthersRely
<1>3. InstallationTypes' /\ PointerSound'
  BY <1>2 DEF InstallationInvariant, InstallationTypes, PointerSound, Signed, releaseVars
<1>4. QED
  BY <1>2, <1>3 DEF InstallationInvariant

LEMMA PlaceAgentKeeps ==
  ASSUME InstallationInvariant, NEW p \in Commands, PlaceAgent(p)
  PROVE  InstallationInvariant'
<1>1. /\ managed' \in [receipt : BOOLEAN, content : {"none", "part", "whole"}]
      /\ AgentSound' /\ UNCHANGED removing
  <2>1. managed \in [receipt : BOOLEAN, content : {"none", "part", "whole"}] /\ AgentSound
    BY DEF InstallationInvariant, InstallationTypes
  <2>2. UNCHANGED removing
    BY DEF PlaceAgent
  <2>3. CASE managed' = [receipt |-> TRUE, content |-> "whole"]
    BY <2>2, <2>3 DEF AgentSound
  <2>4. CASE UNCHANGED managed
    BY <2>1, <2>2, <2>4 DEF AgentSound
  <2>5. QED
    BY <2>3, <2>4 DEF PlaceAgent
<1>2. UNCHANGED releaseVars /\ starts' \in Nat /\ removing' \in BOOLEAN
      /\ process' = [process EXCEPT ![p] = Idle]
  BY DEF PlaceAgent, Fails, InstallationInvariant, InstallationTypes
<1>3. QED
  BY <1>1, <1>2, IdleIsSound, IdleIsSoundNext, AgentMoves

LEMMA UninstallAgentKeeps ==
  ASSUME InstallationInvariant, NEW p \in Commands, UninstallAgent(p)
  PROVE  InstallationInvariant'
<1>1. removing' = TRUE /\ managed' = managed /\ UNCHANGED releaseVars /\ starts' \in Nat
  BY DEF UninstallAgent, Starts, InstallationInvariant, InstallationTypes
<1>2. PICK s : s = [Idle EXCEPT !.pc = "removing"]
  OBVIOUS
<1>3. s \in CommandStates /\ s.pc = "removing" /\ s.launch = "none"
  BY <1>2 DEF Idle, CommandStates, Pointers
<1>4. CommandSound(s)'
  BY <1>1, <1>3 DEF CommandSound
<1>5. process' = [process EXCEPT ![p] = s]
  BY <1>2 DEF UninstallAgent
<1>6. /\ managed' \in [receipt : BOOLEAN, content : {"none", "part", "whole"}]
      /\ AgentSound' /\ removing' \in BOOLEAN
  BY <1>1 DEF InstallationInvariant, InstallationTypes, AgentSound
<1>7. QED
  BY <1>1, <1>3, <1>4, <1>5, <1>6, AgentMoves

LEMMA RemoveFileKeeps ==
  ASSUME InstallationInvariant, NEW p \in Commands, RemoveFile(p)
  PROVE  InstallationInvariant'
<1>1. process[p] \in CommandStates /\ CommandSound(process[p]) /\ process[p].pc = "removing" /\ removing
  BY DEF InstallationInvariant, InstallationTypes, CommandsSound, RemoveFile, At, CommandSound
<1>2. UNCHANGED removing /\ UNCHANGED releaseVars /\ starts' \in Nat
      /\ removing' \in BOOLEAN
  BY DEF RemoveFile, InstallationInvariant, InstallationTypes
<1>3. managed' \in [receipt : BOOLEAN, content : {"none", "part", "whole"}] /\ AgentSound'
  <2>1. managed \in [receipt : BOOLEAN, content : {"none", "part", "whole"}]
    BY DEF InstallationInvariant, InstallationTypes
  <2>2. AgentSound'
    BY <1>1, <1>2 DEF AgentSound
  <2>3. CASE managed' = [managed EXCEPT !.receipt = FALSE]
    BY <2>1, <2>2, <2>3
  <2>4. CASE managed' = [managed EXCEPT !.content = "part"]
    BY <2>1, <2>2, <2>4
  <2>5. CASE managed' = [managed EXCEPT !.content = "none"]
    BY <2>1, <2>2, <2>5
  <2>6. CASE UNCHANGED managed
    BY <2>1, <2>2, <2>6
  <2>7. QED
    BY <2>3, <2>4, <2>5, <2>6 DEF RemoveFile
<1>4. CASE Fails(p)
  BY <1>2, <1>3, <1>4, IdleIsSound, IdleIsSoundNext, AgentMoves DEF Fails
<1>5. CASE UNCHANGED process
  <2>1. PICK s : s = process[p]
    OBVIOUS
  <2>2. s \in CommandStates /\ CommandSound(s)
    BY <1>1, <2>1
  <2>3. CommandSound(s)'
    BY <1>2, <2>2 DEF CommandSound, Signed, releaseVars
  <2>4. process' = [process EXCEPT ![p] = s]
    BY <1>5, <2>1 DEF InstallationInvariant, InstallationTypes
  <2>5. QED
    BY <1>2, <1>3, <2>2, <2>3, <2>4, AgentMoves
<1>6. QED
  BY <1>4, <1>5 DEF RemoveFile

-----------------------------------------------------------------------------
(* updater.py, agent_installation.py: in every reachable state what commands *)
(* rely on is true.                                                          *)
THEOREM InstallationsAreSound == InstallationSpec => []InstallationInvariant
<1>1. ASSUME InstallationInvariant, [InstallationNext]_installationVars PROVE InstallationInvariant'
  <2>1. CASE ImportPublisher \/ Publish
    BY <1>1, <2>1, CatalogKeeps
  <2>2. ASSUME NEW p \in Commands, Update(p) PROVE InstallationInvariant'
    BY <1>1, <2>2, CheckKeeps, PackageKeeps, VerifyKeeps, InstallKeeps, ExtractKeeps, ReadPointerKeeps,
       WritePointerKeeps, WriteLaunchersKeeps, RollbackReleaseKeeps DEF Update
  <2>3. ASSUME NEW p \in Commands, ManageAgent(p) PROVE InstallationInvariant'
    BY <1>1, <2>3, ResolveAgentKeeps, InstallAgentKeeps, PlaceAgentKeeps, UninstallAgentKeeps,
       RemoveFileKeeps DEF ManageAgent
  <2>4. ASSUME NEW p \in Commands, Stop(p) PROVE InstallationInvariant'
    BY <1>1, <2>4, StopKeeps
  <2>5. CASE UNCHANGED installationVars
    BY <1>1, <2>5 DEF installationVars, InstallationInvariant, InstallationTypes, PointerSound, AgentSound,
                      Signed, CommandsSound, CommandSound
  <2>6. QED
    BY <1>1, <2>1, <2>2, <2>3, <2>4, <2>5 DEF InstallationNext
<1>2. QED
  BY <1>1, InstallationsFirst, PTL DEF InstallationSpec

(* However updates, rollbacks, installations and removals interleave and     *)
(* wherever they stop, what is launched is installed, whole and signed.      *)
THEOREM WholeLaunches == InstallationSpec => []LaunchesAreWhole
<1>1. InstallationInvariant => LaunchesAreWhole
  BY DEF InstallationInvariant, LaunchesAreWhole, PointerIsInstalled, LaunchedIsWhole, PointerSound, Signed,
         CommandsSound, CommandSound
<1>2. QED
  BY <1>1, InstallationsAreSound, PTL

-----------------------------------------------------------------------------
(***************************************************************************)
(* RoleAdapters.  Where a call is decides what its process, its files and  *)
(* its provider can be.                                                    *)
(***************************************************************************)
FileLists == {<<>>, <<"prompt">>, <<"config", "message">>, <<"message">>, <<"cwd">>}

Decisions == {"none", "approve", "reject", "escalate", "other", "spec", "pass", "fail"}

AnswerRecords == [decision : Decisions, brief : BOOLEAN, escalation : BOOLEAN]

SaidRecords == [zero : BOOLEAN, json : BOOLEAN, failed : BOOLEAN, answer : AnswerRecords]

CallRecords ==
    [role : {"worker", "critic", "supervisor", "verifier"},
     driver : {"command", "process", "claude_code", "openclaw", "hermes", "command_json", "model_json"},
     needs : FileLists, pc : {"called", "writing", "waiting", "asked", "ended"},
     result : {"none", "ok", "error", "raised"}, decision : Decisions, full : BOOLEAN]

ProcessRecords ==
    [at : {"none", "running", "exited", "killed"}, children : SUBSET ChildKinds, said : SaidRecords]

ProviderRecords == [asked : Nat, served : Nat, lost : Nat]

AdapterTypes ==
    /\ call \in CallRecords /\ proc \in ProcessRecords
    /\ disk \subseteq {"prompt", "config", "message", "cwd"}
    /\ provider \in ProviderRecords

\* Only a Critic asks for a correction or an escalation.
SaidSound == call.role # "critic" => ~proc.said.answer.brief /\ ~proc.said.answer.escalation

\* Hermes is a worker, and a model has no process.
ProcessSound ==
    /\ proc.at = "none" => proc.children = {}
    /\ call.pc \in {"called", "writing", "asked"} => proc.at = "none"
    /\ call.pc = "waiting" => proc.at \in {"running", "exited"}
    /\ proc.at = "killed" => call.pc = "ended" /\ (call.result = "ok" => call.driver = "hermes")

FilesSound ==
    /\ call.pc \in {"called", "asked"} => disk = {}
    /\ call.needs = <<"cwd">> => disk = {}

CallSound ==
    /\ call.pc # "ended" => call.result = "none"
    /\ call.pc \in {"called", "asked"} => provider.served <= provider.lost
    /\ call.pc = "called" => provider.asked <= MaxRetries

AdapterInvariant ==
    /\ AdapterTypes /\ SaidSound /\ ProcessSound /\ FilesSound /\ CallSound
    /\ SuccessIsEarned /\ NothingLeftBehind /\ ServedOnce

LEMMA AdapterFirst == AdapterInit => AdapterInvariant
<1> SUFFICES ASSUME AdapterInit PROVE AdapterInvariant
  OBVIOUS
<1>1. PICK a \in Adapters : \E needs \in Needs(a[1], a[2]) :
          call = [role |-> a[1], driver |-> a[2], needs |-> needs, pc |-> "called",
                  result |-> "none", decision |-> "none", full |-> FALSE]
  BY DEF AdapterInit
<1>2. PICK needs \in Needs(a[1], a[2]) :
          call = [role |-> a[1], driver |-> a[2], needs |-> needs, pc |-> "called",
                  result |-> "none", decision |-> "none", full |-> FALSE]
  BY <1>1
<1>3. /\ a[1] \in {"worker", "critic", "supervisor", "verifier"}
      /\ a[2] \in {"command", "process", "claude_code", "openclaw", "hermes", "command_json", "model_json"}
      /\ a[1] # "worker" => a[2] \notin {"process", "openclaw"}
  BY DEF Adapters
<1>4. needs \in FileLists
  BY <1>3 DEF Needs, FileLists
<1>5. call \in CallRecords /\ call.pc = "called" /\ call.result = "none"
  BY <1>2, <1>3, <1>4 DEF CallRecords, Decisions
<1>6. /\ proc \in ProcessRecords /\ proc.at = "none" /\ proc.children = {}
      /\ proc.said.answer.brief = FALSE /\ proc.said.answer.escalation = FALSE
  BY DEF AdapterInit, ProcessRecords, SaidRecords, AnswerRecords, Decisions, SaidNothing, NoAnswer
<1>7. provider \in ProviderRecords /\ provider.asked = 0 /\ provider.served = 0 /\ provider.lost = 0 /\ disk = {}
  BY DEF AdapterInit, ProviderRecords
<1>8. QED
  BY <1>5, <1>6, <1>7, AdapterConstants DEF AdapterInvariant, AdapterTypes, SaidSound, ProcessSound, FilesSound,
     CallSound, SuccessIsEarned, NothingLeftBehind, ServedOnce

-----------------------------------------------------------------------------
\* What a call is about stays.
SameCall ==
    /\ call' \in CallRecords
    /\ call'.role = call.role /\ call'.driver = call.driver /\ call'.full = call.full

LEMMA EndedCall ==
  ASSUME call \in CallRecords, NEW result \in {"ok", "error"}, NEW decision \in Decisions,
         CallEnds(result, decision)
  PROVE  /\ SameCall /\ call'.needs = call.needs /\ call'.pc = "ended"
         /\ call'.result = result /\ call'.decision = decision
BY DEF CallEnds, CallRecords, SameCall

LEMMA FailedCall ==
  ASSUME call \in CallRecords, CallFails
  PROVE  SameCall /\ call'.needs = call.needs /\ call'.pc = "ended" /\ call'.result = "error"
BY EndedCall DEF CallFails, Decisions

LEMMA SucceededCall ==
  ASSUME call \in CallRecords, NEW answer \in AnswerRecords, Succeeds(answer),
         call.role # "critic" => ~answer.brief /\ ~answer.escalation
  PROVE  /\ SameCall /\ call'.needs = call.needs /\ call'.pc = "ended"
         /\ call'.result \in {"ok", "error"}
         /\ call'.result = "ok" =>
              /\ call'.decision = answer.decision
              /\ call'.decision = "approve" => ~answer.brief /\ ~answer.escalation
<1>1. CASE Fits(answer)
  <2>1. CallEnds("ok", answer.decision) /\ answer.decision \in Decisions
    BY <1>1 DEF Succeeds, AnswerRecords
  <2>2. answer.decision = "approve" => ~answer.brief /\ ~answer.escalation
    BY <1>1 DEF Fits, ValidJudgment, CallRecords, AnswerRecords
  <2>3. QED
    BY <2>1, <2>2, EndedCall
<1>2. CASE ~Fits(answer)
  BY <1>2, FailedCall DEF Succeeds
<1>3. QED
  BY <1>1, <1>2

LEMMA AnswersOfRole ==
  ASSUME NEW who \in {"worker", "critic", "supervisor", "verifier"}, NEW answer \in Answers(who)
  PROVE  answer \in AnswerRecords /\ (who # "critic" => ~answer.brief /\ ~answer.escalation)
<1>1. CASE who = "worker"
  <2>1. answer = NoAnswer
    BY <1>1 DEF Answers
  <2>2. QED
    BY <1>1, <2>1 DEF NoAnswer, AnswerRecords, Decisions
<1>2. CASE who = "critic"
  BY <1>2 DEF Answers, AnswerRecords, Decisions
<1>3. CASE who = "supervisor"
  <2>1. PICK n \in {"spec", "other"} : answer = [NoAnswer EXCEPT !.decision = n]
    BY <1>3 DEF Answers
  <2>2. QED
    BY <2>1 DEF NoAnswer, AnswerRecords, Decisions
<1>4. CASE who = "verifier"
  <2>1. PICK n \in {"pass", "fail", "escalate", "other"} : answer = [NoAnswer EXCEPT !.decision = n]
    BY <1>4 DEF Answers
  <2>2. QED
    BY <2>1 DEF NoAnswer, AnswerRecords, Decisions
<1>5. QED
  BY <1>1, <1>2, <1>3, <1>4

(* Nothing but the call changes, and it fails.                               *)
LEMMA CallFailsKeeps ==
  ASSUME AdapterInvariant, CallFails, proc' = proc, provider' = provider,
         disk' \in {disk, {}}, proc.at # "running", call.full \/ disk' = {}
  PROVE  AdapterInvariant'
<1>1. call \in CallRecords
  BY DEF AdapterInvariant, AdapterTypes
<1>2. SameCall /\ call'.pc = "ended" /\ call'.result = "error"
  BY <1>1, FailedCall
<1>3. AdapterTypes' /\ SaidSound' /\ CallSound' /\ FilesSound'
  <2>1. call'.needs = call.needs
    BY <1>1, FailedCall
  <2>2. QED
    BY <1>2, <2>1 DEF AdapterInvariant, AdapterTypes, SaidSound, CallSound, FilesSound, SameCall
<1>4. ProcessSound' /\ SuccessIsEarned' /\ NothingLeftBehind' /\ ServedOnce'
  BY <1>2 DEF AdapterInvariant, ProcessSound, SuccessIsEarned, NothingLeftBehind, ServedOnce, SameCall
<1>5. QED
  BY <1>3, <1>4 DEF AdapterInvariant

LEMMA NotIsolatedKeeps ==
  ASSUME AdapterInvariant, NotIsolated \/ NotConfigured
  PROVE  AdapterInvariant'
<1>1. disk = {} /\ proc.at = "none"
  BY DEF NotIsolated, NotConfigured, AdapterInvariant, FilesSound, ProcessSound
<1>2. QED
  BY <1>1, CallFailsKeeps DEF NotIsolated, NotConfigured

LEMMA RefusedForGoodKeeps ==
  ASSUME AdapterInvariant, RefusedForGood
  PROVE  AdapterInvariant'
<1>1. disk = {} /\ proc.at = "none"
  BY DEF RefusedForGood, AdapterInvariant, FilesSound, ProcessSound
<1>2. QED
  BY <1>1, CallFailsKeeps DEF RefusedForGood

LEMMA StartFailsKeeps ==
  ASSUME AdapterInvariant, StartFails
  PROVE  AdapterInvariant'
<1>1. disk' = {} /\ proc.at = "none"
  BY DEF StartFails, CleanedUp, AdapterInvariant, ProcessSound
<1>2. QED
  BY <1>1, CallFailsKeeps DEF StartFails

(* The call goes on.                                                         *)
LEMMA CallGoesOn ==
  ASSUME AdapterInvariant, SameCall, call'.pc # "ended", call'.result = "none",
         provider' = provider, AdapterTypes', SaidSound', ProcessSound', FilesSound', CallSound'
  PROVE  AdapterInvariant'
BY DEF AdapterInvariant, SuccessIsEarned, NothingLeftBehind, ServedOnce

LEMMA PrepareCallKeeps ==
  ASSUME AdapterInvariant, PrepareCall
  PROVE  AdapterInvariant'
<1>1. call \in CallRecords /\ call.pc = "called" /\ call.result = "none"
  BY DEF PrepareCall, AdapterInvariant, AdapterTypes, CallSound
<1>2. SameCall /\ call'.needs = call.needs /\ call'.pc = "writing" /\ call'.result = "none"
  BY <1>1 DEF PrepareCall, CallRecords, SameCall
<1>3. UNCHANGED <<proc, disk, provider>>
  BY DEF PrepareCall
<1>4. AdapterTypes' /\ SaidSound' /\ ProcessSound' /\ FilesSound' /\ CallSound'
  BY <1>1, <1>2, <1>3 DEF AdapterInvariant, AdapterTypes, SaidSound, ProcessSound, FilesSound, CallSound, SameCall
<1>5. QED
  BY <1>2, <1>3, <1>4, CallGoesOn

LEMMA WriteFileKeeps ==
  ASSUME AdapterInvariant, WriteFile
  PROVE  AdapterInvariant'
<1>1. call \in CallRecords /\ call.pc = "writing" /\ call.result = "none" /\ call.needs # <<>>
  BY DEF WriteFile, AdapterInvariant, AdapterTypes, CallSound
<1>2. Head(call.needs) \in {"prompt", "config", "message", "cwd"} /\ Tail(call.needs) \in {<<>>, <<"message">>}
  <2>1. CASE call.needs = <<"prompt">>
    BY <2>1
  <2>2. CASE call.needs = <<"message">>
    BY <2>2
  <2>3. CASE call.needs = <<"cwd">>
    BY <2>3
  <2>4. CASE call.needs = <<"config", "message">>
    BY <2>4
  <2>5. QED
    BY <1>1, <2>1, <2>2, <2>3, <2>4 DEF CallRecords, FileLists
<1>3. PICK needs \in FileLists : needs = Tail(call.needs) /\ needs # <<"cwd">>
  BY <1>2 DEF FileLists
<1>4. call' = [call EXCEPT !.needs = needs]
  BY <1>3 DEF WriteFile
<1>5. SameCall /\ call'.needs = needs /\ call'.pc = "writing" /\ call'.result = "none"
  BY <1>1, <1>4 DEF CallRecords, SameCall
<1>6. UNCHANGED <<proc, provider>> /\ disk' = disk \cup {Head(call.needs)}
  BY DEF WriteFile
<1>7. AdapterTypes'
  BY <1>2, <1>5, <1>6 DEF AdapterInvariant, AdapterTypes, SameCall
<1>8. SaidSound' /\ ProcessSound' /\ FilesSound' /\ CallSound'
  BY <1>1, <1>3, <1>5, <1>6 DEF AdapterInvariant, SaidSound, ProcessSound, FilesSound, CallSound, SameCall
<1>9. QED
  BY <1>5, <1>6, <1>7, <1>8, CallGoesOn

LEMMA WriteFailsKeeps ==
  ASSUME AdapterInvariant, WriteFails
  PROVE  AdapterInvariant'
<1>1. call \in CallRecords /\ call.pc = "writing" /\ call.result = "none" /\ call.needs # <<>>
      /\ proc.at = "none"
  BY DEF WriteFails, AdapterInvariant, AdapterTypes, CallSound, ProcessSound
<1>2. UNCHANGED <<proc, provider>>
  BY DEF WriteFails
<1>3. CASE Head(call.needs) = "cwd"
  <2>1. call.needs = <<"cwd">>
    BY <1>1, <1>3 DEF CallRecords, FileLists
  <2>2. CallFails /\ disk' = disk /\ disk = {}
    BY <1>3, <2>1 DEF WriteFails, AdapterInvariant, FilesSound
  <2>3. QED
    BY <1>1, <1>2, <2>2, CallFailsKeeps
<1>4. CASE Head(call.needs) # "cwd"
  <2>1. /\ call' = [call EXCEPT !.pc = "ended", !.result = "raised", !.full = TRUE]
        /\ disk' \in {disk, disk \cup {Head(call.needs)}}
    BY <1>4 DEF WriteFails
  <2>2. /\ call' \in CallRecords /\ call'.pc = "ended" /\ call'.result = "raised" /\ call'.full = TRUE
        /\ call'.needs = call.needs /\ call'.role = call.role
    BY <1>1, <2>1 DEF CallRecords
  <2>3. Head(call.needs) \in {"prompt", "config", "message", "cwd"} /\ call.needs # <<"cwd">>
    BY <1>1, <1>4 DEF CallRecords, FileLists
  <2>4. AdapterTypes'
    BY <1>2, <2>1, <2>2, <2>3 DEF AdapterInvariant, AdapterTypes
  <2>5. SaidSound' /\ ProcessSound' /\ FilesSound' /\ CallSound'
    BY <1>1, <1>2, <2>2, <2>3 DEF AdapterInvariant, SaidSound, ProcessSound, FilesSound, CallSound
  <2>6. SuccessIsEarned' /\ NothingLeftBehind' /\ ServedOnce'
    BY <1>1, <1>2, <2>2 DEF AdapterInvariant, SuccessIsEarned, NothingLeftBehind, ServedOnce
  <2>7. QED
    BY <2>4, <2>5, <2>6 DEF AdapterInvariant
<1>5. QED
  BY <1>3, <1>4

LEMMA StartProcessKeeps ==
  ASSUME AdapterInvariant, StartProcess
  PROVE  AdapterInvariant'
<1>1. call \in CallRecords /\ proc \in ProcessRecords /\ call.pc = "writing" /\ call.result = "none"
  BY DEF StartProcess, AdapterInvariant, AdapterTypes, CallSound
<1>2. SameCall /\ call'.needs = call.needs /\ call'.pc = "waiting" /\ call'.result = "none"
  BY <1>1 DEF StartProcess, CallRecords, SameCall
<1>3. proc' \in ProcessRecords /\ proc'.at = "running" /\ proc'.said = proc.said
  BY <1>1 DEF StartProcess, ProcessRecords
<1>4. UNCHANGED <<disk, provider>>
  BY DEF StartProcess
<1>5. AdapterTypes' /\ SaidSound' /\ ProcessSound' /\ FilesSound' /\ CallSound'
  BY <1>1, <1>2, <1>3, <1>4 DEF AdapterInvariant, AdapterTypes, SaidSound, ProcessSound, FilesSound, CallSound,
     SameCall
<1>6. QED
  BY <1>2, <1>4, <1>5, CallGoesOn

-----------------------------------------------------------------------------
(* A step of the process, which runs or leaves a child.                      *)
LEMMA ProcessMoves ==
  ASSUME AdapterInvariant, UNCHANGED <<call, disk, provider>>, proc' \in ProcessRecords,
         SaidSound', call.pc = "waiting", proc'.at \in {"running", "exited"}
  PROVE  AdapterInvariant'
<1>1. AdapterTypes' /\ ProcessSound' /\ FilesSound' /\ CallSound'
  BY DEF AdapterInvariant, AdapterTypes, ProcessSound, FilesSound, CallSound
<1>2. SuccessIsEarned' /\ NothingLeftBehind' /\ ServedOnce'
  BY DEF AdapterInvariant, SuccessIsEarned, NothingLeftBehind, ServedOnce, CallSound
<1>3. QED
  BY <1>1, <1>2 DEF AdapterInvariant

LEMMA RunningWaits ==
  ASSUME AdapterInvariant, proc.at = "running"
  PROVE  call.pc = "waiting"
BY DEF AdapterInvariant, AdapterTypes, CallRecords, ProcessSound, NothingLeftBehind

LEMMA ProcessSpawnsKeeps ==
  ASSUME AdapterInvariant, ProcessSpawns
  PROVE  AdapterInvariant'
<1>1. proc \in ProcessRecords /\ call.pc = "waiting"
  BY RunningWaits DEF ProcessSpawns, AdapterInvariant, AdapterTypes
<1>2. proc' \in ProcessRecords /\ proc'.at = "running" /\ proc'.said = proc.said
  <2>1. PICK kind \in ChildKinds : proc' = [proc EXCEPT !.children = @ \cup {kind}]
    BY DEF ProcessSpawns
  <2>2. PICK children \in SUBSET ChildKinds : children = proc.children \cup {kind}
    BY <1>1 DEF ProcessRecords
  <2>3. proc' = [proc EXCEPT !.children = children]
    BY <2>1, <2>2
  <2>4. QED
    BY <1>1, <2>3 DEF ProcessSpawns, ProcessRecords
<1>3. SaidSound'
  BY <1>2 DEF ProcessSpawns, AdapterInvariant, SaidSound
<1>4. QED
  BY <1>1, <1>2, <1>3, ProcessMoves DEF ProcessSpawns

LEMMA ChildEndsKeeps ==
  ASSUME AdapterInvariant, ChildEnds
  PROVE  AdapterInvariant'
<1>1. proc \in ProcessRecords
  BY DEF AdapterInvariant, AdapterTypes
<1>2. /\ proc' \in ProcessRecords /\ proc'.at = proc.at /\ proc'.said = proc.said
      /\ proc'.children \subseteq proc.children
  <2>1. PICK kind \in proc.children : proc' = [proc EXCEPT !.children = @ \ {kind}]
    BY DEF ChildEnds
  <2>2. PICK children \in SUBSET ChildKinds : children = proc.children \ {kind}
    BY <1>1 DEF ProcessRecords
  <2>3. proc' = [proc EXCEPT !.children = children]
    BY <2>1, <2>2
  <2>4. QED
    BY <1>1, <2>2, <2>3 DEF ProcessRecords
<1>3. UNCHANGED <<call, disk, provider>>
  BY DEF ChildEnds
<1>4. AdapterTypes' /\ SaidSound' /\ ProcessSound' /\ FilesSound' /\ CallSound'
  BY <1>2, <1>3 DEF AdapterInvariant, AdapterTypes, SaidSound, ProcessSound, FilesSound, CallSound
<1>5. SuccessIsEarned' /\ NothingLeftBehind' /\ ServedOnce'
  BY <1>2, <1>3 DEF AdapterInvariant, SuccessIsEarned, NothingLeftBehind, ServedOnce
<1>6. QED
  BY <1>4, <1>5 DEF AdapterInvariant

LEMMA ProcessExitsKeeps ==
  ASSUME AdapterInvariant, ProcessExits
  PROVE  AdapterInvariant'
<1>1. proc \in ProcessRecords /\ call \in CallRecords /\ call.pc = "waiting"
  BY RunningWaits DEF ProcessExits, AdapterInvariant, AdapterTypes
<1>2. PICK said \in IF call.driver = "hermes" THEN {proc.said} ELSE MaySay(call.role, call.driver) :
        proc' = [proc EXCEPT !.at = "exited", !.said = said]
  BY DEF ProcessExits
<1>3. said \in SaidRecords /\ (call.role # "critic" => ~said.answer.brief /\ ~said.answer.escalation)
  <2>1. CASE call.driver = "hermes"
    BY <1>1, <1>2, <2>1 DEF ProcessRecords, AdapterInvariant, SaidSound
  <2>2. CASE call.driver # "hermes"
    <3>1. said \in MaySay(call.role, call.driver)
      BY <1>2, <2>2
    <3>2. said.answer \in AnswerRecords
          /\ (call.role # "critic" => ~said.answer.brief /\ ~said.answer.escalation)
      BY <1>1, <3>1, AnswersOfRole DEF MaySay, CallRecords
    <3>3. QED
      BY <3>1, <3>2 DEF MaySay, SaidRecords
  <2>3. QED
    BY <2>1, <2>2
<1>4. proc' \in ProcessRecords /\ proc'.at = "exited" /\ proc'.said = said
  BY <1>1, <1>2, <1>3 DEF ProcessRecords
<1>5. SaidSound'
  BY <1>3, <1>4 DEF ProcessExits, SaidSound
<1>6. QED
  BY <1>1, <1>4, <1>5, ProcessMoves DEF ProcessExits

LEMMA ProcessSaysKeeps ==
  ASSUME AdapterInvariant, ProcessSays
  PROVE  AdapterInvariant'
<1>1. proc \in ProcessRecords /\ call.pc = "waiting"
  BY RunningWaits DEF ProcessSays, AdapterInvariant, AdapterTypes
<1>2. PICK failed \in BOOLEAN :
        proc' = [proc EXCEPT !.said = [SaidNothing EXCEPT !.zero = TRUE, !.json = TRUE, !.failed = failed]]
  BY DEF ProcessSays
<1>3. PICK said : said = [SaidNothing EXCEPT !.zero = TRUE, !.json = TRUE, !.failed = failed]
  OBVIOUS
<1>4. said \in SaidRecords /\ ~said.answer.brief /\ ~said.answer.escalation
  BY <1>3 DEF SaidNothing, NoAnswer, SaidRecords, AnswerRecords, Decisions
<1>5. proc' \in ProcessRecords /\ proc'.at = proc.at /\ proc'.said = said
  BY <1>1, <1>2, <1>3, <1>4 DEF ProcessRecords
<1>6. SaidSound' /\ proc.at = "running"
  BY <1>4, <1>5 DEF ProcessSays, SaidSound
<1>7. QED
  BY <1>1, <1>5, <1>6, ProcessMoves DEF ProcessSays

-----------------------------------------------------------------------------
LEMMA ReadKeeps ==
  ASSUME AdapterInvariant, Read
  PROVE  AdapterInvariant'
<1>1. /\ call \in CallRecords /\ proc \in ProcessRecords /\ call.pc = "waiting"
      /\ proc.at \in {"running", "exited"} /\ proc.said \in SaidRecords
  BY DEF Read, AdapterInvariant, AdapterTypes, ProcessSound, ProcessRecords
<1>2. disk' = {} /\ provider' = provider
  BY DEF Read, CleanedUp
<1>3. /\ proc' \in ProcessRecords /\ proc'.said = proc.said /\ proc'.at \in {"killed", "exited"}
      /\ proc'.at = "killed" => call.driver = "hermes"
      /\ \A kind \in proc'.children :
            IF call.driver = "hermes" THEN kind.heeds => proc'.at = "exited" ELSE ~kind.holds
  <2>1. CASE call.driver = "hermes" /\ proc.at = "running"
    <3>1. PICK left \in SUBSET Deaf(proc.children) : proc' = [proc EXCEPT !.at = "killed", !.children = left]
      BY <2>1 DEF Read, TreeTerminated
    <3>2. left \in SUBSET ChildKinds /\ \A kind \in left : ~kind.heeds
      BY <1>1, <3>1 DEF Deaf, ProcessRecords
    <3>3. QED
      BY <1>1, <2>1, <3>1, <3>2 DEF ProcessRecords
  <2>2. CASE call.driver = "hermes" /\ proc.at = "exited"
    BY <1>1, <2>2 DEF Read, TreeTerminated
  <2>3. CASE call.driver # "hermes"
    BY <1>1, <2>3 DEF TreeTerminated, Read, Completed
  <2>4. QED
    BY <1>1, <2>1, <2>2, <2>3
<1>4. /\ SameCall /\ call'.needs = call.needs /\ call'.pc = "ended" /\ call'.result \in {"ok", "error"}
      /\ call'.result = "ok" =>
           /\ proc.said.zero /\ ~proc.said.failed /\ call'.decision = proc.said.answer.decision
           /\ call'.decision = "approve" => ~proc.said.answer.brief /\ ~proc.said.answer.escalation
  <2>1. CASE Accepted(proc.said)
    <3>1. proc.said.zero /\ ~proc.said.failed
      BY <2>1 DEF Accepted
    <3>2. /\ Succeeds(proc.said.answer) /\ proc.said.answer \in AnswerRecords
          /\ call.role # "critic" => ~proc.said.answer.brief /\ ~proc.said.answer.escalation
      BY <1>1, <2>1 DEF Read, SaidRecords, AdapterInvariant, SaidSound
    <3>3. QED
      BY <1>1, <3>1, <3>2, SucceededCall
  <2>2. CASE ~Accepted(proc.said)
    <3>1. CallFails
      BY <2>2 DEF Read
    <3>2. QED
      BY <1>1, <3>1, FailedCall
  <2>3. QED
    BY <2>1, <2>2
<1>5. AdapterTypes' /\ SaidSound' /\ ProcessSound' /\ FilesSound' /\ CallSound'
  BY <1>2, <1>3, <1>4 DEF AdapterInvariant, AdapterTypes, SaidSound, ProcessSound, FilesSound, CallSound, SameCall
<1>6. SuccessIsEarned' /\ NothingLeftBehind' /\ ServedOnce'
  BY <1>2, <1>3, <1>4 DEF AdapterInvariant, SuccessIsEarned, NothingLeftBehind, ServedOnce, SameCall
<1>7. QED
  BY <1>5, <1>6 DEF AdapterInvariant

LEMMA CallTimeoutKeeps ==
  ASSUME AdapterInvariant, CallTimeout
  PROVE  AdapterInvariant'
<1>1. /\ call \in CallRecords /\ proc \in ProcessRecords /\ call.pc = "waiting"
      /\ proc.at \in {"running", "exited"}
  BY DEF CallTimeout, AdapterInvariant, AdapterTypes, ProcessSound
<1>2. disk' = {} /\ provider' = provider
  BY DEF CallTimeout, CleanedUp
<1>3. proc' \in ProcessRecords /\ proc'.said = proc.said /\ proc'.at \in {"killed", "exited"}
  <2>1. CASE call.driver = "hermes" /\ proc.at = "running"
    <3>1. PICK left \in SUBSET Deaf(proc.children) : proc' = [proc EXCEPT !.at = "killed", !.children = left]
      BY <2>1 DEF CallTimeout, Killed, TreeTerminated
    <3>2. left \in SUBSET ChildKinds
      BY <1>1, <3>1 DEF Deaf, ProcessRecords
    <3>3. QED
      BY <1>1, <3>1, <3>2 DEF ProcessRecords
  <2>2. CASE call.driver # "hermes" /\ proc.at = "running"
    BY <1>1, <2>2 DEF CallTimeout, Killed, ProcessRecords
  <2>3. CASE proc.at = "exited"
    BY <1>1, <2>3 DEF CallTimeout, Killed, TreeTerminated
  <2>4. QED
    BY <1>1, <2>1, <2>2, <2>3
<1>4. SameCall /\ call'.needs = call.needs /\ call'.pc = "ended" /\ call'.result = "error"
  BY <1>1, FailedCall DEF CallTimeout
<1>5. AdapterTypes' /\ SaidSound' /\ ProcessSound' /\ FilesSound' /\ CallSound'
  BY <1>2, <1>3, <1>4 DEF AdapterInvariant, AdapterTypes, SaidSound, ProcessSound, FilesSound, CallSound, SameCall
<1>6. SuccessIsEarned' /\ NothingLeftBehind' /\ ServedOnce'
  BY <1>2, <1>3, <1>4 DEF AdapterInvariant, SuccessIsEarned, NothingLeftBehind, ServedOnce
<1>7. QED
  BY <1>5, <1>6 DEF AdapterInvariant

-----------------------------------------------------------------------------
LEMMA AskModelKeeps ==
  ASSUME AdapterInvariant, AskModel
  PROVE  AdapterInvariant'
<1>1. /\ call \in CallRecords /\ provider \in ProviderRecords /\ call.pc = "called" /\ call.result = "none"
      /\ provider.asked <= MaxRetries /\ provider.served <= provider.lost
  BY DEF AskModel, AdapterInvariant, AdapterTypes, CallSound
<1>2. SameCall /\ call'.needs = call.needs /\ call'.pc = "asked" /\ call'.result = "none"
  BY <1>1 DEF AskModel, CallRecords, SameCall
<1>3. /\ provider' \in ProviderRecords /\ provider'.asked = provider.asked + 1
      /\ provider'.served = provider.served /\ provider'.lost = provider.lost
  BY <1>1 DEF AskModel, ProviderRecords
<1>4. UNCHANGED <<proc, disk>>
  BY DEF AskModel
<1>5. AdapterTypes' /\ SaidSound' /\ ProcessSound' /\ FilesSound' /\ CallSound'
  BY <1>1, <1>2, <1>3, <1>4 DEF AdapterInvariant, AdapterTypes, SaidSound, ProcessSound, FilesSound, CallSound,
     SameCall
<1>6. SuccessIsEarned' /\ NothingLeftBehind'
  BY <1>2 DEF SuccessIsEarned, NothingLeftBehind
<1>7. ServedOnce'
  BY <1>1, <1>3, AdapterConstants DEF ServedOnce, ProviderRecords
<1>8. QED
  BY <1>5, <1>6, <1>7 DEF AdapterInvariant

LEMMA NoUsableAnswerKeeps ==
  ASSUME AdapterInvariant, NoUsableAnswer
  PROVE  AdapterInvariant'
<1>1. /\ call \in CallRecords /\ provider \in ProviderRecords /\ call.pc = "asked" /\ call.result = "none"
      /\ provider.served <= provider.lost /\ provider.asked <= MaxRetries + 1 /\ disk = {} /\ proc.at = "none"
  BY DEF NoUsableAnswer, AdapterInvariant, AdapterTypes, CallSound, ServedOnce, FilesSound, ProcessSound
<1>2. /\ provider' \in ProviderRecords /\ provider'.asked = provider.asked /\ provider'.served <= provider'.lost
  <2>1. CASE UNCHANGED provider
    BY <1>1, <2>1
  <2>2. CASE provider' = [provider EXCEPT !.served = @ + 1, !.lost = @ + 1]
    <3>1. /\ provider.asked \in Nat /\ provider.served \in Nat /\ provider.lost \in Nat
          /\ provider.served + 1 <= provider.lost + 1
      BY <1>1 DEF ProviderRecords
    <3>2. PICK served \in Nat, lost \in Nat : served = provider.served + 1 /\ lost = provider.lost + 1
      BY <3>1
    <3>3. provider' = [provider EXCEPT !.served = served, !.lost = lost]
      BY <2>2, <3>2
    <3>4. /\ provider'.asked = provider.asked /\ provider'.served = provider.served + 1
          /\ provider'.lost = provider.lost + 1
      BY <1>1, <3>2, <3>3 DEF ProviderRecords
    <3>5. provider' \in ProviderRecords
      BY <1>1, <3>3 DEF ProviderRecords
    <3>6. QED
      BY <3>1, <3>4, <3>5
  <2>3. QED
    BY <2>1, <2>2 DEF NoUsableAnswer
<1>3. /\ SameCall /\ call'.needs = call.needs
      /\ \/ call'.pc = "ended" /\ call'.result = "error"
         \/ call'.pc = "called" /\ call'.result = "none" /\ provider.asked <= MaxRetries
  <2>1. CASE provider.asked > MaxRetries
    BY <1>1, <2>1, FailedCall DEF NoUsableAnswer, Again
  <2>2. CASE ~(provider.asked > MaxRetries)
    <3>1. call' = [call EXCEPT !.pc = "called"]
      BY <2>2 DEF NoUsableAnswer, Again
    <3>2. SameCall /\ call'.needs = call.needs /\ call'.pc = "called" /\ call'.result = "none"
      BY <1>1, <3>1 DEF CallRecords, SameCall
    <3>3. provider.asked <= MaxRetries
      BY <1>1, <2>2, AdapterConstants DEF ProviderRecords
    <3>4. QED
      BY <3>2, <3>3
  <2>3. QED
    BY <2>1, <2>2
<1>4. UNCHANGED <<proc, disk>>
  BY DEF NoUsableAnswer
<1>5. AdapterTypes' /\ SaidSound' /\ ProcessSound' /\ FilesSound' /\ CallSound'
  BY <1>1, <1>2, <1>3, <1>4 DEF AdapterInvariant, AdapterTypes, SaidSound, ProcessSound, FilesSound, CallSound,
     SameCall
<1>6. SuccessIsEarned' /\ NothingLeftBehind'
  BY <1>1, <1>3, <1>4 DEF SuccessIsEarned, NothingLeftBehind
<1>7. ServedOnce'
  BY <1>1, <1>2, AdapterConstants DEF ServedOnce, ProviderRecords
<1>8. QED
  BY <1>5, <1>6, <1>7 DEF AdapterInvariant

LEMMA AnsweredKeeps ==
  ASSUME AdapterInvariant, Answered
  PROVE  AdapterInvariant'
<1>1. /\ call \in CallRecords /\ provider \in ProviderRecords /\ proc \in ProcessRecords /\ call.pc = "asked"
      /\ provider.served <= provider.lost /\ provider.asked <= MaxRetries + 1
      /\ disk = {} /\ proc.at = "none" /\ proc.children = {}
  BY DEF Answered, AdapterInvariant, AdapterTypes, CallSound, ServedOnce, FilesSound, ProcessSound
<1>2. PICK json \in BOOLEAN, answer \in Answers(call.role) :
        /\ Take(json, answer)
        /\ proc' = [proc EXCEPT !.said = [zero |-> TRUE, json |-> json, failed |-> FALSE, answer |-> answer]]
  BY DEF Answered
<1>3. answer \in AnswerRecords /\ (call.role # "critic" => ~answer.brief /\ ~answer.escalation)
  BY <1>1, <1>2, AnswersOfRole DEF CallRecords
<1>4. PICK said : said = [zero |-> TRUE, json |-> json, failed |-> FALSE, answer |-> answer]
  OBVIOUS
<1>5. said \in SaidRecords /\ said.zero /\ ~said.failed /\ said.answer = answer
  BY <1>3, <1>4 DEF SaidRecords
<1>6. proc' \in ProcessRecords /\ proc'.at = "none" /\ proc'.children = {} /\ proc'.said = said
  BY <1>1, <1>2, <1>4, <1>5 DEF ProcessRecords
<1>7. /\ provider' \in ProviderRecords /\ provider'.asked = provider.asked
      /\ provider'.served = provider.served + 1 /\ provider'.lost = provider.lost
  BY <1>1 DEF Answered, ProviderRecords
<1>8. /\ SameCall /\ call'.needs = call.needs /\ call'.pc = "ended" /\ call'.result \in {"ok", "error"}
      /\ call'.result = "ok" =>
           /\ call'.decision = answer.decision
           /\ call'.decision = "approve" => ~answer.brief /\ ~answer.escalation
  <2>1. CASE json
    BY <1>1, <1>2, <1>3, <2>1, SucceededCall DEF Take
  <2>2. CASE ~json
    BY <1>1, <1>2, <2>2, FailedCall DEF Take
  <2>3. QED
    BY <2>1, <2>2
<1>9. disk' = disk
  BY DEF Answered
<1>10. AdapterTypes' /\ SaidSound' /\ ProcessSound' /\ FilesSound' /\ CallSound'
  BY <1>1, <1>3, <1>5, <1>6, <1>7, <1>8, <1>9 DEF AdapterInvariant, AdapterTypes, SaidSound, ProcessSound,
     FilesSound, CallSound, SameCall
<1>11. SuccessIsEarned' /\ NothingLeftBehind'
  BY <1>1, <1>5, <1>6, <1>8, <1>9 DEF SuccessIsEarned, NothingLeftBehind
<1>12. ServedOnce'
  BY <1>1, <1>7 DEF ServedOnce, ProviderRecords
<1>13. QED
  BY <1>10, <1>11, <1>12 DEF AdapterInvariant

-----------------------------------------------------------------------------
(* worker_adapters.py, critic_adapters.py, supervisor_adapters.py: in every  *)
(* reachable state the process, the files and the provider are as far as     *)
(* the call is.                                                              *)
THEOREM AdaptersAreSound == AdapterSpec => []AdapterInvariant
<1>1. ASSUME AdapterInvariant, [AdapterNext]_adapterVars PROVE AdapterInvariant'
  <2>1. CASE ProcessCall
    BY <1>1, <2>1, NotIsolatedKeeps, PrepareCallKeeps, WriteFileKeeps, WriteFailsKeeps, StartProcessKeeps,
       StartFailsKeeps, ReadKeeps, CallTimeoutKeeps DEF ProcessCall
  <2>2. CASE ProcessStep
    BY <1>1, <2>2, ProcessSpawnsKeeps, ChildEndsKeeps, ProcessExitsKeeps, ProcessSaysKeeps DEF ProcessStep
  <2>3. CASE ModelCall
    BY <1>1, <2>3, NotIsolatedKeeps, AskModelKeeps, NoUsableAnswerKeeps, RefusedForGoodKeeps, AnsweredKeeps
       DEF ModelCall
  <2>4. CASE UNCHANGED adapterVars
    BY <1>1, <2>4 DEF adapterVars, AdapterInvariant, AdapterTypes, SaidSound, ProcessSound, FilesSound, CallSound,
                      SuccessIsEarned, NothingLeftBehind, ServedOnce
  <2>5. QED
    BY <1>1, <2>1, <2>2, <2>3, <2>4 DEF AdapterNext
<1>2. QED
  BY <1>1, AdapterFirst, PTL DEF AdapterSpec

(* Whatever the agent says and leaves behind, a call that succeeds earned    *)
(* it and leaves only children it cannot wait for or reach; none leaves its  *)
(* process running or a file behind unless the disk was full, and none pays  *)
(* twice for one answer.                                                     *)
THEOREM CleanCalls == AdapterSpec => []CallsAreClean
<1>1. AdapterInvariant => CallsAreClean
  BY DEF AdapterInvariant, CallsAreClean
<1>2. QED
  BY <1>1, AdaptersAreSound, PTL

-----------------------------------------------------------------------------
(***************************************************************************)
(* ProjectPlanning.  A conversation is a sequence of turns, and so is      *)
(* every history that was read; a plan that is being written has the files *)
(* of the tasks it is past.                                                *)
(***************************************************************************)
Messages == [role : {"user", "supervisor"}, turn : Nat]

\* A conversation whose turns are not after n.
InTurns(h, n) ==
    /\ h \in Seq(Messages) /\ Len(h) % 2 = 0
    /\ \A i \in DOMAIN h : h[i].turn <= n
    /\ \A i \in DOMAIN h : h[i].role = IF i % 2 = 1 THEN "user" ELSE "supervisor"
    /\ \A i \in DOMAIN h : i % 2 = 0 => h[i].turn = h[i - 1].turn
    /\ \A i, j \in Users(h) : i < j => h[i].turn < h[j].turn

TalkerStates == [pc : {"idle", "thinking"}, turn : Nat, history : Seq(Messages)]

TalkerSound(t) ==
    talker[t].pc = "thinking" =>
        /\ talker[t].turn > 0 /\ talker[t].turn <= turns
        /\ InTurns(talker[t].history, talker[t].turn - 1)

ChatInvariant ==
    /\ turns \in Nat /\ InTurns(chat, turns)
    /\ talker \in [Talkers -> TalkerStates]
    /\ \A t \in Talkers : TalkerSound(t)

PlanSteps == {"brief", "roadmap", "profile", "task", "enqueue"}

PlannerStates == [pc : {"idle", "writing"}, plan : DOMAIN Plans \cup {NoPlan}, todo : Seq(PlanSteps)]

\* What is left of a plan ends with its tasks and the queue.
TodoSound(plan, todo) ==
    /\ todo \in Seq(PlanSteps) /\ todo # <<>>
    /\ \A j \in DOMAIN todo :
          /\ todo[j] = "enqueue" <=> j = Len(todo)
          /\ todo[j] = "task" <=> Len(todo) - j \in 1..Len(Tasks(plan))

\* The files of the tasks that are written.
FilesWritten(plan, left) ==
    \A k \in DOMAIN Tasks(plan) : k + left <= Len(Tasks(plan)) + 1 => FileOf(plan, k) \in planFiles

PlannerSound(p) ==
    planner[p].pc = "writing" =>
        /\ planner[p].plan \in DOMAIN Plans /\ ValidPlan(planner[p].plan)
        /\ TodoSound(planner[p].plan, planner[p].todo)
        /\ FilesWritten(planner[p].plan, Len(planner[p].todo))

Entry(plan, i) == [plan |-> plan, id |-> Tasks(plan)[i].id]

Entries == UNION {{Entry(plan, i) : i \in DOMAIN Tasks(plan)} : plan \in DOMAIN Plans}

Here(plan) == {k \in DOMAIN queued : queued[k].plan = plan}

QueuedWhole(plan) ==
    /\ plan \in DOMAIN Plans /\ ValidPlan(plan)
    /\ Cardinality(Here(plan)) = Len(Tasks(plan))
    /\ \A k \in DOMAIN Tasks(plan) : FileOf(plan, k) \in planFiles /\ Tasks(plan)[k].id \in QueuedIds

PlanInvariant ==
    /\ planner \in [Planners -> PlannerStates]
    /\ \A p \in Planners : PlannerSound(p)
    /\ queued \in Seq(Entries)
    /\ \A i \in DOMAIN queued : QueuedWhole(queued[i].plan)

LEMMA MessageTurns ==
  ASSUME NEW h \in Seq(Messages), NEW i \in DOMAIN h
  PROVE  h[i] \in Messages /\ h[i].turn \in Nat
<1>1. h[i] \in Messages
  OBVIOUS
<1>2. QED
  BY <1>1 DEF Messages

LEMMA LaterTurns ==
  ASSUME NEW h, NEW n \in Nat, NEW m \in Nat, n <= m, InTurns(h, n)
  PROVE  InTurns(h, m)
<1>1. \A i \in DOMAIN h : h[i].turn \in Nat
  BY MessageTurns DEF InTurns
<1>2. \A i \in DOMAIN h : h[i].turn <= m
  BY <1>1 DEF InTurns
<1>3. QED
  BY <1>2 DEF InTurns

(* A message and its answer go after the turns before them.                  *)
LEMMA OneMoreTurn ==
  ASSUME NEW h, NEW n \in Nat, InTurns(h, n)
  PROVE  InTurns(h \o <<Said("user", n + 1), Said("supervisor", n + 1)>>, n + 1)
<1> DEFINE pair == <<Said("user", n + 1), Said("supervisor", n + 1)>>
           g == h \o pair
<1>1. h \in Seq(Messages) /\ Len(h) \in Nat /\ Len(h) % 2 = 0
  BY DEF InTurns
<1>2. /\ Said("user", n + 1) \in Messages /\ Said("supervisor", n + 1) \in Messages
  BY DEF Said, Messages
<1>3. /\ pair \in Seq(Messages) /\ Len(pair) = 2
      /\ pair[1] = Said("user", n + 1) /\ pair[2] = Said("supervisor", n + 1)
  BY <1>2
<1> HIDE DEF pair
<1>4. /\ g \in Seq(Messages) /\ Len(g) = Len(h) + 2 /\ DOMAIN g = 1..(Len(h) + 2) /\ DOMAIN h = 1..Len(h)
      /\ \A i \in 1..Len(h) : g[i] = h[i]
      /\ g[Len(h) + 1] = pair[1] /\ g[Len(h) + 2] = pair[2]
  <2>1. g \in Seq(Messages) /\ Len(g) = Len(h) + 2
    <3>1. g \in Seq(Messages) /\ Len(g) = Len(h) + Len(pair)
      BY <1>1, <1>3, ConcatProperties, Zenon
    <3>2. QED
      BY <1>1, <1>3, <3>1
  <2>2. DOMAIN g = 1..(Len(h) + 2) /\ DOMAIN h = 1..Len(h)
    BY <1>1, <2>1
  <2>3. \A i \in 1..Len(h) : g[i] = h[i]
    BY <1>1, <1>3
  <2>4. g[Len(h) + 1] = pair[1] /\ g[Len(h) + 2] = pair[2]
    <3>1. \A i \in 1..(Len(h) + Len(pair)) : g[i] = IF i <= Len(h) THEN h[i] ELSE pair[i - Len(h)]
      BY <1>1, <1>3, ConcatProperties
    <3>2. /\ Len(h) + 1 \in 1..(Len(h) + Len(pair)) /\ Len(h) + 2 \in 1..(Len(h) + Len(pair))
          /\ ~(Len(h) + 1 <= Len(h)) /\ ~(Len(h) + 2 <= Len(h))
          /\ Len(h) + 1 - Len(h) = 1 /\ Len(h) + 2 - Len(h) = 2
      BY <1>1, <1>3
    <3>3. g[Len(h) + 1] = pair[Len(h) + 1 - Len(h)] /\ g[Len(h) + 2] = pair[Len(h) + 2 - Len(h)]
      BY <3>1, <3>2
    <3>4. QED
      BY <3>2, <3>3
  <2>5. QED
    BY <2>1, <2>2, <2>3, <2>4
<1>5. /\ g[Len(h) + 1].role = "user" /\ g[Len(h) + 1].turn = n + 1
      /\ g[Len(h) + 2].role = "supervisor" /\ g[Len(h) + 2].turn = n + 1
  BY <1>3, <1>4 DEF Said
<1> HIDE DEF g
<1>6. Len(g) % 2 = 0 /\ (Len(h) + 1) % 2 = 1 /\ (Len(h) + 2) % 2 = 0
  BY <1>1, <1>4
<1>7. \A i \in 1..Len(h) : g[i].turn \in Nat /\ g[i].turn <= n
  BY <1>1, <1>4, MessageTurns DEF InTurns
<1>8. ASSUME NEW i \in DOMAIN g PROVE i \in 1..Len(h) \/ i = Len(h) + 1 \/ i = Len(h) + 2
  BY <1>1, <1>4
<1>9. \A i \in DOMAIN g : g[i].turn <= n + 1
  BY <1>5, <1>7, <1>8
<1>10. \A i \in DOMAIN g : g[i].role = IF i % 2 = 1 THEN "user" ELSE "supervisor"
  <2> SUFFICES ASSUME NEW i \in DOMAIN g PROVE g[i].role = IF i % 2 = 1 THEN "user" ELSE "supervisor"
    OBVIOUS
  <2>1. CASE i \in 1..Len(h)
    BY <1>4, <2>1 DEF InTurns
  <2>2. CASE i = Len(h) + 1 \/ i = Len(h) + 2
    BY <1>5, <1>6, <2>2
  <2>3. QED
    BY <1>8, <2>1, <2>2
<1>11. \A i \in DOMAIN g : i % 2 = 0 => g[i].turn = g[i - 1].turn
  <2> SUFFICES ASSUME NEW i \in DOMAIN g, i % 2 = 0 PROVE g[i].turn = g[i - 1].turn
    OBVIOUS
  <2>1. CASE i \in 1..Len(h)
    <3>1. i - 1 \in 1..Len(h)
      BY <1>1, <2>1
    <3>2. h[i].turn = h[i - 1].turn
      BY <1>4, <2>1 DEF InTurns
    <3>3. QED
      BY <1>4, <2>1, <3>1, <3>2
  <2>2. CASE i = Len(h) + 2
    <3>1. i - 1 = Len(h) + 1
      BY <1>1, <2>2
    <3>2. QED
      BY <1>5, <2>2, <3>1
  <2>3. QED
    BY <1>6, <1>8, <2>1, <2>2
<1>12. \A i, j \in Users(g) : i < j => g[i].turn < g[j].turn
  <2> SUFFICES ASSUME NEW i \in Users(g), NEW j \in Users(g), i < j PROVE g[i].turn < g[j].turn
    OBVIOUS
  <2>1. i \in DOMAIN g /\ j \in DOMAIN g /\ g[i].role = "user" /\ g[j].role = "user"
    BY DEF Users
  <2>2. i \in 1..Len(h) \/ i = Len(h) + 1
    BY <1>5, <1>8, <2>1
  <2>3. j \in 1..Len(h) \/ j = Len(h) + 1
    BY <1>5, <1>8, <2>1
  <2>4. i \in 1..Len(h)
    BY <1>1, <2>2, <2>3
  <2>5. CASE j \in 1..Len(h)
    BY <1>4, <2>1, <2>4, <2>5 DEF Users, InTurns
  <2>6. CASE j = Len(h) + 1
    BY <1>5, <1>7, <2>4, <2>6
  <2>7. QED
    BY <2>3, <2>5, <2>6
<1>13. QED
  BY <1>4, <1>6, <1>9, <1>10, <1>11, <1>12 DEF InTurns, g, pair

LEMMA NoTurns == ASSUME NEW n \in Nat PROVE InTurns(<<>>, n)
<1>1. <<>> \in Seq(Messages) /\ Len(<<>>) = 0 /\ DOMAIN <<>> = {}
  OBVIOUS
<1>2. Users(<<>>) = {}
  BY <1>1 DEF Users
<1>3. QED
  BY <1>1, <1>2 DEF InTurns

-----------------------------------------------------------------------------
(***************************************************************************)
(* Steps of the chat.                                                      *)
(***************************************************************************)
LEMMA TalkerRests ==
  ASSUME ChatInvariant, NEW t \in Talkers, talker' = [talker EXCEPT ![t] = Silent],
         turns' = turns, InTurns(chat', turns)
  PROVE  ChatInvariant'
<1>1. Silent \in TalkerStates /\ Silent.pc = "idle"
  BY DEF Silent, TalkerStates
<1>2. talker' \in [Talkers -> TalkerStates]
  BY <1>1 DEF ChatInvariant
<1>3. ASSUME NEW s \in Talkers PROVE TalkerSound(s)'
  BY <1>1 DEF ChatInvariant, TalkerSound
<1>4. QED
  BY <1>2, <1>3 DEF ChatInvariant

LEMMA ReadHistoryKeeps ==
  ASSUME ChatInvariant, NEW t \in Talkers, ReadHistory(t)
  PROVE  ChatInvariant'
<1>1. turns \in Nat /\ turns' = turns + 1 /\ chat' = chat /\ InTurns(chat, turns) /\ chat \in Seq(Messages)
  BY DEF ReadHistory, ChatInvariant, InTurns
<1>2. PICK s : s = [pc |-> "thinking", turn |-> turns + 1, history |-> chat]
  OBVIOUS
<1>3. /\ s \in TalkerStates /\ s.turn = turns + 1 /\ s.history = chat
  BY <1>1, <1>2 DEF TalkerStates
<1>4. talker' = [talker EXCEPT ![t] = s]
  BY <1>2 DEF ReadHistory
<1>5. talker' \in [Talkers -> TalkerStates]
  BY <1>3, <1>4 DEF ChatInvariant
<1>6. InTurns(chat', turns')
  BY <1>1, LaterTurns
<1>7. ASSUME NEW u \in Talkers PROVE TalkerSound(u)'
  <2>1. CASE u = t
    <3>1. talker'[u] = s
      BY <1>4, <2>1 DEF ChatInvariant
    <3>2. s.turn - 1 = turns /\ s.turn > 0
      BY <1>1, <1>3
    <3>3. QED
      BY <1>1, <1>3, <3>1, <3>2 DEF TalkerSound
  <2>2. CASE u # t
    <3>1. talker'[u] = talker[u] /\ TalkerSound(u) /\ talker[u].turn \in Nat
      BY <1>4, <2>2 DEF ChatInvariant, TalkerStates
    <3>2. QED
      BY <1>1, <3>1 DEF TalkerSound
  <2>3. QED
    BY <2>1, <2>2
<1>8. QED
  BY <1>1, <1>5, <1>6, <1>7 DEF ChatInvariant

LEMMA SaveTurnKeeps ==
  ASSUME ChatInvariant, NEW t \in Talkers, SaveTurn(t)
  PROVE  ChatInvariant'
<1>1. /\ turns \in Nat /\ talker[t].turn \in Nat /\ talker[t].turn > 0 /\ talker[t].turn <= turns
      /\ InTurns(talker[t].history, talker[t].turn - 1)
  BY DEF SaveTurn, ChatInvariant, TalkerSound, TalkerStates
<1>2. PICK n \in Nat : n = talker[t].turn - 1
  BY <1>1
<1>3. n + 1 = talker[t].turn
  BY <1>1, <1>2
<1>4. chat' = talker[t].history \o <<Said("user", n + 1), Said("supervisor", n + 1)>>
  BY <1>3 DEF SaveTurn
<1>5. InTurns(chat', n + 1)
  BY <1>1, <1>2, <1>4, OneMoreTurn
<1>6. InTurns(chat', turns)
  BY <1>1, <1>3, <1>5, LaterTurns
<1>7. QED
  BY <1>6, TalkerRests DEF SaveTurn

LEMMA TurnFailsKeeps ==
  ASSUME ChatInvariant, NEW t \in Talkers, TurnFails(t)
  PROVE  ChatInvariant'
<1>1. InTurns(chat', turns)
  BY DEF TurnFails, ChatInvariant
<1>2. QED
  BY <1>1, TalkerRests DEF TurnFails

LEMMA ClearChatKeeps ==
  ASSUME ChatInvariant, ClearChat
  PROVE  ChatInvariant'
<1>1. InTurns(chat', turns)
  BY NoTurns DEF ClearChat, ChatInvariant
<1>2. QED
  BY <1>1 DEF ClearChat, ChatInvariant, TalkerSound

-----------------------------------------------------------------------------
(***************************************************************************)
(* Steps of a plan.                                                        *)
(***************************************************************************)
LEMMA TasksOfPlan ==
  ASSUME NEW plan \in DOMAIN Plans
  PROVE  /\ Tasks(plan) \in Seq(ToSet(Tasks(plan))) /\ Len(Tasks(plan)) \in Nat
         /\ DOMAIN Tasks(plan) = 1..Len(Tasks(plan))
<1>1. Tasks(plan) \in Seq(ToSet(Tasks(plan)))
  BY PlanningConstants DEF Tasks
<1>2. QED
  BY <1>1

LEMMA WritesAreSound ==
  ASSUME NEW plan \in DOMAIN Plans
  PROVE  TodoSound(plan, Writes(plan)) /\ Len(Writes(plan)) > Len(Tasks(plan)) + 1
<1> DEFINE n == Len(Tasks(plan))
           docs == <<"brief", "roadmap">>
           prof == IF Plans[plan].roles = NoRoles THEN <<>> ELSE <<"profile">>
           tasks == [i \in DOMAIN Tasks(plan) |-> "task"]
           last == <<"enqueue">>
           Plain == {"brief", "roadmap", "profile"}
<1>1. n \in Nat /\ DOMAIN Tasks(plan) = 1..n
  BY TasksOfPlan
<1>2. docs \in Seq(Plain) /\ Len(docs) = 2
  OBVIOUS
<1>3. prof \in Seq(Plain) /\ Len(prof) \in Nat
  <2>1. <<>> \in Seq(Plain) /\ Len(<<>>) = 0 /\ <<"profile">> \in Seq(Plain) /\ Len(<<"profile">>) = 1
    OBVIOUS
  <2>2. prof = <<>> \/ prof = <<"profile">>
    OBVIOUS
  <2>3. QED
    BY <2>1, <2>2
<1>4. tasks \in Seq({"task"}) /\ Len(tasks) = n /\ \A i \in 1..n : tasks[i] = "task"
  <2>1. tasks = [i \in 1..n |-> "task"]
    BY <1>1
  <2>2. QED
    BY <1>1, <2>1
<1>5. last \in Seq({"enqueue"}) /\ Len(last) = 1 /\ last[1] = "enqueue"
  OBVIOUS
<1>6. Writes(plan) = ((docs \o prof) \o tasks) \o last
  BY DEF Writes
<1> HIDE DEF n, docs, prof, tasks, last
<1> DEFINE a == docs \o prof
           b == a \o tasks
           w == b \o last
<1>7. a \in Seq(Plain) /\ Len(a) \in Nat /\ Len(a) >= 2
  <2>1. a \in Seq(Plain) /\ Len(a) = Len(docs) + Len(prof)
    BY <1>2, <1>3, ConcatProperties, Zenon
  <2>2. QED
    BY <1>2, <1>3, <2>1
<1> HIDE DEF a, Plain
<1>8. /\ a \in Seq(PlanSteps) /\ tasks \in Seq(PlanSteps) /\ last \in Seq(PlanSteps)
  BY <1>4, <1>5, <1>7 DEF Plain, PlanSteps
<1>9. /\ b \in Seq(PlanSteps) /\ Len(b) = Len(a) + n
      /\ \A i \in 1..(Len(a) + n) : b[i] = IF i <= Len(a) THEN a[i] ELSE tasks[i - Len(a)]
  <2>1. /\ b \in Seq(PlanSteps) /\ Len(b) = Len(a) + Len(tasks)
        /\ \A i \in 1..(Len(a) + Len(tasks)) : b[i] = IF i <= Len(a) THEN a[i] ELSE tasks[i - Len(a)]
    BY <1>8, ConcatProperties, Zenon
  <2>2. QED
    BY <1>4, <2>1
<1> HIDE DEF b
<1>10. /\ w \in Seq(PlanSteps) /\ Len(w) = Len(a) + n + 1
       /\ \A i \in 1..(Len(b) + 1) : w[i] = IF i <= Len(b) THEN b[i] ELSE last[i - Len(b)]
  <2>1. /\ w \in Seq(PlanSteps) /\ Len(w) = Len(b) + Len(last)
        /\ \A i \in 1..(Len(b) + Len(last)) : w[i] = IF i <= Len(b) THEN b[i] ELSE last[i - Len(b)]
    BY <1>8, <1>9, ConcatProperties, Zenon
  <2>2. QED
    BY <1>5, <1>9, <2>1
<1> HIDE DEF w
<1>11. ASSUME NEW j \in 1..(Len(a) + n + 1)
       PROVE  /\ w[j] = "enqueue" <=> j = Len(a) + n + 1
              /\ w[j] = "task" <=> Len(a) + n + 1 - j \in 1..n
  <2>1. CASE j <= Len(a)
    <3>1. w[j] = a[j] /\ a[j] \in Plain
      BY <1>1, <1>7, <1>9, <1>10, <2>1
    <3>2. QED
      BY <1>1, <1>7, <2>1, <3>1 DEF Plain
  <2>2. CASE j > Len(a) /\ j <= Len(a) + n
    <3>1. w[j] = tasks[j - Len(a)] /\ j - Len(a) \in 1..n
      BY <1>1, <1>7, <1>9, <1>10, <2>2
    <3>2. w[j] = "task"
      BY <1>4, <3>1
    <3>3. QED
      BY <1>1, <1>7, <2>2, <3>2
  <2>3. CASE j = Len(a) + n + 1
    <3>1. w[j] = last[1]
      BY <1>1, <1>7, <1>9, <1>10, <2>3
    <3>2. QED
      BY <1>1, <1>5, <1>7, <2>3, <3>1
  <2>4. QED
    BY <1>1, <1>7, <2>1, <2>2, <2>3
<1>12. w # <<>> /\ DOMAIN w = 1..(Len(a) + n + 1)
  BY <1>1, <1>7, <1>10
<1>13. TodoSound(plan, w)
  BY <1>10, <1>11, <1>12 DEF TodoSound, n
<1>14. Writes(plan) = w
  BY <1>6 DEF w, b, a
<1>15. Len(w) > n + 1
  BY <1>1, <1>7, <1>10
<1>16. QED
  BY <1>13, <1>14, <1>15 DEF n

(* One step of what is left is done.                                         *)
LEMMA OneLess ==
  ASSUME NEW plan \in DOMAIN Plans, NEW todo, TodoSound(plan, todo), Tail(todo) # <<>>
  PROVE  TodoSound(plan, Tail(todo)) /\ Len(Tail(todo)) = Len(todo) - 1
<1>1. todo \in Seq(PlanSteps) /\ todo # <<>> /\ Len(todo) \in Nat /\ DOMAIN todo = 1..Len(todo)
  BY DEF TodoSound
<1>2. /\ Tail(todo) \in Seq(PlanSteps) /\ Len(Tail(todo)) = Len(todo) - 1
      /\ \A i \in 1..(Len(todo) - 1) : Tail(todo)[i] = todo[i + 1]
  BY <1>1
<1>3. PICK rest : rest = Tail(todo)
  OBVIOUS
<1>4. rest \in Seq(PlanSteps) /\ Len(rest) = Len(todo) - 1 /\ DOMAIN rest = 1..(Len(todo) - 1)
  BY <1>1, <1>2, <1>3
<1>5. Len(Tasks(plan)) \in Nat
  BY TasksOfPlan
<1>6. ASSUME NEW j \in DOMAIN rest
      PROVE  /\ rest[j] = "enqueue" <=> j = Len(rest)
             /\ rest[j] = "task" <=> Len(rest) - j \in 1..Len(Tasks(plan))
  <2>1. j + 1 \in DOMAIN todo /\ rest[j] = todo[j + 1] /\ Len(rest) - j = Len(todo) - (j + 1)
        /\ (j = Len(rest) <=> j + 1 = Len(todo))
    BY <1>1, <1>2, <1>3, <1>4
  <2>2. QED
    BY <2>1 DEF TodoSound
<1>7. QED
  BY <1>2, <1>3, <1>4, <1>6 DEF TodoSound

(* The plan goes on to its next step.                                        *)
LEMMA WrittenKeeps ==
  ASSUME PlanInvariant, NEW p \in Planners, planner[p].pc = "writing", Written(p),
         planFiles \subseteq planFiles',
         Head(planner[p].todo) = "task" =>
             FileOf(planner[p].plan, Len(Tasks(planner[p].plan)) + 2 - Len(planner[p].todo)) \in planFiles'
  PROVE  planner' \in [Planners -> PlannerStates] /\ \A q \in Planners : PlannerSound(q)'
<1>1. /\ planner[p] \in PlannerStates /\ planner[p].plan \in DOMAIN Plans /\ ValidPlan(planner[p].plan)
      /\ TodoSound(planner[p].plan, planner[p].todo)
      /\ FilesWritten(planner[p].plan, Len(planner[p].todo))
  BY DEF PlanInvariant, PlannerSound
<1>2. PICK plan \in DOMAIN Plans, todo \in Seq(PlanSteps) : plan = planner[p].plan /\ todo = planner[p].todo
  BY <1>1 DEF TodoSound
<1>3. /\ TodoSound(plan, todo) /\ FilesWritten(plan, Len(todo)) /\ ValidPlan(plan)
      /\ Head(todo) = "task" => FileOf(plan, Len(Tasks(plan)) + 2 - Len(todo)) \in planFiles'
  BY <1>1, <1>2
<1>4. PICK s : s = IF Tail(todo) = <<>> THEN NotPlanning ELSE [planner[p] EXCEPT !.todo = Tail(todo)]
  OBVIOUS
<1>5. planner' = [planner EXCEPT ![p] = s]
  BY <1>2, <1>4 DEF Written, PlanInvariant
<1>6. CASE Tail(todo) = <<>>
  <2>1. s \in PlannerStates /\ s.pc = "idle"
    BY <1>4, <1>6 DEF NotPlanning, PlannerStates
  <2>2. planner' \in [Planners -> PlannerStates]
    BY <1>5, <2>1 DEF PlanInvariant
  <2>3. ASSUME NEW q \in Planners PROVE PlannerSound(q)'
    BY <1>5, <2>1 DEF PlanInvariant, PlannerSound, FilesWritten
  <2>4. QED
    BY <2>2, <2>3
<1>7. CASE Tail(todo) # <<>>
  <2>1. TodoSound(plan, Tail(todo)) /\ Len(Tail(todo)) = Len(todo) - 1
    BY <1>3, <1>7, OneLess
  <2>2. PICK rest : rest = Tail(todo)
    OBVIOUS
  <2>3. rest \in Seq(PlanSteps) /\ TodoSound(plan, rest) /\ Len(rest) = Len(todo) - 1
    BY <2>1, <2>2 DEF TodoSound
  <2>4. s = [planner[p] EXCEPT !.todo = rest]
    BY <1>4, <1>7, <2>2
  <2>5. s \in PlannerStates /\ s.plan = plan /\ s.todo = rest
    BY <1>1, <1>2, <2>3, <2>4 DEF PlannerStates
  <2>6. planner' \in [Planners -> PlannerStates]
    BY <1>5, <2>5 DEF PlanInvariant
  <2>7. ASSUME NEW k \in DOMAIN Tasks(plan), k + Len(rest) <= Len(Tasks(plan)) + 1
        PROVE  FileOf(plan, k) \in planFiles'
    <3>1. /\ Len(todo) \in Nat /\ Len(todo) > 0 /\ DOMAIN todo = 1..Len(todo) /\ Head(todo) = todo[1]
          /\ k \in 1..Len(Tasks(plan)) /\ Len(Tasks(plan)) \in Nat
      BY <1>3, TasksOfPlan DEF TodoSound
    <3>2. CASE k + Len(todo) <= Len(Tasks(plan)) + 1
      BY <1>3, <3>2 DEF FilesWritten
    <3>3. CASE k + Len(todo) > Len(Tasks(plan)) + 1
      <4>1. k = Len(Tasks(plan)) + 2 - Len(todo)
        BY <2>3, <2>7, <3>1, <3>3
      <4>2. Len(todo) - 1 \in 1..Len(Tasks(plan)) /\ 1 \in DOMAIN todo
        BY <3>1, <4>1
      <4>3. Head(todo) = "task"
        BY <1>3, <3>1, <4>2 DEF TodoSound
      <4>4. QED
        BY <1>3, <4>1, <4>3
    <3>4. QED
      BY <2>3, <3>1, <3>2, <3>3
  <2>8. ASSUME NEW q \in Planners PROVE PlannerSound(q)'
    <3>1. CASE q = p
      <4>1. planner'[q] = s
        BY <1>5, <3>1 DEF PlanInvariant
      <4>2. QED
        BY <1>3, <2>3, <2>5, <2>7, <4>1 DEF PlannerSound, FilesWritten
    <3>2. CASE q # p
      <4>1. planner'[q] = planner[q] /\ PlannerSound(q)
        BY <1>5, <3>2 DEF PlanInvariant
      <4>2. QED
        BY <4>1 DEF PlannerSound, FilesWritten
    <3>3. QED
      BY <3>1, <3>2
  <2>9. QED
    BY <2>6, <2>8
<1>8. QED
  BY <1>6, <1>7

LEMMA QueueStays ==
  ASSUME PlanInvariant, queued' = queued, planFiles \subseteq planFiles'
  PROVE  queued' \in Seq(Entries) /\ \A i \in DOMAIN queued' : QueuedWhole(queued[i].plan)'
BY DEF PlanInvariant, QueuedWhole, Here, QueuedIds

LEMMA WriteDocumentKeeps ==
  ASSUME PlanInvariant, NEW p \in Planners, WriteDocument(p) \/ WriteProfile(p)
  PROVE  PlanInvariant'
<1>1. /\ planner[p].pc = "writing" /\ Written(p) /\ planFiles' = planFiles /\ queued' = queued
      /\ Head(planner[p].todo) \in {"brief", "roadmap", "profile"}
  BY DEF WriteDocument, WriteProfile, Writing
<1>2. planner' \in [Planners -> PlannerStates] /\ \A q \in Planners : PlannerSound(q)'
  BY <1>1, WrittenKeeps
<1>3. QED
  BY <1>1, <1>2, QueueStays DEF PlanInvariant

LEMMA WriteTaskKeeps ==
  ASSUME PlanInvariant, NEW p \in Planners, WriteTask(p)
  PROVE  PlanInvariant'
<1>1. /\ planner[p].pc = "writing" /\ Written(p) /\ queued' = queued
      /\ planFiles' = planFiles \cup
           {FileOf(planner[p].plan, Len(Tasks(planner[p].plan)) + 2 - Len(planner[p].todo))}
  BY DEF WriteTask, Writing
<1>2. planner' \in [Planners -> PlannerStates] /\ \A q \in Planners : PlannerSound(q)'
  BY <1>1, WrittenKeeps
<1>3. QED
  BY <1>1, <1>2, QueueStays DEF PlanInvariant

LEMMA PlanStopsKeeps ==
  ASSUME PlanInvariant, NEW p \in Planners, PlanStops(p)
  PROVE  PlanInvariant'
<1>1. NotPlanning \in PlannerStates /\ NotPlanning.pc = "idle"
  BY DEF NotPlanning, PlannerStates
<1>2. planner' = [planner EXCEPT ![p] = NotPlanning] /\ planFiles' = planFiles /\ queued' = queued
  BY DEF PlanStops
<1>3. planner' \in [Planners -> PlannerStates]
  BY <1>1, <1>2 DEF PlanInvariant
<1>4. ASSUME NEW q \in Planners PROVE PlannerSound(q)'
  BY <1>1, <1>2 DEF PlanInvariant, PlannerSound, FilesWritten
<1>5. QED
  BY <1>2, <1>3, <1>4, QueueStays DEF PlanInvariant

LEMMA StartPlanKeeps ==
  ASSUME PlanInvariant, NEW p \in Planners, StartPlan(p)
  PROVE  PlanInvariant'
<1>1. PICK plan \in DOMAIN Plans :
        /\ ValidPlan(plan)
        /\ planner' = [planner EXCEPT ![p] = [pc |-> "writing", plan |-> plan, todo |-> Writes(plan)]]
  BY DEF StartPlan
<1>2. PICK s : s = [pc |-> "writing", plan |-> plan, todo |-> Writes(plan)]
  OBVIOUS
<1>3. TodoSound(plan, Writes(plan)) /\ Len(Writes(plan)) > Len(Tasks(plan)) + 1
  BY WritesAreSound
<1>4. s \in PlannerStates /\ s.plan = plan /\ s.todo = Writes(plan)
  BY <1>2, <1>3 DEF PlannerStates, TodoSound
<1>5. planner' = [planner EXCEPT ![p] = s] /\ planFiles' = planFiles /\ queued' = queued
  BY <1>1, <1>2 DEF StartPlan
<1>6. planner' \in [Planners -> PlannerStates]
  BY <1>4, <1>5 DEF PlanInvariant
<1>7. ASSUME NEW q \in Planners PROVE PlannerSound(q)'
  <2>1. CASE q = p
    <3>1. planner'[q] = s
      BY <1>5, <2>1 DEF PlanInvariant
    <3>2. Len(Writes(plan)) \in Nat /\ Len(Tasks(plan)) \in Nat /\ DOMAIN Tasks(plan) = 1..Len(Tasks(plan))
      BY <1>3, TasksOfPlan DEF TodoSound
    <3>3. FilesWritten(plan, Len(Writes(plan)))'
      BY <1>3, <3>2 DEF FilesWritten
    <3>4. QED
      BY <1>1, <1>3, <1>4, <3>1, <3>3 DEF PlannerSound
  <2>2. CASE q # p
    <3>1. planner'[q] = planner[q] /\ PlannerSound(q)
      BY <1>5, <2>2 DEF PlanInvariant
    <3>2. QED
      BY <1>5, <3>1 DEF PlannerSound, FilesWritten
  <2>3. QED
    BY <2>1, <2>2
<1>8. QED
  BY <1>5, <1>6, <1>7, QueueStays DEF PlanInvariant

LEMMA IdsOfPlan ==
  ASSUME NEW plan \in DOMAIN Plans, ValidPlan(plan)
  PROVE  /\ Len(Tasks(plan)) \in Nat /\ Len(Tasks(plan)) > 0 /\ DOMAIN Tasks(plan) = 1..Len(Tasks(plan))
         /\ \A u \in ToSet(Tasks(plan)) : \A d \in u.dependsOn :
               \E k \in DOMAIN Tasks(plan) : Tasks(plan)[k].id = d
<1>1. Tasks(plan) \in Seq(ToSet(Tasks(plan))) /\ Tasks(plan) # <<>> /\ DOMAIN Tasks(plan) = 1..Len(Tasks(plan))
  BY TasksOfPlan DEF ValidPlan
<1>2. Len(Tasks(plan)) \in Nat /\ Len(Tasks(plan)) > 0
  BY <1>1
<1>3. ASSUME NEW u \in ToSet(Tasks(plan)), NEW d \in u.dependsOn
      PROVE  \E k \in DOMAIN Tasks(plan) : Tasks(plan)[k].id = d
  <2>1. d \in {v.id : v \in ToSet(Tasks(plan))}
    BY DEF ValidPlan
  <2>2. PICK v \in ToSet(Tasks(plan)) : v.id = d
    BY <2>1
  <2>3. QED
    BY <2>2 DEF ToSet
<1>4. QED
  BY <1>1, <1>2, <1>3

(* All tasks of a plan that is not in the queue are added behind it.         *)
AddsPlan(plan) ==
    /\ plan \in DOMAIN Plans /\ ValidPlan(plan)
    /\ planFiles' = planFiles /\ \A k \in DOMAIN Tasks(plan) : FileOf(plan, k) \in planFiles
    /\ \A i \in DOMAIN Tasks(plan) : Tasks(plan)[i].id \notin QueuedIds
    /\ queued' = queued \o [i \in DOMAIN Tasks(plan) |-> Entry(plan, i)]

LEMMA PlanAdded ==
  ASSUME PlanInvariant, NEW plan, AddsPlan(plan)
  PROVE  queued' \in Seq(Entries) /\ \A i \in DOMAIN queued' : QueuedWhole(queued[i].plan)'
<1> DEFINE n == Len(Tasks(plan))
           m == Len(queued)
           entries == [i \in DOMAIN Tasks(plan) |-> Entry(plan, i)]
<1>1. /\ plan \in DOMAIN Plans /\ ValidPlan(plan) /\ n \in Nat /\ n > 0 /\ DOMAIN Tasks(plan) = 1..n
  BY IdsOfPlan DEF AddsPlan
<1>2. queued \in Seq(Entries) /\ m \in Nat /\ DOMAIN queued = 1..m
  BY DEF PlanInvariant
<1>3. /\ entries \in Seq(Entries) /\ Len(entries) = n /\ \A i \in 1..n : entries[i] = Entry(plan, i)
  <2>1. \A i \in 1..n : Entry(plan, i) \in Entries
    BY <1>1 DEF Entries
  <2>2. entries = [i \in 1..n |-> Entry(plan, i)]
    BY <1>1
  <2>3. QED
    BY <1>1, <2>1, <2>2
<1> HIDE DEF entries
<1>4. /\ queued' \in Seq(Entries) /\ Len(queued') = m + n
      /\ \A i \in 1..(m + n) : queued'[i] = IF i <= m THEN queued[i] ELSE entries[i - m]
  <2>1. queued' = queued \o entries
    BY DEF AddsPlan, entries
  <2>2. /\ queued \o entries \in Seq(Entries) /\ Len(queued \o entries) = Len(queued) + Len(entries)
        /\ \A i \in 1..(Len(queued) + Len(entries)) :
              (queued \o entries)[i] = IF i <= Len(queued) THEN queued[i] ELSE entries[i - Len(queued)]
    BY <1>2, <1>3, ConcatProperties, Zenon
  <2>3. QED
    BY <1>3, <2>1, <2>2
<1> HIDE DEF n, m
<1>5. DOMAIN queued' = 1..(m + n)
  BY <1>4
<1>6. \A i \in 1..m : queued'[i] = queued[i]
  BY <1>1, <1>2, <1>4
<1>7. \A i \in 1..n : m + i \in 1..(m + n) /\ queued'[m + i] = Entry(plan, i)
  BY <1>1, <1>2, <1>3, <1>4
<1>8. \A i \in (m + 1)..(m + n) : queued'[i].plan = plan
  <2> SUFFICES ASSUME NEW i \in (m + 1)..(m + n) PROVE queued'[i].plan = plan
    OBVIOUS
  <2>1. i - m \in 1..n /\ m + (i - m) = i
    BY <1>1, <1>2
  <2>2. queued'[i] = Entry(plan, i - m)
    BY <1>7, <2>1
  <2>3. QED
    BY <2>2 DEF Entry
<1>9. QueuedIds \subseteq QueuedIds' /\ \A i \in 1..n : Tasks(plan)[i].id \in QueuedIds'
  <2>1. QueuedIds \subseteq QueuedIds'
    BY <1>1, <1>2, <1>5, <1>6 DEF QueuedIds
  <2>2. ASSUME NEW i \in 1..n PROVE Tasks(plan)[i].id \in QueuedIds'
    <3>1. queued'[m + i].id = Tasks(plan)[i].id /\ m + i \in DOMAIN queued'
      <4>1. queued'[m + i] = Entry(plan, i) /\ m + i \in 1..(m + n)
        BY <1>7
      <4>2. Entry(plan, i).id = Tasks(plan)[i].id
        BY DEF Entry
      <4>3. QED
        BY <1>5, <4>1, <4>2
    <3>2. QED
      BY <3>1 DEF QueuedIds
  <2>3. QED
    BY <2>1, <2>2
<1>10. \A i \in 1..m : queued[i].plan # plan
  <2> SUFFICES ASSUME NEW i \in 1..m, queued[i].plan = plan PROVE FALSE
    OBVIOUS
  <2>1. QueuedWhole(plan)
    BY <1>2 DEF PlanInvariant
  <2>2. 1 \in DOMAIN Tasks(plan) /\ Tasks(plan)[1].id \in QueuedIds
    BY <1>1, <2>1 DEF QueuedWhole
  <2>3. QED
    BY <2>2 DEF AddsPlan
<1>11. QueuedWhole(plan)'
  <2>1. Here(plan)' = (m + 1)..(m + n)
    <3>1. \A k \in 1..(m + n) : queued'[k].plan = plan <=> k \in (m + 1)..(m + n)
      BY <1>1, <1>2, <1>6, <1>8, <1>10
    <3>2. QED
      BY <1>1, <1>2, <1>5, <3>1 DEF Here
  <2>2. Cardinality((m + 1)..(m + n)) = n
    BY <1>1, <1>2, FS_Interval
  <2>3. \A k \in DOMAIN Tasks(plan) : FileOf(plan, k) \in planFiles' /\ Tasks(plan)[k].id \in QueuedIds'
    BY <1>1, <1>9 DEF AddsPlan
  <2>4. QED
    BY <1>1, <2>1, <2>2, <2>3 DEF QueuedWhole, n
<1>12. ASSUME NEW i \in 1..m PROVE QueuedWhole(queued[i].plan)'
  <2>1. PICK other : other = queued[i].plan
    OBVIOUS
  <2>2. other # plan /\ QueuedWhole(other) /\ queued'[i].plan = other
    BY <1>2, <1>6, <1>10, <2>1 DEF PlanInvariant
  <2>3. Here(other)' = Here(other)
    <3>1. \A k \in 1..(m + n) : queued'[k].plan = other <=> k \in 1..m /\ queued[k].plan = other
      BY <1>1, <1>2, <1>6, <1>8, <2>2
    <3>2. QED
      BY <1>1, <1>2, <1>5, <3>1 DEF Here
  <2>4. QueuedWhole(other)'
    BY <1>9, <2>2, <2>3 DEF QueuedWhole, AddsPlan
  <2>5. QED
    BY <2>2, <2>4
<1>13. ASSUME NEW i \in DOMAIN queued' PROVE QueuedWhole(queued[i].plan)'
  <2>1. CASE i \in 1..m
    BY <1>12, <2>1
  <2>2. CASE i \in (m + 1)..(m + n)
    BY <1>8, <1>11, <2>2
  <2>3. QED
    BY <1>1, <1>2, <1>5, <2>1, <2>2
<1>14. QED
  BY <1>4, <1>13

LEMMA EnqueueKeeps ==
  ASSUME PlanInvariant, NEW p \in Planners, Enqueue(p)
  PROVE  PlanInvariant'
<1>1. /\ planner[p].pc = "writing" /\ Written(p) /\ planFiles' = planFiles
      /\ Head(planner[p].todo) = "enqueue"
  BY DEF Enqueue, Writing
<1>2. planner' \in [Planners -> PlannerStates] /\ \A q \in Planners : PlannerSound(q)'
  BY <1>1, WrittenKeeps
<1>3. PICK plan \in DOMAIN Plans, todo \in Seq(PlanSteps) :
        /\ plan = planner[p].plan /\ todo = planner[p].todo
        /\ ValidPlan(plan) /\ TodoSound(plan, todo) /\ FilesWritten(plan, Len(todo))
  BY <1>1 DEF PlanInvariant, PlannerSound, TodoSound
<1>4. Len(todo) = 1
  <2>1. todo \in Seq(PlanSteps) /\ todo # <<>> /\ DOMAIN todo = 1..Len(todo) /\ Len(todo) \in Nat /\ Len(todo) > 0
    BY <1>3 DEF TodoSound
  <2>2. todo[1] = "enqueue" /\ 1 \in DOMAIN todo
    BY <1>1, <1>3, <2>1
  <2>3. QED
    BY <1>3, <2>2 DEF TodoSound
<1>5. \A k \in DOMAIN Tasks(plan) : FileOf(plan, k) \in planFiles
  <2>1. DOMAIN Tasks(plan) = 1..Len(Tasks(plan)) /\ Len(Tasks(plan)) \in Nat
    BY TasksOfPlan
  <2>2. QED
    BY <1>3, <1>4, <2>1 DEF FilesWritten
<1> DEFINE entries == [i \in DOMAIN Tasks(plan) |-> Entry(plan, i)]
<1>6. queued' = IF \E e \in ToSet(entries) : e.id \in QueuedIds THEN queued ELSE queued \o entries
  BY <1>3 DEF Enqueue, Entry
<1>7. CASE \E e \in ToSet(entries) : e.id \in QueuedIds
  <2>1. queued' = queued
    BY <1>6, <1>7
  <2>2. QED
    BY <1>1, <1>2, <2>1, QueueStays DEF PlanInvariant
<1>8. CASE ~\E e \in ToSet(entries) : e.id \in QueuedIds
  <2>1. \A i \in DOMAIN Tasks(plan) : Tasks(plan)[i].id \notin QueuedIds
    <3> SUFFICES ASSUME NEW i \in DOMAIN Tasks(plan) PROVE Tasks(plan)[i].id \notin QueuedIds
      OBVIOUS
    <3>1. entries[i] = Entry(plan, i) /\ entries[i] \in ToSet(entries) /\ Entry(plan, i).id = Tasks(plan)[i].id
      BY DEF ToSet, Entry
    <3>2. QED
      BY <1>8, <3>1
  <2>2. AddsPlan(plan)
    BY <1>1, <1>3, <1>5, <1>6, <1>8, <2>1 DEF AddsPlan
  <2>3. QED
    BY <1>2, <2>2, PlanAdded DEF PlanInvariant
<1>9. QED
  BY <1>7, <1>8

-----------------------------------------------------------------------------
PlanningInvariant == ChatInvariant /\ PlanInvariant

LEMMA PlanningFirst == PlanningInit => PlanningInvariant
<1> SUFFICES ASSUME PlanningInit PROVE PlanningInvariant
  OBVIOUS
<1>1. Silent \in TalkerStates /\ Silent.pc = "idle" /\ NotPlanning \in PlannerStates /\ NotPlanning.pc = "idle"
  BY DEF Silent, TalkerStates, NotPlanning, PlannerStates
<1>2. ChatInvariant
  BY <1>1, NoTurns DEF PlanningInit, ChatInvariant, TalkerSound
<1>3. queued \in Seq(Entries) /\ DOMAIN queued = {}
  BY DEF PlanningInit
<1>4. PlanInvariant
  BY <1>1, <1>3 DEF PlanningInit, PlanInvariant, PlannerSound
<1>5. QED
  BY <1>2, <1>4 DEF PlanningInvariant

(* supervisor_chat.py, lifecycle.py: in every reachable state the chat and   *)
(* what was read of it are turns, and plans are written and queued in order. *)
THEOREM PlanningIsSound == PlanningSpec => []PlanningInvariant
<1>1. ASSUME PlanningInvariant, [PlanningNext]_planningVars PROVE PlanningInvariant'
  <2>1. ASSUME UNCHANGED chatVars PROVE ChatInvariant'
    BY <1>1, <2>1 DEF chatVars, PlanningInvariant, ChatInvariant, TalkerSound
  <2>2. ASSUME UNCHANGED planVars PROVE PlanInvariant'
    <3>1. UNCHANGED <<planner, planFiles, queued>> /\ PlanInvariant
      BY <1>1, <2>2 DEF planVars, PlanningInvariant
    <3>2. \A p \in Planners : PlannerSound(p)'
      BY <3>1 DEF PlanInvariant, PlannerSound, FilesWritten
    <3>3. QED
      BY <3>1, <3>2, QueueStays DEF PlanInvariant
  <2>3. CASE ClearChat
    BY <1>1, <2>2, <2>3, ClearChatKeeps DEF ClearChat, PlanningInvariant
  <2>4. ASSUME NEW t \in Talkers, Talk(t) PROVE PlanningInvariant'
    <3>1. UNCHANGED planVars
      BY <2>4 DEF Talk, ReadHistory, SaveTurn, TurnFails
    <3>2. ChatInvariant'
      BY <1>1, <2>4, ReadHistoryKeeps, SaveTurnKeeps, TurnFailsKeeps DEF Talk, PlanningInvariant
    <3>3. QED
      BY <2>2, <3>1, <3>2 DEF PlanningInvariant
  <2>5. ASSUME NEW p \in Planners, Plan(p) PROVE PlanningInvariant'
    <3>1. UNCHANGED chatVars
      BY <2>5 DEF Plan, StartPlan, WriteDocument, WriteProfile, WriteTask, Enqueue, PlanStops
    <3>2. PlanInvariant'
      BY <1>1, <2>5, StartPlanKeeps, WriteDocumentKeeps, WriteTaskKeeps, EnqueueKeeps, PlanStopsKeeps
         DEF Plan, PlanningInvariant
    <3>3. QED
      BY <2>1, <3>1, <3>2 DEF PlanningInvariant
  <2>6. CASE UNCHANGED planningVars
    BY <2>1, <2>2, <2>6 DEF planningVars, chatVars, planVars, PlanningInvariant
  <2>7. QED
    BY <1>1, <2>3, <2>4, <2>5, <2>6 DEF PlanningNext
<1>2. QED
  BY <1>1, PlanningFirst, PTL DEF PlanningSpec

(* However turns, clearings and plans interleave and wherever a plan stops,  *)
(* it is queued whole or not at all, and the conversation keeps its turns.   *)
THEOREM WholePlansAndTurns == PlanningSpec => []PlansAndTurnsAreWhole
<1>1. ASSUME PlanningInvariant PROVE PlanQueuedWhole
  <2> SUFFICES ASSUME NEW i \in DOMAIN queued
               PROVE  LET plan == queued[i].plan
                          here == {k \in DOMAIN queued : queued[k].plan = plan}
                      IN /\ Cardinality(here) = Len(Tasks(plan))
                         /\ \A k \in DOMAIN Tasks(plan) : FileOf(plan, k) \in planFiles
                         /\ \A u \in ToSet(Tasks(plan)) : \A d \in u.dependsOn :
                               \E k \in DOMAIN queued : queued[k].id = d
    BY DEF PlanQueuedWhole
  <2>1. PICK plan : plan = queued[i].plan
    OBVIOUS
  <2>2. QueuedWhole(plan)
    BY <1>1, <2>1 DEF PlanningInvariant, PlanInvariant
  <2>3. ASSUME NEW u \in ToSet(Tasks(plan)), NEW d \in u.dependsOn
        PROVE  \E k \in DOMAIN queued : queued[k].id = d
    <3>1. PICK k \in DOMAIN Tasks(plan) : Tasks(plan)[k].id = d
      BY <2>2, IdsOfPlan DEF QueuedWhole
    <3>2. d \in QueuedIds
      BY <2>2, <3>1 DEF QueuedWhole
    <3>3. QED
      BY <3>2 DEF QueuedIds
  <2>4. QED
    BY <2>1, <2>2, <2>3 DEF QueuedWhole, Here
<1>2. PlanningInvariant => ConversationInTurns
  BY DEF PlanningInvariant, ChatInvariant, InTurns, ConversationInTurns
<1>3. PlanningInvariant => PlansAndTurnsAreWhole
  BY <1>1, <1>2 DEF PlansAndTurnsAreWhole
<1>4. QED
  BY <1>3, PlanningIsSound, PTL

-----------------------------------------------------------------------------
(***************************************************************************)
(* ReviewEvidence.  What the index says of an id never changes, and a task *)
(* that waits for a decision waits for one on a run of its own.            *)
(***************************************************************************)
BundleIds == BOOLEAN \X (1..MaxRuns)

Critics == {c.critic : c \in Configs}

Bundles == [strict : BOOLEAN, run : 1..MaxRuns, made : Nat, critic : Critics \cup {None}, limit : Nat]

DecisionIds == Nat \X {"review", "approve", "reject", "escalate"}

Documents ==
    [id : DecisionIds, at : Nat, verdict : Verdicts, saw : Bundles, strict : BOOLEAN,
     names : BundleIds, attests : 1..MaxRuns, author : Critics \cup {None, "somebody"}]

ReviewTasks ==
    [status : {"queued", "review_pending", "rework_required", "escalated", "failed", "done"},
     attempts : Nat, pending : BundleIds \cup {None},
     decision : DecisionIds \cup {None}, correction : DecisionIds \cup {None}]

CriticStates == [bundle : Bundles, by : Critics, again : BOOLEAN, answer : Documents \cup {None}]

Setups == [run : 1..MaxRuns, section : Configs, own : BOOLEAN, step : {"export", "attached", "failing"}]

\* Bundles by their ids.
BundleFile(f) == \A id \in DOMAIN f : id \in BundleIds /\ f[id] \in Bundles

ReviewTypes ==
    /\ alone \in BOOLEAN
    /\ section \in Configs
    /\ setups \subseteq Setups
    /\ task \in ReviewTasks
    /\ runs \in Seq(BOOLEAN) /\ Len(runs) <= MaxRuns
    /\ BundleFile(files) /\ BundleFile(index)
    /\ export \in Bundles \cup {None}
    /\ documents \subseteq Documents /\ decisions \subseteq Documents
    /\ critic \in CriticStates \cup {None}
    /\ exports \in Nat /\ written \in Nat /\ changes \in Nat

\* A bundle whose file is written is not indexed yet.
ExportSound == export # None => BundleId(export) \notin DOMAIN index

DecisionsSound == DecidedOnWhatWasSeen /\ \A d \in decisions : d.names \in DOMAIN index

ReviewTaskSound ==
    /\ task.pending # None =>
         /\ task.pending \in {TRUE} \X (1..Len(runs))
         /\ alone => task.status = "review_pending" /\ task.pending = <<TRUE, Len(runs)>>
    /\ ApprovedAsRun

\* A set-up is of a run there is; where commands run one at a time, it is the
\* only one, of the last run, and what it saw of the task still holds.
SetupsSound ==
    \A e \in setups :
        /\ e.run \in 1..Len(runs)
        /\ alone => /\ e.run = Len(runs) /\ setups = {e}
                    /\ e.step = "failing" => task.pending = None

ReviewInvariant ==
    ReviewTypes /\ ExportSound /\ DecisionsSound /\ ReviewTaskSound /\ SetupsSound

LEMMA ReviewFirst == ReviewInit => ReviewInvariant
<1> SUFFICES ASSUME ReviewInit PROVE ReviewInvariant
  OBVIOUS
<1>1. task \in ReviewTasks
  BY DEF ReviewInit, ReviewTasks
<1>2. runs \in Seq(BOOLEAN) /\ Len(runs) = 0
  BY DEF ReviewInit
<1>3. DOMAIN files = {} /\ DOMAIN index = {}
  BY DEF ReviewInit
<1>4. ReviewTypes
  BY <1>1, <1>2, <1>3, ReviewConstants DEF ReviewInit, ReviewTypes, BundleFile
<1>5. ExportSound /\ DecisionsSound /\ ReviewTaskSound /\ SetupsSound
  BY DEF ReviewInit, ExportSound, DecisionsSound, DecidedOnWhatWasSeen, ReviewTaskSound, ApprovedAsRun,
         SetupsSound
<1>6. QED
  BY <1>4, <1>5 DEF ReviewInvariant

LEMMA BundleFileWith ==
  ASSUME NEW f, BundleFile(f), NEW bundle \in Bundles
  PROVE  /\ BundleFile(With(f, BundleId(bundle), bundle))
         /\ DOMAIN With(f, BundleId(bundle), bundle) = DOMAIN f \cup {BundleId(bundle)}
         /\ \A id \in DOMAIN f : id # BundleId(bundle) => With(f, BundleId(bundle), bundle)[id] = f[id]
<1>1. BundleId(bundle) \in BundleIds
  BY DEF Bundles, BundleId, BundleIds
<1>2. QED
  BY <1>1 DEF With, BundleFile

(* Steps that leave the evidence and the decisions as they are.              *)
LEMMA TaskMoves ==
  ASSUME ReviewInvariant, UNCHANGED <<index, export, decisions>>, ReviewTypes', ReviewTaskSound', SetupsSound'
  PROVE  ReviewInvariant'
BY DEF ReviewInvariant, ExportSound, DecisionsSound, DecidedOnWhatWasSeen, BundleId

(* Steps that leave the task and what is set up for it as they are.          *)
LEMMA TaskStays ==
  ASSUME ReviewInvariant, UNCHANGED <<alone, task, runs, setups>>, decisions \subseteq decisions'
  PROVE  ReviewTaskSound' /\ SetupsSound'
<1>1. SetupsSound'
  BY DEF ReviewInvariant, SetupsSound
<1>2. ApprovedAsRun'
  BY DEF ReviewInvariant, ReviewTaskSound, ApprovedAsRun
<1>3. QED
  BY <1>1, <1>2 DEF ReviewInvariant, ReviewTaskSound

\* Nothing that the run's task is judged by changes.
LEMMA PapersMove ==
  ASSUME ReviewInvariant, UNCHANGED <<alone, task, runs, setups, index, export, decisions>>, ReviewTypes'
  PROVE  ReviewInvariant'
<1>1. ReviewTaskSound' /\ SetupsSound'
  BY TaskStays
<1>2. QED
  BY <1>1, TaskMoves

LEMMA ConfigureKeeps ==
  ASSUME ReviewInvariant, Configure
  PROVE  ReviewInvariant'
<1>1. ReviewTypes'
  BY DEF Configure, ReviewInvariant, ReviewTypes, BundleFile
<1>2. QED
  BY <1>1, PapersMove DEF Configure

(* A new state of the task, without a run or a document.                     *)
LEMMA TaskBecomes ==
  ASSUME ReviewInvariant, task' \in ReviewTasks,
         task'.status # "done", task'.pending \in {None, task.pending},
         alone => task'.pending = None, setups' \subseteq setups,
         UNCHANGED <<alone, section, runs, files, index, export, documents, decisions, critic,
                     exports, written, changes>>
  PROVE  ReviewInvariant'
<1>1. ReviewTypes'
  BY DEF ReviewInvariant, ReviewTypes, BundleFile
<1>2. ReviewTaskSound'
  BY DEF ReviewInvariant, ReviewTaskSound, ApprovedAsRun
<1>3. SetupsSound'
  BY DEF ReviewInvariant, SetupsSound
<1>4. QED
  BY <1>1, <1>2, <1>3, TaskMoves

LEMMA AttemptLimitKeeps ==
  ASSUME ReviewInvariant, AttemptLimit
  PROVE  ReviewInvariant'
<1>1. task \in ReviewTasks /\ (alone => task.pending = None)
  BY DEF AttemptLimit, ReviewInvariant, ReviewTypes, ReviewTaskSound
<1>2. task' \in ReviewTasks /\ task'.status = "escalated" /\ task'.pending = task.pending
  BY <1>1 DEF AttemptLimit, ReviewTasks
<1>3. QED
  BY <1>1, <1>2, TaskBecomes DEF AttemptLimit

LEMMA SetupIs ==
  ASSUME ReviewInvariant, NEW run \in 1..MaxRuns, NEW own \in BOOLEAN
  PROVE  /\ Setup(run, own) \in Setups
         /\ Setup(run, own).run = run /\ Setup(run, own).step = "export"
BY DEF ReviewInvariant, ReviewTypes, Setup, Setups

LEMMA WorkKeeps ==
  ASSUME ReviewInvariant, Work
  PROVE  ReviewInvariant'
<1>1. /\ task \in ReviewTasks /\ (alone => task.pending = None /\ setups = {})
      /\ section.required \in BOOLEAN
  BY ReviewConstants DEF Work, ReviewInvariant, ReviewTypes, ReviewTaskSound
<1>2. /\ task' \in ReviewTasks /\ task'.pending = task.pending
      /\ task'.status = IF section.required THEN "review_pending" ELSE "done"
  <2>1. PICK status \in {"review_pending", "done"} :
          status = IF section.required THEN "review_pending" ELSE "done"
    OBVIOUS
  <2>2. task' = [task EXCEPT !.attempts = task.attempts + 1, !.status = status]
    BY <1>1, <2>1 DEF Work
  <2>3. task.attempts + 1 \in Nat
    BY <1>1 DEF ReviewTasks
  <2>4. QED
    BY <1>1, <2>1, <2>2, <2>3 DEF ReviewTasks
<1>3. PICK n \in Nat : n = Len(runs)
  BY LenProperties DEF ReviewInvariant, ReviewTypes
<1>4. /\ runs' \in Seq(BOOLEAN) /\ Len(runs') = n + 1 /\ n + 1 \in 1..MaxRuns
      /\ runs'[n + 1] = section.required
  BY <1>1, <1>3, ReviewConstants DEF Work, ReviewInvariant, ReviewTypes
<1>5. setups' = setups \/ setups' = setups \cup {Setup(n + 1, TRUE)}
  BY <1>3 DEF Work
<1>6. PICK e : e = Setup(n + 1, TRUE)
  OBVIOUS
<1>7. e \in Setups /\ e.run = n + 1 /\ e.step = "export"
  BY <1>4, <1>6, SetupIs
<1>8. setups' = setups \/ setups' = setups \cup {e}
  BY <1>5, <1>6
<1>9. ReviewTypes'
  BY <1>2, <1>4, <1>7, <1>8 DEF Work, ReviewInvariant, ReviewTypes, BundleFile
<1>10. ReviewTaskSound'
  <2>1. alone' = alone /\ (alone => task'.pending = None)
    BY <1>1, <1>2 DEF Work
  <2>2. task'.pending # None => task'.pending \in {TRUE} \X (1..Len(runs))
    BY <1>2 DEF ReviewInvariant, ReviewTaskSound
  <2>3. 1..Len(runs) \subseteq 1..Len(runs')
    BY <1>3, <1>4
  <2>4. task'.pending # None => task'.pending \in {TRUE} \X (1..Len(runs'))
    BY <2>2, <2>3
  <2>5. task'.status = "done" => runs'[Len(runs')] = FALSE
    BY <1>1, <1>2, <1>4
  <2>6. ApprovedAsRun'
    BY <2>5 DEF ApprovedAsRun
  <2>7. QED
    BY <2>1, <2>4, <2>6 DEF ReviewTaskSound
<1>11. SetupsSound'
  BY <1>1, <1>3, <1>4, <1>7, <1>8 DEF Work, ReviewInvariant, SetupsSound
<1>12. QED
  BY <1>9, <1>10, <1>11, TaskMoves DEF Work

LEMMA ExportFileKeeps ==
  ASSUME ReviewInvariant, NEW run \in 1..Len(runs), NEW read \in InUse, ExportFile(run, read)
  PROVE  ReviewInvariant'
<1>1. PICK bundle : bundle = [strict |-> read.required, run |-> run, made |-> exports + 1,
                   critic |-> IF read.required THEN read.critic ELSE None,
                   limit |-> IF read.required THEN read.limit ELSE 0]
  OBVIOUS
<1>2. /\ BundleId(bundle) \notin DOMAIN index
      /\ files' = With(files, BundleId(bundle), bundle) /\ export' = bundle /\ exports' = exports + 1
      /\ UNCHANGED <<alone, section, task, runs, setups, index, documents, decisions, critic, written, changes>>
  BY <1>1 DEF ExportFile
<1>3. bundle \in Bundles
  <2>1. read \in Configs /\ read.required \in BOOLEAN /\ read.limit \in Nat
    BY ReviewConstants DEF InUse, ReviewInvariant, ReviewTypes, Setups
  <2>2. read.critic \in Critics
    BY <2>1 DEF Critics
  <2>3. run \in 1..MaxRuns /\ exports + 1 \in Nat
    BY ReviewConstants DEF ReviewInvariant, ReviewTypes
  <2>4. QED
    BY <1>1, <2>1, <2>2, <2>3 DEF Bundles
<1>4. BundleFile(files')
  BY <1>2, <1>3, BundleFileWith DEF ReviewInvariant, ReviewTypes
<1>5. ReviewTypes'
  BY <1>2, <1>3, <1>4 DEF ReviewInvariant, ReviewTypes, BundleFile
<1>6. ExportSound'
  BY <1>2 DEF ExportSound, BundleId
<1>7. DecisionsSound'
  BY <1>2 DEF ReviewInvariant, DecisionsSound, DecidedOnWhatWasSeen
<1>8. ReviewTaskSound' /\ SetupsSound'
  BY <1>2, TaskStays
<1>9. QED
  BY <1>5, <1>6, <1>7, <1>8 DEF ReviewInvariant

LEMMA ExportIndexKeeps ==
  ASSUME ReviewInvariant, ExportIndex
  PROVE  ReviewInvariant'
<1>1. export \in Bundles /\ BundleId(export) \notin DOMAIN index
  BY DEF ExportIndex, ReviewInvariant, ReviewTypes, ExportSound
<1>2. /\ index' = With(index, BundleId(export), export) /\ export' = None
      /\ UNCHANGED <<alone, section, task, runs, setups, files, documents, decisions, critic, exports,
                     written, changes>>
  BY DEF ExportIndex
<1>3. /\ BundleFile(index') /\ DOMAIN index' = DOMAIN index \cup {BundleId(export)}
      /\ \A id \in DOMAIN index : index'[id] = index[id]
  BY <1>1, <1>2, BundleFileWith DEF ReviewInvariant, ReviewTypes
<1>4. ReviewTypes'
  BY <1>2, <1>3 DEF ReviewInvariant, ReviewTypes, BundleFile
<1>5. ExportSound'
  BY <1>2 DEF ExportSound
<1>6. DecisionsSound'
  BY <1>2, <1>3 DEF ReviewInvariant, DecisionsSound, DecidedOnWhatWasSeen
<1>7. ReviewTaskSound' /\ SetupsSound'
  BY <1>2, TaskStays
<1>8. QED
  BY <1>4, <1>5, <1>6, <1>7 DEF ReviewInvariant

LEMMA ExportDiesKeeps ==
  ASSUME ReviewInvariant, ExportDies
  PROVE  ReviewInvariant'
<1>1. ReviewTypes' /\ ExportSound'
  BY DEF ExportDies, ReviewInvariant, ReviewTypes, BundleFile, ExportSound
<1>2. DecisionsSound' /\ ReviewTaskSound' /\ SetupsSound'
  BY TaskStays DEF ExportDies, ReviewInvariant, DecisionsSound, DecidedOnWhatWasSeen
<1>3. QED
  BY <1>1, <1>2 DEF ReviewInvariant

LEMMA TakeRunKeeps ==
  ASSUME ReviewInvariant, NEW run \in 1..Len(runs), TakeRun(run)
  PROVE  ReviewInvariant'
<1>1. PICK e : e = Setup(run, FALSE)
  OBVIOUS
<1>2. run \in 1..MaxRuns
  BY LenProperties, ReviewConstants DEF ReviewInvariant, ReviewTypes
<1>3. e \in Setups /\ e.run = run /\ e.step = "export"
  BY <1>1, <1>2, SetupIs
<1>4. setups' = setups \cup {e} /\ (alone => setups = {} /\ run = Len(runs))
  BY <1>1 DEF TakeRun, MaySetUp
<1>5. ReviewTypes'
  BY <1>3, <1>4 DEF TakeRun, ReviewInvariant, ReviewTypes, BundleFile
<1>6. SetupsSound'
  BY <1>3, <1>4 DEF TakeRun, ReviewInvariant, SetupsSound
<1>7. ReviewTaskSound'
  BY DEF TakeRun, ReviewInvariant, ReviewTaskSound, ApprovedAsRun
<1>8. QED
  BY <1>5, <1>6, <1>7, TaskMoves DEF TakeRun

(* A set-up comes to its next step, or is over.                              *)
LEMMA SetupMoves ==
  ASSUME ReviewInvariant, NEW e \in setups, NEW f, f \in Setups, f.run = e.run,
         setups' \in {setups \ {e}, (setups \ {e}) \cup {f}}, UNCHANGED <<alone, runs>>,
         f.step = "failing" => task'.pending = None,
         alone /\ setups' # {} => setups' = {f}
  PROVE  setups' \subseteq Setups /\ SetupsSound'
<1>1. setups' \subseteq Setups
  BY DEF ReviewInvariant, ReviewTypes
<1>2. ASSUME NEW g \in setups' PROVE g.run \in 1..Len(runs)
  BY DEF ReviewInvariant, SetupsSound
<1>3. ASSUME NEW g \in setups', alone
      PROVE  g.run = Len(runs) /\ setups' = {g} /\ (g.step = "failing" => task'.pending = None)
  <2>1. setups' = {f} /\ g = f
    BY <1>3
  <2>2. e.run = Len(runs)
    BY <1>3 DEF ReviewInvariant, SetupsSound
  <2>3. QED
    BY <2>1, <2>2
<1>4. QED
  BY <1>1, <1>2, <1>3 DEF SetupsSound

LEMMA SetupSteps ==
  ASSUME ReviewInvariant, NEW e \in setups, NEW step \in {"attached", "failing"}
  PROVE  /\ [e EXCEPT !.step = step] \in Setups
         /\ [e EXCEPT !.step = step].run = e.run /\ [e EXCEPT !.step = step].step = step
         /\ e.run \in 1..Len(runs) /\ (alone => setups \ {e} = {})
BY DEF ReviewInvariant, ReviewTypes, Setups, SetupsSound

LEMMA AttachKeeps ==
  ASSUME ReviewInvariant, NEW e \in setups, Attach(e)
  PROVE  ReviewInvariant'
<1>1. PICK f : f = [e EXCEPT !.step = "attached"]
  OBVIOUS
<1>2. f \in Setups /\ f.run = e.run /\ f.step = "attached" /\ e.run \in 1..Len(runs)
      /\ (alone => setups \ {e} = {})
  BY <1>1, SetupSteps
<1>3. setups' \in {setups \ {e}, (setups \ {e}) \cup {f}} /\ (alone /\ setups' # {} => setups' = {f})
  <2>1. setups' = (setups \ {e}) \cup (IF e.own THEN {f} ELSE {})
    BY <1>1 DEF Attach
  <2>2. QED
    BY <1>2, <2>1
<1>4. UNCHANGED <<alone, section, runs, files, index, export, documents, decisions, critic,
                  exports, written, changes>>
  BY DEF Attach
<1>5. setups' \subseteq Setups /\ SetupsSound'
  <2>1. f.step = "failing" => task'.pending = None
    BY <1>2
  <2>2. QED
    BY <1>2, <1>3, <1>4, <2>1, SetupMoves
<1>6. task \in ReviewTasks /\ <<TRUE, e.run>> \in BundleIds
  BY DEF Attach, ReviewInvariant, ReviewTypes, BundleFile
<1>7. /\ task' \in ReviewTasks /\ task'.status = "review_pending"
      /\ task'.pending = <<TRUE, e.run>>
  BY <1>6 DEF Attach, ReviewTasks
<1>8. ReviewTypes'
  BY <1>4, <1>5, <1>7 DEF ReviewInvariant, ReviewTypes, BundleFile
<1>9. ReviewTaskSound'
  <2>1. alone => e.run = Len(runs)
    BY DEF ReviewInvariant, SetupsSound
  <2>2. task'.pending \in {TRUE} \X (1..Len(runs'))
    <3>1. e.run \in 1..Len(runs')
      BY <1>2, <1>4
    <3>2. <<TRUE, e.run>> \in {TRUE} \X (1..Len(runs'))
      BY <3>1
    <3>3. QED
      BY <1>7, <3>2
  <2>3. alone' => task'.status = "review_pending" /\ task'.pending = <<TRUE, Len(runs')>>
    BY <1>4, <1>7, <2>1
  <2>4. ApprovedAsRun'
    <3>1. task'.status # "done"
      BY <1>7
    <3>2. QED
      BY <3>1 DEF ApprovedAsRun
  <2>5. QED
    BY <2>2, <2>3, <2>4 DEF ReviewTaskSound
<1>10. QED
  BY <1>4, <1>5, <1>8, <1>9, TaskMoves

LEMMA SetupBreaksKeeps ==
  ASSUME ReviewInvariant, NEW e \in setups, SetupBreaks(e)
  PROVE  ReviewInvariant'
<1>1. PICK f : f = [e EXCEPT !.step = "failing"]
  OBVIOUS
<1>2. f \in Setups /\ f.run = e.run /\ f.step = "failing" /\ (alone => setups \ {e} = {})
  BY <1>1, SetupSteps
<1>3. setups' = (setups \ {e}) \cup {f} /\ task'.pending = None
  BY <1>1 DEF SetupBreaks
<1>4. UNCHANGED <<alone, section, task, runs, files, index, export, documents, decisions, critic,
                  exports, written, changes>>
  BY DEF SetupBreaks
<1>5. setups' \subseteq Setups /\ SetupsSound'
  BY <1>2, <1>3, <1>4, SetupMoves
<1>6. ReviewTypes'
  BY <1>4, <1>5 DEF ReviewInvariant, ReviewTypes, BundleFile
<1>7. ReviewTaskSound'
  BY <1>4 DEF ReviewInvariant, ReviewTaskSound, ApprovedAsRun
<1>8. QED
  BY <1>4, <1>5, <1>6, <1>7, TaskMoves

LEMMA SetupFailsKeeps ==
  ASSUME ReviewInvariant, NEW e \in setups, SetupFails(e)
  PROVE  ReviewInvariant'
<1>1. task \in ReviewTasks /\ (alone => task.pending = None)
  BY DEF SetupFails, ReviewInvariant, ReviewTypes, SetupsSound
<1>2. task' \in ReviewTasks /\ task'.status = "failed" /\ task'.pending = task.pending
  BY <1>1 DEF SetupFails, ReviewTasks
<1>3. QED
  BY <1>1, <1>2, TaskBecomes DEF SetupFails

LEMMA SetupEndsKeeps ==
  ASSUME ReviewInvariant, NEW e \in setups, SetupEnds(e)
  PROVE  ReviewInvariant'
<1>1. ReviewTypes'
  BY DEF SetupEnds, ReviewInvariant, ReviewTypes, BundleFile
<1>2. SetupsSound'
  BY DEF SetupEnds, ReviewInvariant, SetupsSound
<1>3. ReviewTaskSound'
  BY DEF SetupEnds, ReviewInvariant, ReviewTaskSound, ApprovedAsRun
<1>4. QED
  BY <1>1, <1>2, <1>3, TaskMoves DEF SetupEnds

LEMMA ResolveEscalationKeeps ==
  ASSUME ReviewInvariant, ResolveEscalation
  PROVE  ReviewInvariant'
<1>1. task \in ReviewTasks
  BY DEF ReviewInvariant, ReviewTypes
<1>2. task' \in ReviewTasks /\ task'.status # "done" /\ task'.pending = None
  <2>1. CASE task' = [task EXCEPT !.status = "queued", !.attempts = 0, !.pending = None]
    BY <1>1, <2>1 DEF ReviewTasks
  <2>2. CASE task' = [task EXCEPT !.status = "failed", !.pending = None]
    BY <1>1, <2>2 DEF ReviewTasks
  <2>3. QED
    BY <2>1, <2>2 DEF ResolveEscalation
<1>3. QED
  BY <1>2, TaskBecomes DEF ResolveEscalation

LEMMA RetryKeeps ==
  ASSUME ReviewInvariant, Retry
  PROVE  ReviewInvariant'
<1>1. task \in ReviewTasks /\ (alone => task.pending = None)
  BY DEF Retry, ReviewInvariant, ReviewTypes, ReviewTaskSound
<1>2. task' \in ReviewTasks /\ task'.status = "queued" /\ task'.pending = task.pending
  BY <1>1 DEF Retry, ReviewTasks
<1>3. QED
  BY <1>1, <1>2, TaskBecomes DEF Retry

LEMMA ConfirmReworkKeeps ==
  ASSUME ReviewInvariant, NEW d \in decisions, ConfirmRework(d)
  PROVE  ReviewInvariant'
<1>1. task \in ReviewTasks /\ (alone => task.pending = None) /\ d.id \in DecisionIds
  BY DEF ConfirmRework, ReviewInvariant, ReviewTypes, ReviewTaskSound, Documents
<1>2. task' \in ReviewTasks /\ task'.status # "done" /\ task'.pending \in {None, task.pending}
  <2>1. CASE task' = [task EXCEPT !.status = "escalated"]
    BY <1>1, <2>1 DEF ReviewTasks
  <2>2. CASE task' = [task EXCEPT !.status = "queued", !.pending = None, !.correction = d.id]
    BY <1>1, <2>2 DEF ReviewTasks
  <2>3. QED
    BY <2>1, <2>2 DEF ConfirmRework
<1>3. QED
  BY <1>1, <1>2, TaskBecomes DEF ConfirmRework

-----------------------------------------------------------------------------
LEMMA WriteKeeps ==
  ASSUME ReviewInvariant, NEW id \in DOMAIN files, NEW mistake \in Mistakes, Write(files[id], mistake)
  PROVE  ReviewInvariant'
<1>1. PICK bundle : bundle = files[id]
  OBVIOUS
<1>2. bundle \in Bundles
  BY <1>1 DEF ReviewInvariant, ReviewTypes, BundleFile
<1>3. PICK verdict \in Verdicts :
        documents' = documents \cup {
            [id |-> <<0, "review">>, at |-> written', verdict |-> verdict, saw |-> bundle,
             strict |-> bundle.strict,
             names |-> IF mistake = "bundle" THEN <<bundle.strict, Other(bundle.run)>> ELSE BundleId(bundle),
             attests |-> IF mistake = "commit" THEN Other(bundle.run) ELSE bundle.run,
             author |-> IF mistake = "critic" THEN "somebody" ELSE bundle.critic]}
  BY <1>1 DEF Write
<1>4. written' \in Nat
  BY DEF Write, ReviewInvariant, ReviewTypes
<1>5. /\ bundle.run \in 1..MaxRuns /\ Other(bundle.run) \in 1..MaxRuns /\ bundle.strict \in BOOLEAN
      /\ bundle.critic \in Critics \cup {None} /\ BundleId(bundle) \in BundleIds
  BY <1>2, ReviewConstants DEF Bundles, Other, BundleId, BundleIds
<1> DEFINE names == IF mistake = "bundle" THEN <<bundle.strict, Other(bundle.run)>> ELSE BundleId(bundle)
           attests == IF mistake = "commit" THEN Other(bundle.run) ELSE bundle.run
           author == IF mistake = "critic" THEN "somebody" ELSE bundle.critic
<1>6. names \in BundleIds /\ attests \in 1..MaxRuns /\ author \in Critics \cup {None, "somebody"}
  BY <1>5 DEF BundleIds
<1>7. <<0, "review">> \in DecisionIds
  BY DEF DecisionIds
<1> HIDE DEF names, attests, author
<1>8. [id |-> <<0, "review">>, at |-> written', verdict |-> verdict, saw |-> bundle,
       strict |-> bundle.strict, names |-> names, attests |-> attests, author |-> author] \in Documents
  BY <1>2, <1>4, <1>5, <1>6, <1>7 DEF Documents
<1>9. documents' \subseteq Documents
  BY <1>3, <1>8 DEF names, attests, author, ReviewInvariant, ReviewTypes
<1>10. ReviewTypes'
  BY <1>4, <1>9 DEF Write, ReviewInvariant, ReviewTypes, BundleFile
<1>11. QED
  BY <1>10, PapersMove DEF Write

(* A decision that is recorded is one on what the index says, and the only   *)
(* one for its bundle and for its id.                                        *)
LEMMA Recorded ==
  ASSUME ReviewInvariant, NEW d \in Documents, Imported(d),
         decisions' = decisions \cup {d}, UNCHANGED <<index, export>>
  PROVE  ExportSound' /\ DecisionsSound'
<1>1. /\ d.names \in DOMAIN index /\ index[d.names] = d.saw /\ d.attests = d.saw.run
      /\ d.strict => d.author = d.saw.critic
  BY DEF Imported, Accepts, Loads
<1>2. \A e \in decisions : d.names = e.names \/ d.id = e.id => d = e
  <2>1. ASSUME NEW e \in decisions, d.id = e.id PROVE d = e
    BY <2>1 DEF Imported
  <2>2. ASSUME NEW e \in decisions, d.names = e.names PROVE d = e
    <3>1. Decided(d.names)
      BY <2>2 DEF Decided
    <3>2. d \in decisions
      BY <3>1 DEF Imported
    <3>3. QED
      BY <2>2, <3>2 DEF ReviewInvariant, DecisionsSound, DecidedOnWhatWasSeen
  <2>3. QED
    BY <2>1, <2>2
<1>3. \A e \in decisions : /\ e.names \in DOMAIN index /\ index[e.names] = e.saw /\ e.attests = e.saw.run
                           /\ e.strict => e.author = e.saw.critic
  BY DEF ReviewInvariant, DecisionsSound, DecidedOnWhatWasSeen
<1>4. \A e, f \in decisions : e.names = f.names \/ e.id = f.id => e = f
  BY DEF ReviewInvariant, DecisionsSound, DecidedOnWhatWasSeen
<1>5. DecisionsSound'
  BY <1>1, <1>2, <1>3, <1>4 DEF DecisionsSound, DecidedOnWhatWasSeen
<1>6. ExportSound'
  BY DEF ExportSound, ReviewInvariant, BundleId
<1>7. QED
  BY <1>5, <1>6

(* What a decision does to the task.                                         *)
LEMMA Applied ==
  ASSUME ReviewInvariant, NEW d \in Documents, Imported(d), Apply(d),
         decisions' = decisions \cup {d}, UNCHANGED <<alone, runs, setups>>
  PROVE  task' \in ReviewTasks /\ ReviewTaskSound' /\ SetupsSound'
<1>1. task \in ReviewTasks /\ d.id \in DecisionIds /\ d.verdict \in Verdicts
  BY DEF ReviewInvariant, ReviewTypes, Documents
<1>2. CASE Applies(d)
  <2>1. task' = [task EXCEPT !.status = StatusOf(d.verdict), !.pending = None, !.decision = d.id]
    BY <1>2 DEF Apply
  <2>2. StatusOf(d.verdict) \in {"done", "rework_required", "escalated"}
        /\ (StatusOf(d.verdict) = "done" => d.verdict = "approve")
    BY <1>1 DEF StatusOf, Verdicts
  <2>3. /\ task' \in ReviewTasks /\ task'.status = StatusOf(d.verdict) /\ task'.pending = None
        /\ task'.decision = d.id
    BY <1>1, <2>1, <2>2 DEF ReviewTasks
  <2>4. task.pending = d.names /\ d.names # None
    BY <1>2, ReviewConstants DEF Applies, Documents, BundleIds
  <2>5. d.names \in {TRUE} \X (1..Len(runs)) /\ (alone => d.names = <<TRUE, Len(runs)>>)
    BY <2>4 DEF ReviewInvariant, ReviewTaskSound
  <2>6. d \in decisions'
    OBVIOUS
  <2>7. ReviewTaskSound'
    BY <2>2, <2>3, <2>5, <2>6 DEF ReviewTaskSound, ApprovedAsRun
  <2>8. SetupsSound'
    BY <2>3 DEF ReviewInvariant, SetupsSound
  <2>9. QED
    BY <2>3, <2>7, <2>8
<1>3. CASE ~Applies(d)
  <2>1. task' = task
    BY <1>3 DEF Apply
  <2>2. ReviewTaskSound' /\ SetupsSound'
    BY <2>1, TaskStays
  <2>3. QED
    BY <1>1, <2>1, <2>2
<1>4. QED
  BY <1>2, <1>3

LEMMA ImportKeeps ==
  ASSUME ReviewInvariant, NEW d \in documents, Import(d)
  PROVE  ReviewInvariant'
<1>1. d \in Documents
  BY DEF ReviewInvariant, ReviewTypes
<1>2. /\ Imported(d) /\ Apply(d) /\ decisions' = decisions \cup {d}
      /\ UNCHANGED <<alone, section, runs, setups, files, index, export, documents, critic, exports,
                     written, changes>>
  BY DEF Import
<1>3. ExportSound' /\ DecisionsSound'
  BY <1>1, <1>2, Recorded
<1>4. task' \in ReviewTasks /\ ReviewTaskSound' /\ SetupsSound'
  BY <1>1, <1>2, Applied
<1>5. ReviewTypes'
  BY <1>1, <1>2, <1>4 DEF ReviewInvariant, ReviewTypes, BundleFile
<1>6. QED
  BY <1>3, <1>4, <1>5 DEF ReviewInvariant

LEMMA ImportDiesKeeps ==
  ASSUME ReviewInvariant, NEW d \in documents, ImportDies(d)
  PROVE  ReviewInvariant'
<1>1. d \in Documents
  BY DEF ReviewInvariant, ReviewTypes
<1>2. /\ Imported(d) /\ decisions' = decisions \cup {d}
      /\ UNCHANGED <<alone, section, task, runs, setups, files, index, export, documents, critic,
                     exports, written, changes>>
  BY DEF ImportDies
<1>3. ExportSound' /\ DecisionsSound'
  BY <1>1, <1>2, Recorded
<1>4. ReviewTaskSound' /\ SetupsSound'
  BY <1>2, TaskStays
<1>5. ReviewTypes'
  BY <1>1, <1>2 DEF ReviewInvariant, ReviewTypes, BundleFile
<1>6. QED
  BY <1>3, <1>4, <1>5 DEF ReviewInvariant

LEMMA CriticRunKeeps ==
  ASSUME ReviewInvariant, CriticRun
  PROVE  ReviewInvariant'
<1>1. index[task.pending] \in Bundles /\ section.critic \in Critics /\ Decided(task.pending) \in BOOLEAN
  BY DEF CriticRun, Loads, ReviewInvariant, ReviewTypes, BundleFile, Critics, Decided
<1>2. critic' \in CriticStates
  BY <1>1 DEF CriticRun, CriticStates
<1>3. ReviewTypes'
  BY <1>2 DEF CriticRun, ReviewInvariant, ReviewTypes, BundleFile
<1>4. QED
  BY <1>3, PapersMove DEF CriticRun

LEMMA CriticAnswersKeeps ==
  ASSUME ReviewInvariant, CriticAnswers
  PROVE  ReviewInvariant'
<1>1. critic \in CriticStates /\ written' \in Nat
  BY DEF CriticAnswers, ReviewInvariant, ReviewTypes
<1>2. PICK bundle \in Bundles : bundle = critic.bundle
  BY <1>1 DEF CriticStates
<1>3. PICK verdict \in Verdicts :
        LET d == [id |-> <<bundle.made, verdict>>, at |-> written', verdict |-> verdict,
                  saw |-> bundle, strict |-> TRUE, names |-> BundleId(bundle),
                  attests |-> bundle.run, author |-> critic.by] IN
        /\ documents' = {e \in documents : e.id # d.id} \cup {d}
        /\ critic' = [critic EXCEPT !.answer = d]
  BY <1>2 DEF CriticAnswers
<1> DEFINE d == [id |-> <<bundle.made, verdict>>, at |-> written', verdict |-> verdict,
                 saw |-> bundle, strict |-> TRUE, names |-> BundleId(bundle),
                 attests |-> bundle.run, author |-> critic.by]
<1>4. d \in Documents
  <2>1. <<bundle.made, verdict>> \in DecisionIds
    BY DEF Bundles, Verdicts, DecisionIds
  <2>2. BundleId(bundle) \in BundleIds /\ bundle.run \in 1..MaxRuns
    BY DEF Bundles, BundleId, BundleIds
  <2>3. critic.by \in Critics
    BY <1>1 DEF CriticStates
  <2>4. QED
    BY <1>1, <2>1, <2>2, <2>3 DEF Documents
<1>5. PICK e : e = d
  OBVIOUS
<1> HIDE DEF d
<1>6. documents' \subseteq documents \cup {e} /\ critic' = [critic EXCEPT !.answer = e]
  BY <1>3, <1>5 DEF d
<1>7. critic' \in CriticStates /\ documents' \subseteq Documents
  BY <1>1, <1>4, <1>5, <1>6 DEF CriticStates, ReviewInvariant, ReviewTypes
<1>8. ReviewTypes'
  BY <1>1, <1>7 DEF CriticAnswers, ReviewInvariant, ReviewTypes, BundleFile
<1>9. QED
  BY <1>8, PapersMove DEF CriticAnswers

LEMMA CriticImportsKeeps ==
  ASSUME ReviewInvariant, CriticImports
  PROVE  ReviewInvariant'
<1>1. PICK d \in Documents : d = critic.answer
  BY DEF CriticImports, ReviewInvariant, ReviewTypes, CriticStates
<1>2. /\ UNCHANGED <<alone, section, runs, setups, files, index, export, documents, exports, written, changes>>
      /\ critic' = None
  BY DEF CriticImports
<1>3. CASE Imported(d)
  <2>1. decisions' = decisions \cup {d} /\ Apply(d)
    BY <1>1, <1>3 DEF CriticImports
  <2>2. ExportSound' /\ DecisionsSound'
    BY <1>2, <1>3, <2>1, Recorded
  <2>3. task' \in ReviewTasks /\ ReviewTaskSound' /\ SetupsSound'
    BY <1>2, <1>3, <2>1, Applied
  <2>4. ReviewTypes'
    BY <1>2, <2>1, <2>3 DEF ReviewInvariant, ReviewTypes, BundleFile
  <2>5. QED
    BY <2>2, <2>3, <2>4 DEF ReviewInvariant
<1>4. CASE ~Imported(d)
  <2>1. UNCHANGED <<task, decisions>>
    BY <1>1, <1>4 DEF CriticImports
  <2>2. ReviewTypes'
    BY <1>2, <2>1 DEF ReviewInvariant, ReviewTypes, BundleFile
  <2>3. QED
    BY <1>2, <2>1, <2>2, PapersMove
<1>5. QED
  BY <1>3, <1>4

LEMMA CriticEndsKeeps ==
  ASSUME ReviewInvariant, CriticEnds
  PROVE  ReviewInvariant'
<1>1. ReviewTypes'
  BY DEF CriticEnds, ReviewInvariant, ReviewTypes, BundleFile
<1>2. QED
  BY <1>1, PapersMove DEF CriticEnds

-----------------------------------------------------------------------------
(* review_protocol.py: in every reachable state a recorded decision is on    *)
(* the indexed bundle, a pending one is on a run of the task, and it is on   *)
(* the last where the commands that set reviews up run one at a time.        *)
THEOREM ReviewIsSound == ReviewSpec => []ReviewInvariant
<1>1. ASSUME ReviewInvariant, [ReviewNext]_reviewVars PROVE ReviewInvariant'
  <2>1. CASE Configure \/ AttemptLimit \/ Work
    BY <1>1, <2>1, ConfigureKeeps, AttemptLimitKeeps, WorkKeeps
  <2>2. CASE \E run \in 1..Len(runs), read \in InUse : ExportFile(run, read)
    BY <1>1, <2>2, ExportFileKeeps
  <2>3. CASE ExportIndex \/ ExportDies
    BY <1>1, <2>3, ExportIndexKeeps, ExportDiesKeeps
  <2>11. CASE \E run \in 1..Len(runs) : TakeRun(run)
    BY <1>1, <2>11, TakeRunKeeps
  <2>12. CASE \E e \in setups : Attach(e) \/ SetupBreaks(e) \/ SetupFails(e) \/ SetupEnds(e)
    BY <1>1, <2>12, AttachKeeps, SetupBreaksKeeps, SetupFailsKeeps, SetupEndsKeeps
  <2>4. CASE \E id \in DOMAIN files, mistake \in Mistakes : Write(files[id], mistake)
    BY <1>1, <2>4, WriteKeeps
  <2>5. CASE \E d \in documents : Import(d) \/ ImportDies(d)
    BY <1>1, <2>5, ImportKeeps, ImportDiesKeeps
  <2>6. CASE CriticRun \/ CriticAnswers \/ CriticImports \/ CriticEnds
    BY <1>1, <2>6, CriticRunKeeps, CriticAnswersKeeps, CriticImportsKeeps, CriticEndsKeeps
  <2>7. CASE \E d \in decisions : ConfirmRework(d)
    BY <1>1, <2>7, ConfirmReworkKeeps
  <2>8. CASE ResolveEscalation \/ Retry
    BY <1>1, <2>8, ResolveEscalationKeeps, RetryKeeps
  <2>9. CASE UNCHANGED reviewVars
    <3>1. ReviewTypes'
      BY <1>1, <2>9 DEF reviewVars, ReviewInvariant, ReviewTypes, BundleFile
    <3>2. QED
      BY <1>1, <2>9, <3>1, PapersMove DEF reviewVars
  <2>10. QED
    BY <1>1, <2>1, <2>2, <2>3, <2>4, <2>5, <2>6, <2>7, <2>8, <2>9, <2>11, <2>12 DEF ReviewNext
<1>2. QED
  BY <1>1, ReviewFirst, PTL DEF ReviewSpec

(* Whatever is exported again, written twice or imported late, a review is   *)
(* decided on the bundle its author saw, and a task that had to be reviewed  *)
(* is done only by the approval of a run of its own: of the last one, where  *)
(* the commands that set reviews up run one at a time.                      *)
THEOREM ReviewsOfTheRun == ReviewSpec => []ReviewsAreOfTheRun
<1>1. ReviewInvariant => ReviewsAreOfTheRun
  BY DEF ReviewInvariant, ReviewsAreOfTheRun, DecisionsSound, ReviewTaskSound
<1>2. QED
  BY <1>1, ReviewIsSound, PTL

-----------------------------------------------------------------------------
(***************************************************************************)
(* Lists laid out one after the other, as FlattenSeq does it: where each   *)
(* begins, and that every position lies in one of them.                    *)
(***************************************************************************)
(* What holds of 0, and of a number if of the one before, holds of all.      *)
LEMMA NaturalsByStep ==
  ASSUME NEW G, 0 \in G, \A n \in Nat \ {0} : n - 1 \in G => n \in G
  PROVE  Nat \subseteq G
<1> DEFINE B == Nat \ G
<1> SUFFICES ASSUME B # {} PROVE FALSE
  OBVIOUS
<1>1. PICK n \in B : \A m \in B : n <= m
  BY LeastNatural
<1>2. n - 1 \in Nat /\ n - 1 \notin B
  BY <1>1
<1>3. QED
  BY <1>1, <1>2

(* The first p of some lists, one after the other; where the m-th begins.    *)
Laid(s, p) == FlattenSeq([i \in 1..p |-> s[i]])

FirstOf(s, m) == Len(Laid(s, m - 1)) + 1

AreLists(s, n, S) == \A i \in 1..n : s[i] \in Seq(S)

LEMMA NothingLaid ==
  ASSUME NEW s PROVE Laid(s, 0) = <<>>
<1>1. [i \in 1..0 |-> s[i]] = <<>>
  OBVIOUS
<1>2. QED
  BY <1>1 DEF Laid, FlattenSeq

(* FlattenSeq is its own recursion, on any list of sequences.                *)
Flattens(f, s, n) == f = [i \in 1..n |-> IF i = 1 THEN s[i] ELSE f[i-1] \o s[i]]

LEMMA FlattenExists ==
  ASSUME NEW s, NEW n \in Nat
  PROVE  \E f : Flattens(f, s, n)
<1> DEFINE G == {m \in Nat : \E f : Flattens(f, s, m)}
<1>1. 0 \in G
  <2>1. Flattens([i \in 1..0 |-> s[i]], s, 0)
    BY DEF Flattens
  <2>2. QED
    BY <2>1
<1>2. ASSUME NEW m \in Nat \ {0}, m - 1 \in G PROVE m \in G
  <2>1. PICK f : Flattens(f, s, m - 1)
    BY <1>2
  <2> DEFINE g == [i \in 1..m |-> IF i = m THEN IF i = 1 THEN s[i] ELSE f[m - 1] \o s[i]
                                  ELSE f[i]]
  <2>2. \A i \in 1..(m - 1) : g[i] = f[i]
    OBVIOUS
  <2>3. \A i \in 1..m : g[i] = IF i = 1 THEN s[i] ELSE g[i - 1] \o s[i]
    <3> SUFFICES ASSUME NEW i \in 1..m PROVE g[i] = IF i = 1 THEN s[i] ELSE g[i - 1] \o s[i]
      OBVIOUS
    <3>1. CASE i = m
      BY <3>1
    <3>2. CASE i \in 1..(m - 1)
      <4>1. f[i] = IF i = 1 THEN s[i] ELSE f[i - 1] \o s[i]
        BY <2>1, <3>2 DEF Flattens
      <4>2. i # 1 => g[i - 1] = f[i - 1]
        BY <2>2, <3>2
      <4>3. QED
        BY <2>2, <3>2, <4>1, <4>2
    <3>3. QED
      BY <3>1, <3>2
  <2>4. Flattens(g, s, m)
    BY <2>3 DEF Flattens
  <2>5. QED
    BY <2>4
<1> HIDE DEF G
<1>3. n \in G
  BY <1>1, <1>2, NaturalsByStep
<1>4. QED
  BY <1>3 DEF G

LEMMA FlattensAt ==
  ASSUME NEW s, NEW n \in Nat, NEW f, Flattens(f, s, n), NEW i \in 1..n
  PROVE  f[i] = IF i = 1 THEN s[i] ELSE f[i - 1] \o s[i]
BY DEF Flattens

LEMMA FlattenAgrees ==
  ASSUME NEW s, NEW n \in Nat, NEW m \in 0..n, NEW f, NEW g, Flattens(f, s, n), Flattens(g, s, m)
  PROVE  \A i \in 1..m : f[i] = g[i]
<1> DEFINE G == {k \in Nat : k \in 1..m => f[k] = g[k]}
<1>1. 0 \in G
  OBVIOUS
<1>2. ASSUME NEW k \in Nat \ {0}, k - 1 \in G PROVE k \in G
  <2> SUFFICES ASSUME k \in 1..m PROVE f[k] = g[k]
    OBVIOUS
  <2>0. k \in 1..n /\ n \in Nat /\ m \in Nat
    OBVIOUS
  <2>1. f[k] = IF k = 1 THEN s[k] ELSE f[k - 1] \o s[k]
    BY <2>0, FlattensAt
  <2>2. g[k] = IF k = 1 THEN s[k] ELSE g[k - 1] \o s[k]
    BY <2>0, FlattensAt
  <2>3. k # 1 => f[k - 1] = g[k - 1]
    BY <1>2
  <2>4. QED
    BY <2>1, <2>2, <2>3
<1> HIDE DEF G
<1>3. Nat \subseteq G
  BY <1>1, <1>2, NaturalsByStep
<1>4. QED
  BY <1>3 DEF G

LEMMA LaidIs ==
  ASSUME NEW s, NEW p \in Nat \ {0}
  PROVE  \E f : Flattens(f, s, p) /\ Laid(s, p) = f[p]
<1>1. PICK t : t = [i \in 1..p |-> s[i]]
  OBVIOUS
<1>2. Len(t) = p /\ \A i \in 1..p : t[i] = s[i]
  BY <1>1
<1> DEFINE f == CHOOSE f : f = [i \in 1..Len(t) |-> IF i = 1 THEN t[i] ELSE f[i-1] \o t[i]]
<1>3. Laid(s, p) = f[p]
  BY <1>1, <1>2 DEF Laid, FlattenSeq
<1>4. \E g : g = [i \in 1..Len(t) |-> IF i = 1 THEN t[i] ELSE g[i-1] \o t[i]]
  BY <1>2, FlattenExists DEF Flattens
<1>5. f = [i \in 1..Len(t) |-> IF i = 1 THEN t[i] ELSE f[i-1] \o t[i]]
  BY <1>4
<1> HIDE DEF f
<1>6. f = [i \in 1..p |-> IF i = 1 THEN t[i] ELSE f[i-1] \o t[i]]
  BY <1>2, <1>5
<1>7. f = [i \in 1..p |-> IF i = 1 THEN s[i] ELSE f[i-1] \o s[i]]
  BY <1>2, <1>6
<1>8. QED
  BY <1>3, <1>7 DEF Flattens

LEMMA LaidNext ==
  ASSUME NEW s, NEW p \in Nat \ {0}, <<>> \o s[1] = s[1]
  PROVE  Laid(s, p) = Laid(s, p - 1) \o s[p]
<1>1. PICK f : Flattens(f, s, p) /\ Laid(s, p) = f[p]
  BY LaidIs
<1>2. f[p] = IF p = 1 THEN s[p] ELSE f[p - 1] \o s[p]
  <2>1. p \in 1..p
    OBVIOUS
  <2>2. QED
    BY <1>1, <2>1, FlattensAt
<1>3. CASE p = 1
  <2>1. Laid(s, p - 1) = <<>>
    BY <1>3, NothingLaid
  <2>2. QED
    BY <1>1, <1>2, <1>3, <2>1
<1>4. CASE p # 1
  <2>1. p - 1 \in Nat \ {0} /\ p - 1 \in 0..p
    BY <1>4
  <2>2. PICK g : Flattens(g, s, p - 1) /\ Laid(s, p - 1) = g[p - 1]
    BY <2>1, LaidIs
  <2>3. f[p - 1] = g[p - 1]
    BY <1>1, <2>1, <2>2, FlattenAgrees
  <2>4. QED
    BY <1>1, <1>2, <1>4, <2>2, <2>3
<1>5. QED
  BY <1>3, <1>4

LEMMA LaidSequence ==
  ASSUME NEW S, NEW s, NEW n \in Nat, AreLists(s, n, S)
  PROVE  /\ \A p \in 0..n : Laid(s, p) \in Seq(S)
         /\ \A p \in 1..n : /\ Laid(s, p) = Laid(s, p - 1) \o s[p]
                            /\ FirstOf(s, p + 1) = FirstOf(s, p) + Len(s[p])
<1>1. \A i \in 1..n : s[i] \in Seq(S)
  BY DEF AreLists
<1>2. ASSUME NEW i \in 1..n PROVE Laid(s, i) = Laid(s, i - 1) \o s[i]
  <2>1. 1 \in 1..n /\ i \in Nat \ {0}
    OBVIOUS
  <2>2. s[1] \in Seq(S)
    BY <1>1, <2>1
  <2>3. <<>> \o s[1] = s[1]
    BY <2>2, ConcatEmptySeq
  <2>4. QED
    BY <2>1, <2>3, LaidNext
<1> DEFINE G == {i \in Nat : i <= n => Laid(s, i) \in Seq(S)}
<1>3. 0 \in G
  BY NothingLaid, EmptySeq
<1>4. ASSUME NEW i \in Nat \ {0}, i - 1 \in G PROVE i \in G
  <2> SUFFICES ASSUME i <= n PROVE Laid(s, i) \in Seq(S)
    OBVIOUS
  <2>1. i \in 1..n /\ i - 1 <= n
    OBVIOUS
  <2>2. Laid(s, i) = Laid(s, i - 1) \o s[i]
    BY <1>2, <2>1
  <2>3. Laid(s, i - 1) \in Seq(S) /\ s[i] \in Seq(S)
    BY <1>1, <1>4, <2>1
  <2>4. Laid(s, i - 1) \o s[i] \in Seq(S)
    BY <2>3, ConcatProperties, Zenon
  <2>5. QED
    BY <2>2, <2>4, Zenon
<1> HIDE DEF G
<1>5. Nat \subseteq G
  BY <1>3, <1>4, NaturalsByStep
<1>6. \A i \in 0..n : Laid(s, i) \in Seq(S)
  BY <1>5 DEF G
<1>7. ASSUME NEW p \in 1..n
      PROVE  FirstOf(s, p + 1) = FirstOf(s, p) + Len(s[p])
  <2>1. p \in 0..n /\ p - 1 \in 0..n /\ p + 1 - 1 = p
    OBVIOUS
  <2>2. PICK a : a = Laid(s, p - 1)
    OBVIOUS
  <2>3. PICK b : b = s[p]
    OBVIOUS
  <2>4. a \in Seq(S) /\ b \in Seq(S) /\ Laid(s, p) = a \o b
    BY <1>1, <1>2, <1>6, <2>1, <2>2, <2>3
  <2>5. Len(a) \in Nat /\ Len(b) \in Nat /\ Len(a \o b) = Len(a) + Len(b)
    BY <2>4, ConcatProperties, LenProperties, Zenon
  <2>6. FirstOf(s, p + 1) = Len(a \o b) + 1 /\ FirstOf(s, p) = Len(a) + 1
    <3>1. FirstOf(s, p + 1) = Len(Laid(s, p)) + 1
      <4>1. PICK y : y = p + 1
        OBVIOUS
      <4>2. FirstOf(s, y) = Len(Laid(s, y - 1)) + 1 /\ y - 1 = p
        BY <4>1 DEF FirstOf
      <4>3. QED
        BY <4>1, <4>2, Zenon
    <3>2. FirstOf(s, p) = Len(a) + 1
      BY <2>2 DEF FirstOf
    <3>3. QED
      BY <2>4, <3>1, <3>2
  <2>7. PICK c \in Nat : c = Len(a)
    BY <2>5
  <2>8. PICK d \in Nat : d = Len(b)
    BY <2>5
  <2>9. FirstOf(s, p) = c + 1 /\ Len(s[p]) = d
    BY <2>3, <2>6, <2>7, <2>8
  <2>10. FirstOf(s, p + 1) = c + d + 1
    BY <2>5, <2>6, <2>7, <2>8
  <2>11. c + d + 1 = (c + 1) + d
    OBVIOUS
  <2>12. QED
    BY <2>9, <2>10, <2>11, Zenon
<1>8. QED
  BY <1>2, <1>6, <1>7

(* Where the elements of each list stand when all are laid out.              *)
LEMMA LaidLines ==
  ASSUME NEW S, NEW s, NEW n \in Nat, AreLists(s, n, S), NEW p \in 0..n,
         NEW m \in 1..p, NEW k \in 1..Len(s[m]), NEW x, x = FirstOf(s, m) + k - 1
  PROVE  x \in 1..Len(Laid(s, p)) /\ Laid(s, p)[x] = s[m][k]
<1> DEFINE Holds(q) == m <= q =>
             x \in 1..Len(Laid(s, q)) /\ Laid(s, q)[x] = s[m][k]
           G == {q \in Nat : q <= n => Holds(q)}
<1>1. 0 \in G
  OBVIOUS
<1>2. ASSUME NEW q \in Nat \ {0}, q - 1 \in G PROVE q \in G
  <2> SUFFICES ASSUME q <= n, m <= q
               PROVE  x \in 1..Len(Laid(s, q)) /\ Laid(s, q)[x] = s[m][k]
    OBVIOUS
  <2>1. q \in 1..n /\ q \in 0..n /\ q - 1 \in 0..n /\ m \in 1..n /\ q - 1 <= n
    OBVIOUS
  <2>2. PICK a : a = Laid(s, q - 1)
    OBVIOUS
  <2>3. PICK b : b = s[q]
    OBVIOUS
  <2>4. a \in Seq(S) /\ Laid(s, q) = a \o b /\ b \in Seq(S)
    BY <2>1, <2>2, <2>3, LaidSequence DEF AreLists
  <2>5. /\ Len(a) \in Nat /\ Len(b) \in Nat
        /\ Len(a \o b) = Len(a) + Len(b)
        /\ \A i \in 1..Len(a) + Len(b) : (a \o b)[i] = IF i <= Len(a) THEN a[i] ELSE b[i - Len(a)]
    BY <2>4, ConcatProperties, LenProperties, Zenon
  <2>6. CASE m = q
    <3>1. FirstOf(s, m) = Len(a) + 1
      BY <2>2, <2>6 DEF FirstOf
    <3>2. k \in 1..Len(b)
      BY <2>3, <2>6
    <3>3. x = Len(a) + k
      BY <2>5, <3>1, <3>2
    <3>4. Len(a) + k \in 1..(Len(a) + Len(b)) /\ (a \o b)[Len(a) + k] = b[k]
      BY <2>5, <3>2
    <3>5. QED
      BY <2>3, <2>4, <2>5, <2>6, <3>3, <3>4
  <2>7. CASE m \in 1..(q - 1)
    <3>1. x \in 1..Len(a) /\ a[x] = s[m][k]
      BY <1>2, <2>1, <2>2, <2>7
    <3>2. x \in 1..(Len(a) + Len(b)) /\ (a \o b)[x] = a[x]
      BY <2>5, <3>1
    <3>3. QED
      BY <2>4, <2>5, <3>1, <3>2
  <2>8. QED
    BY <2>6, <2>7
<1> HIDE DEF G
<1>3. Nat \subseteq G
  BY <1>1, <1>2, NaturalsByStep
<1>4. Holds(p)
  BY <1>3 DEF G
<1>5. QED
  BY <1>4

LEMMA LaidCovers ==
  ASSUME NEW S, NEW s, NEW n \in Nat, AreLists(s, n, S), NEW p \in 0..n
  PROVE  \A i \in 1..Len(Laid(s, p)) : \E m \in 1..p, k \in Nat :
           k \in 1..Len(s[m]) /\ i = FirstOf(s, m) + k - 1
<1> DEFINE Holds(q) == \A i \in 1..Len(Laid(s, q)) : \E m \in 1..q, k \in Nat :
                         k \in 1..Len(s[m]) /\ i = FirstOf(s, m) + k - 1
           G == {q \in Nat : q <= n => Holds(q)}
<1>1. 0 \in G
  <2>1. 1..Len(Laid(s, 0)) = {}
    BY NothingLaid, EmptySeq
  <2>2. QED
    BY <2>1
<1>2. ASSUME NEW q \in Nat \ {0}, q - 1 \in G PROVE q \in G
  <2> SUFFICES ASSUME q <= n, NEW i \in 1..Len(Laid(s, q))
               PROVE  \E m \in 1..q, k \in Nat :
                        k \in 1..Len(s[m]) /\ i = FirstOf(s, m) + k - 1
    OBVIOUS
  <2>1. q \in 1..n /\ q \in 0..n /\ q - 1 \in 0..n /\ q - 1 <= n
    OBVIOUS
  <2>2. PICK a : a = Laid(s, q - 1)
    OBVIOUS
  <2>3. PICK b : b = s[q]
    OBVIOUS
  <2>4. a \in Seq(S) /\ Laid(s, q) = a \o b /\ b \in Seq(S)
    BY <2>1, <2>2, <2>3, LaidSequence DEF AreLists
  <2>5. Len(a) \in Nat /\ Len(b) \in Nat /\ Len(a \o b) = Len(a) + Len(b)
    BY <2>4, ConcatProperties, LenProperties, Zenon
  <2>6. CASE i <= Len(a)
    <3>1. i \in 1..Len(a)
      BY <2>4, <2>5, <2>6
    <3>2. PICK m \in 1..(q - 1), k \in Nat : k \in 1..Len(s[m]) /\ i = FirstOf(s, m) + k - 1
      BY <1>2, <2>1, <2>2, <3>1
    <3>3. m \in 1..q
      OBVIOUS
    <3>4. QED
      BY <3>2, <3>3
  <2>7. CASE i > Len(a)
    <3>1. PICK k : k = i - Len(a)
      OBVIOUS
    <3>2. FirstOf(s, q) = Len(a) + 1
      BY <2>2 DEF FirstOf
    <3>3. k \in Nat /\ k \in 1..Len(s[q]) /\ i = FirstOf(s, q) + k - 1
      BY <2>3, <2>4, <2>5, <2>7, <3>1, <3>2
    <3>4. q \in 1..q
      OBVIOUS
    <3>5. QED
      BY <3>3, <3>4
  <2>8. i \in Nat
    BY <2>4, <2>5
  <2>9. QED
    BY <2>5, <2>6, <2>7, <2>8
<1> HIDE DEF G, Holds
<1>3. Nat \subseteq G
  BY <1>1, <1>2, NaturalsByStep
<1>4. p \in G /\ p <= n
  BY <1>3
<1>5. Holds(p)
  BY <1>4 DEF G
<1>6. QED
  BY <1>5 DEF Holds

(* Lists of one element each.                                                *)
LEMMA LaidOnes ==
  ASSUME NEW S, NEW s, NEW n \in Nat, AreLists(s, n, S), \A i \in 1..n : Len(s[i]) = 1
  PROVE  /\ Len(Laid(s, n)) = n
         /\ \A i \in 1..n : Laid(s, n)[i] = s[i][1]
<1> DEFINE G == {q \in Nat : q <= n => Len(Laid(s, q)) = q}
<1>1. 0 \in G
  BY NothingLaid, EmptySeq
<1>2. ASSUME NEW q \in Nat \ {0}, q - 1 \in G PROVE q \in G
  <2> SUFFICES ASSUME q <= n PROVE Len(Laid(s, q)) = q
    OBVIOUS
  <2>1. q \in 1..n /\ q - 1 \in 0..n /\ q - 1 <= n
    OBVIOUS
  <2>2. PICK a : a = Laid(s, q - 1)
    OBVIOUS
  <2>3. PICK b : b = s[q]
    OBVIOUS
  <2>4. a \in Seq(S) /\ Laid(s, q) = a \o b /\ b \in Seq(S) /\ Len(b) = 1
    BY <2>1, <2>2, <2>3, LaidSequence DEF AreLists
  <2>5. Len(a \o b) = Len(a) + Len(b)
    BY <2>4, ConcatProperties, Zenon
  <2>6. Len(a) = q - 1
    BY <1>2, <2>1, <2>2
  <2>7. QED
    BY <2>4, <2>5, <2>6
<1> HIDE DEF G
<1>3. Nat \subseteq G
  BY <1>1, <1>2, NaturalsByStep
<1>4. \A q \in 0..n : Len(Laid(s, q)) = q
  BY <1>3 DEF G
<1>5. ASSUME NEW i \in 1..n PROVE Laid(s, n)[i] = s[i][1]
  <2>1. i - 1 \in 0..n /\ 1 \in 1..Len(s[i]) /\ n \in 0..n /\ i \in 1..n
    OBVIOUS
  <2>2. FirstOf(s, i) = i - 1 + 1
    BY <1>4, <2>1 DEF FirstOf
  <2>3. PICK k \in 1..Len(s[i]) : k = 1
    BY <2>1
  <2>4. i = FirstOf(s, i) + k - 1
    BY <2>2, <2>3
  <2>5. Laid(s, n)[i] = s[i][k]
    BY <2>1, <2>4, LaidLines
  <2>6. QED
    BY <2>3, <2>5
<1>6. QED
  BY <1>4, <1>5

-----------------------------------------------------------------------------
(***************************************************************************)
(* PatchPolicy: where the lines of each change stand in the patch, and what *)
(* the reader knows there.                                                 *)
(***************************************************************************)
Prints == [i \in DOMAIN edits |-> Printed(edits[i])]

\* The git line of a change.
HeaderOf(j) == FirstOf(Prints, j)

\* Lines of the hunk, from the k-th on, that count for one side.
LeftOf(hunk, k, markers) ==
    Cardinality({i \in k..Len(hunk) : hunk[i][1].marker \in markers})

ScanTypes ==
    /\ edits \in Seq(Changes)
    /\ patch = FlattenSeq(Prints)
    /\ position \in Nat \ {0}
    /\ pendingHeader \in BOOLEAN /\ problems \in BOOLEAN

(* A header that named no path of its change, or only the half it splits into. *)
StillToRead(j) == pendingHeader \/ Halved(HeaderNames(j))

(* Past a header the paths of its change are known, or its header is still to *)
(* be made up for, or the patch is not readable any more, or nothing else of  *)
(* the patch names its paths.                                                *)
HeadersAreRead ==
    \A j \in DOMAIN edits :
        position > HeaderOf(j) =>
            \/ problems
            \/ {edits[j].from, edits[j].to} \subseteq scanned
            \/ edits[j].hunk = <<>> /\ Halved(HeaderNames(j))
            \/ StillToRead(j) /\ position <= HeaderOf(j) + 2

(* No count of an earlier hunk reaches into the header of a change.           *)
CountsAreReset ==
    \A j \in DOMAIN edits :
        position \in {HeaderOf(j) + 1, HeaderOf(j) + 2} => remainingOld = 0 /\ remainingNew = 0

(* Without separators in the files, the counts are those of the lines to      *)
(* come, and nothing but headers was taken for a header.                      *)
CountsAreExact ==
    \A j \in DOMAIN edits : edits[j].hunk # <<>> =>
        /\ position # HeaderOf(j) + 3
        /\ \A k \in 1..(Len(edits[j].hunk) + 1) : position = HeaderOf(j) + 4 + k =>
             /\ remainingOld = LeftOf(edits[j].hunk, k, {" ", "-"})
             /\ remainingNew = LeftOf(edits[j].hunk, k, {" ", "+"})

OnlyHeadersAreRead ==
    /\ ~problems /\ scanned \subseteq Touched
    /\ pendingHeader => \E j \in DOMAIN edits :
         edits[j].hunk # <<>> /\ position \in {HeaderOf(j) + 1, HeaderOf(j) + 2}

ReportIsOfPatch ==
    report.done =>
        /\ position > Len(patch)
        /\ report.accepted = AcceptsPatch(report.allowed, report.own)

ScanInvariant ==
    /\ ScanTypes /\ HeadersAreRead /\ CountsAreReset /\ ReportIsOfPatch
    /\ ~Split => CountsAreExact
    /\ ~Split /\ ~Ambiguous /\ ~Halfway => OnlyHeadersAreRead

\* The lines of a patch, and what one line of a file becomes.
Markers == {" ", "+", "-", "empty", "end", "m", "d", "@"}
Forms   == {"text", "new", "old", "git", "combined", "hunk"}

HunkMarkers == {" ", "+", "-", "end"}

PatchLines == [marker : Markers, form : Forms, paths : Seq(Names \cup {Decoy}), counts : Seq(Nat)]

LEMMA ShortLists ==
  ASSUME NEW S, NEW a \in S, NEW b \in S
  PROVE  /\ <<>> \in Seq(S)
         /\ <<a>> \in Seq(S) /\ Len(<<a>>) = 1 /\ <<a>>[1] = a
         /\ <<a, b>> \in Seq(S)
OBVIOUS

LEMMA GitLineIs ==
  ASSUME NEW marker \in Markers, NEW form \in Forms,
         NEW paths \in Seq(Names \cup {Decoy}), NEW counts \in Seq(Nat)
  PROVE  GitLine(marker, form, paths, counts) \in PatchLines
BY DEF GitLine, PatchLines

LEMMA TextIs ==
  ASSUME NEW marker \in Markers,
         NEW form \in Forms
  PROVE  Text(marker, form) \in PatchLines /\ Text(marker, form).marker = marker
<1>1. Decoy \in Names \cup {Decoy} /\ 1 \in Nat
  OBVIOUS
<1>2. <<Decoy>> \in Seq(Names \cup {Decoy}) /\ <<1, 1>> \in Seq(Nat)
  BY <1>1, ShortLists, Zenon
<1>3. Text(marker, form) = GitLine(marker, form, <<Decoy>>, <<1, 1>>)
  BY DEF Text
<1>4. GitLine(marker, form, <<Decoy>>, <<1, 1>>) \in PatchLines
  BY <1>2, GitLineIs, Zenon
<1>5. Text(marker, form).marker = marker
  BY DEF Text, GitLine
<1>6. QED
  BY <1>3, <1>4, <1>5

\* What a broken line leaves.
LEMMA RestIs ==
  ASSUME NEW rest \in Rests
  PROVE  rest \in PatchLines
<1>1. Decoy \in Names \cup {Decoy} /\ 1 \in Nat
  OBVIOUS
<1>2. /\ <<Decoy>> \in Seq(Names \cup {Decoy}) /\ <<Decoy, Decoy>> \in Seq(Names \cup {Decoy})
      /\ <<>> \in Seq(Names \cup {Decoy})
      /\ <<>> \in Seq(Nat) /\ <<1, 1>> \in Seq(Nat)
  BY <1>1, ShortLists, Zenon
<1>3. /\ "m" \in Markers /\ "-" \in Markers /\ "empty" \in Markers /\ "end" \in Markers
      /\ "d" \in Markers /\ "@" \in Markers
      /\ "text" \in Forms /\ "old" \in Forms /\ "git" \in Forms /\ "hunk" \in Forms
      /\ "combined" \in Forms
  BY DEF Markers, Forms
<1>4. /\ Text("m", "text") \in PatchLines /\ Text("-", "old") \in PatchLines
      /\ Text("empty", "text") \in PatchLines /\ Text("end", "text") \in PatchLines
  BY <1>3, TextIs, Zenon
<1>5. /\ GitLine("d", "git", <<Decoy, Decoy>>, <<>>) \in PatchLines
      /\ GitLine("@", "hunk", <<>>, <<1, 1>>) \in PatchLines
      /\ GitLine("@", "hunk", <<>>, <<>>) \in PatchLines
      /\ GitLine("d", "combined", <<Decoy>>, <<>>) \in PatchLines
      /\ GitLine("d", "combined", <<>>, <<>>) \in PatchLines
  BY <1>2, <1>3, GitLineIs, Zenon
<1>6. QED
  BY <1>4, <1>5, Zenon DEF Rests

\* A line of a file is one line of the patch, unless it is broken.
LEMMA ItemIs ==
  ASSUME NEW item \in Items
  PROVE  /\ item \in Seq(PatchLines)
         /\ item \notin Broken =>
              /\ Len(item) = 1 /\ item[1].marker \in HunkMarkers
              /\ item[1].marker = "end" => item[1].form = "text"
<1>1. ASSUME NEW l \in PatchLines PROVE <<l>> \in Seq(PatchLines) /\ Len(<<l>>) = 1 /\ <<l>>[1] = l
  OBVIOUS
<1>2. ASSUME NEW l \in PatchLines, NEW k \in PatchLines PROVE <<l, k>> \in Seq(PatchLines)
  OBVIOUS
<1>3. CASE item \in {Context} \cup Added \cup Removed
  <2>1. PICK marker \in {" ", "+", "-"}, form \in {"text", "new", "old"} :
           item = <<Text(marker, form)>> /\ marker \in Markers /\ form \in Forms
    BY <1>3 DEF Markers, Forms, Context, Added, Removed
  <2>2. Text(marker, form) \in PatchLines /\ Text(marker, form).marker = marker
    BY <2>1, TextIs
  <2>3. marker \in HunkMarkers /\ marker # "end"
    BY DEF HunkMarkers
  <2>4. QED
    BY <1>1, <2>1, <2>2, <2>3
<1>4. CASE item = Unended
  <2>1. "end" \in Markers /\ "text" \in Forms /\ "end" \in HunkMarkers
    BY DEF Markers, Forms, HunkMarkers
  <2>2. Text("end", "text") \in PatchLines /\ Text("end", "text").marker = "end"
    BY <2>1, TextIs
  <2>3. Text("end", "text").form = "text"
    BY DEF Text, GitLine
  <2>4. item = <<Text("end", "text")>>
    BY <1>4 DEF Unended
  <2>5. QED
    BY <1>1, <2>1, <2>2, <2>3, <2>4
<1>5. CASE item \in Broken
  <2>1. PICK rest \in Rests : item = <<Text(" ", "text"), rest>>
    BY <1>5 DEF Broken
  <2>2. " " \in Markers /\ "text" \in Forms
    BY DEF Markers, Forms
  <2>3. Text(" ", "text") \in PatchLines /\ rest \in PatchLines
    BY <2>2, RestIs, TextIs, Zenon
  <2>4. item \in Seq(PatchLines)
    BY <1>2, <2>1, <2>3
  <2>5. QED
    BY <1>5, <2>4
<1>6. QED
  BY <1>3, <1>4, <1>5 DEF Items

LEMMA ChangeIs ==
  ASSUME NEW c \in Changes
  PROVE  /\ c.from \in Names /\ c.to \in Names
         /\ c.kind \in {"add", "delete"} => c.from = c.to
         /\ c.hunk \in Seq(Items)
BY DEF Changes

OldLine(c) == GitLine("-", "old", IF c.kind = "add" THEN <<>> ELSE <<c.from>>, <<>>)
NewLine(c) == GitLine("+", "new", IF c.kind = "delete" THEN <<>> ELSE <<c.to>>, <<>>)
HunkLine(c) == GitLine("@", "hunk", <<>>, <<Side(c.hunk, {" ", "-"}), Side(c.hunk, {" ", "+"})>>)

LEMMA SideIs ==
  ASSUME NEW hunk \in Seq(Items), NEW markers
  PROVE  Side(hunk, markers) \in Nat /\ Side(hunk, markers) = LeftOf(hunk, 1, markers)
<1>1. Len(hunk) \in Nat /\ DOMAIN hunk = 1..Len(hunk)
  BY LenProperties
<1>2. IsFiniteSet(1..Len(hunk))
  BY <1>1, FS_Interval
<1>3. {i \in DOMAIN hunk : hunk[i][1].marker \in markers} \subseteq 1..Len(hunk)
  BY <1>1
<1>4. IsFiniteSet({i \in DOMAIN hunk : hunk[i][1].marker \in markers})
  BY <1>2, <1>3, FS_Subset
<1>5. Side(hunk, markers) \in Nat
  BY <1>4, FS_CardinalityType DEF Side
<1>6. QED
  BY <1>1, <1>5 DEF Side, LeftOf

LEMMA HeaderLines ==
  ASSUME NEW c \in Changes
  PROVE  /\ GitLine("d", "git", <<c.from, c.to>>, <<>>) \in PatchLines
         /\ GitLine("m", "text", <<>>, <<>>) \in PatchLines
         /\ OldLine(c) \in PatchLines /\ NewLine(c) \in PatchLines /\ HunkLine(c) \in PatchLines
<1>1. /\ c.from \in Names \cup {Decoy} /\ c.to \in Names \cup {Decoy}
      /\ Side(c.hunk, {" ", "-"}) \in Nat /\ Side(c.hunk, {" ", "+"}) \in Nat
  BY ChangeIs, SideIs
<1>2. /\ "d" \in Markers /\ "m" \in Markers /\ "-" \in Markers /\ "+" \in Markers /\ "@" \in Markers
      /\ "git" \in Forms /\ "text" \in Forms /\ "old" \in Forms /\ "new" \in Forms /\ "hunk" \in Forms
  BY DEF Markers, Forms
<1>3. /\ <<c.from, c.to>> \in Seq(Names \cup {Decoy}) /\ <<>> \in Seq(Names \cup {Decoy})
      /\ <<c.from>> \in Seq(Names \cup {Decoy}) /\ <<c.to>> \in Seq(Names \cup {Decoy})
  BY <1>1, ShortLists, Zenon
<1>4. <<>> \in Seq(Nat) /\ <<Side(c.hunk, {" ", "-"}), Side(c.hunk, {" ", "+"})>> \in Seq(Nat)
  BY <1>1, ShortLists, Zenon
<1>5. OldLine(c) \in PatchLines
  <2>1. CASE c.kind = "add"
    BY <1>2, <1>3, <1>4, <2>1, GitLineIs, Zenon DEF OldLine
  <2>2. CASE c.kind # "add"
    BY <1>2, <1>3, <1>4, <2>2, GitLineIs, Zenon DEF OldLine
  <2>3. QED
    BY <2>1, <2>2
<1>6. NewLine(c) \in PatchLines
  <2>1. CASE c.kind = "delete"
    BY <1>2, <1>3, <1>4, <2>1, GitLineIs, Zenon DEF NewLine
  <2>2. CASE c.kind # "delete"
    BY <1>2, <1>3, <1>4, <2>2, GitLineIs, Zenon DEF NewLine
  <2>3. QED
    BY <2>1, <2>2
<1>7. HunkLine(c) \in PatchLines
  BY <1>2, <1>3, <1>4, GitLineIs, Zenon DEF HunkLine
<1>8. /\ GitLine("d", "git", <<c.from, c.to>>, <<>>) \in PatchLines
      /\ GitLine("m", "text", <<>>, <<>>) \in PatchLines
  BY <1>2, <1>3, <1>4, GitLineIs, Zenon
<1>9. QED
  BY <1>5, <1>6, <1>7, <1>8

\* The lines of a hunk, and those of one without separators.
LEMMA HunkLines ==
  ASSUME NEW c \in Changes
  PROVE  /\ FlattenSeq(c.hunk) \in Seq(PatchLines)
         /\ (\A k \in DOMAIN c.hunk : c.hunk[k] \notin Broken) =>
              /\ Len(FlattenSeq(c.hunk)) = Len(c.hunk)
              /\ \A k \in 1..Len(c.hunk) : FlattenSeq(c.hunk)[k] = c.hunk[k][1]
<1>1. PICK h : h = c.hunk
  OBVIOUS
<1>2. h \in Seq(Items)
  BY <1>1, ChangeIs
<1>3. PICK n \in Nat : n = Len(h)
  BY <1>2, LenProperties
<1>4. DOMAIN h = 1..n /\ \A i \in 1..n : h[i] \in Items
  BY <1>2, <1>3, LenProperties, ElementOfSeq
<1>5. AreLists(h, n, PatchLines)
  BY <1>4, ItemIs DEF AreLists
<1>6. [i \in 1..n |-> h[i]] = h
  BY <1>2, <1>3, <1>4
<1>7. FlattenSeq(h) = Laid(h, n)
  BY <1>6, Zenon DEF Laid
<1>8. n \in 0..n
  OBVIOUS
<1>9. Laid(h, n) \in Seq(PatchLines)
  BY <1>5, <1>8, LaidSequence
<1>10. ASSUME \A k \in DOMAIN h : h[k] \notin Broken
       PROVE  /\ Len(Laid(h, n)) = n
              /\ \A k \in 1..n : Laid(h, n)[k] = h[k][1]
  <2>1. \A i \in 1..n : Len(h[i]) = 1
    BY <1>4, <1>10, ItemIs
  <2>2. QED
    BY <1>5, <2>1, LaidOnes
<1>11. QED
  BY <1>1, <1>3, <1>7, <1>9, <1>10

LEMMA TwoLines ==
  ASSUME NEW S, NEW a \in S, NEW b \in S
  PROVE  /\ <<a, b>> \o <<>> = <<a, b>> /\ <<a, b>> \in Seq(S) /\ Len(<<a, b>>) = 2
         /\ <<a, b>>[1] = a /\ <<a, b>>[2] = b
<1>1. <<a, b>> \in Seq(S)
  OBVIOUS
<1>2. <<a, b>> \o <<>> = <<a, b>>
  BY <1>1, ConcatEmptySeq
<1>3. QED
  BY <1>1, <1>2

LEMMA FiveLines ==
  ASSUME NEW S, NEW a \in S, NEW b \in S, NEW o \in S, NEW w \in S, NEW h \in S, NEW rest \in Seq(S),
         NEW all, all = <<a, b>> \o (<<o, w, h>> \o rest)
  PROVE  /\ all \in Seq(S) /\ Len(all) = 5 + Len(rest)
         /\ all[1] = a /\ all[2] = b /\ all[3] = o /\ all[4] = w /\ all[5] = h
         /\ \A k \in 1..Len(rest) : all[5 + k] = rest[k]
<1>1. <<a, b>> \in Seq(S) /\ <<o, w, h>> \in Seq(S)
  OBVIOUS
<1>2. Len(rest) \in Nat
  BY LenProperties
<1>3. PICK t : t = <<o, w, h>> \o rest
  OBVIOUS
<1>4. /\ t \in Seq(S) /\ Len(t) = 3 + Len(rest)
      /\ \A i \in 1..(3 + Len(rest)) : t[i] = IF i <= 3 THEN <<o, w, h>>[i] ELSE rest[i - 3]
  <2>1. Len(<<o, w, h>>) = 3
    OBVIOUS
  <2>2. QED
    BY <1>1, <1>3, <2>1, ConcatProperties, Zenon
<1>5. all = <<a, b>> \o t
  BY <1>3
<1>6. /\ all \in Seq(S) /\ Len(all) = 2 + Len(t)
      /\ \A i \in 1..(2 + Len(t)) : all[i] = IF i <= 2 THEN <<a, b>>[i] ELSE t[i - 2]
  <2>1. Len(<<a, b>>) = 2
    OBVIOUS
  <2>2. PICK d \in Seq(S) : d = <<a, b>>
    BY <1>1
  <2>3. all = d \o t /\ Len(d) = 2
    BY <1>5, <2>1, <2>2
  <2>4. /\ all \in Seq(S) /\ Len(all) = Len(d) + Len(t)
        /\ \A i \in 1..(Len(d) + Len(t)) : all[i] = IF i <= Len(d) THEN d[i] ELSE t[i - Len(d)]
    BY <1>4, <2>3, ConcatProperties
  <2>5. QED
    BY <2>2, <2>3, <2>4
<1>9. /\ all[1] = a /\ all[2] = b /\ all[3] = t[1] /\ all[4] = t[2] /\ all[5] = t[3]
      /\ \A k \in 1..Len(rest) : all[5 + k] = t[3 + k]
  BY <1>2, <1>4, <1>6
<1>10. t[1] = o /\ t[2] = w /\ t[3] = h /\ \A k \in 1..Len(rest) : t[3 + k] = rest[k]
  BY <1>2, <1>4
<1>11. Len(all) = 5 + Len(rest)
  BY <1>2, <1>4, <1>6
<1>12. QED
  BY <1>6, <1>9, <1>10, <1>11

LEMMA PrintedIs ==
  ASSUME NEW c \in Changes
  PROVE  /\ Printed(c) \in Seq(PatchLines)
         /\ Printed(c)[1] = GitLine("d", "git", <<c.from, c.to>>, <<>>)
         /\ Printed(c)[2] = GitLine("m", "text", <<>>, <<>>)
         /\ c.hunk = <<>> => Len(Printed(c)) = 2
         /\ c.hunk # <<>> =>
              /\ Len(FlattenSeq(c.hunk)) \in Nat
              /\ Len(Printed(c)) = 5 + Len(FlattenSeq(c.hunk))
              /\ Printed(c)[3] = OldLine(c) /\ Printed(c)[4] = NewLine(c)
              /\ Printed(c)[5] = HunkLine(c)
              /\ \A k \in 1..Len(FlattenSeq(c.hunk)) : Printed(c)[5 + k] = FlattenSeq(c.hunk)[k]
<1>1. PICK a \in PatchLines : a = GitLine("d", "git", <<c.from, c.to>>, <<>>)
  BY HeaderLines
<1>2. PICK b \in PatchLines : b = GitLine("m", "text", <<>>, <<>>)
  BY HeaderLines
<1>3. PICK o \in PatchLines : o = OldLine(c)
  BY HeaderLines
<1>4. PICK w \in PatchLines : w = NewLine(c)
  BY HeaderLines
<1>5. PICK h \in PatchLines : h = HunkLine(c)
  BY HeaderLines
<1>6. PICK rest \in Seq(PatchLines) : rest = FlattenSeq(c.hunk)
  BY HunkLines
<1>7. Printed(c) = <<a, b>> \o IF c.hunk = <<>> THEN <<>> ELSE <<o, w, h>> \o rest
  BY <1>1, <1>2, <1>3, <1>4, <1>5, <1>6, Zenon DEF Printed, OldLine, NewLine, HunkLine
<1>8. CASE c.hunk = <<>>
  <2>1. Printed(c) = <<a, b>>
    BY <1>7, <1>8, TwoLines
  <2>2. <<a, b>> \in Seq(PatchLines) /\ Len(<<a, b>>) = 2 /\ <<a, b>>[1] = a /\ <<a, b>>[2] = b
    BY TwoLines
  <2>3. QED
    BY <1>1, <1>2, <1>8, <2>1, <2>2, Zenon
<1>9. CASE c.hunk # <<>>
  <2>1. PICK all : all = Printed(c)
    OBVIOUS
  <2>2. all = <<a, b>> \o (<<o, w, h>> \o rest)
    BY <1>7, <1>9, <2>1, Zenon
  <2>3. /\ all \in Seq(PatchLines) /\ Len(all) = 5 + Len(rest)
        /\ all[1] = a /\ all[2] = b /\ all[3] = o /\ all[4] = w /\ all[5] = h
        /\ \A k \in 1..Len(rest) : all[5 + k] = rest[k]
    BY <2>2, FiveLines
  <2>4. Len(rest) \in Nat
    BY LenProperties
  <2>5. QED
    BY <1>1, <1>2, <1>3, <1>4, <1>5, <1>6, <1>9, <2>1, <2>3, <2>4, Zenon
<1>10. QED
  BY <1>8, <1>9

LEMMA PatchIs ==
  ASSUME ScanTypes
  PROVE  \E n \in Nat :
           /\ n = Len(edits) /\ DOMAIN edits = 1..n
           /\ \A j \in 1..n : edits[j] \in Changes /\ Prints[j] = Printed(edits[j])
           /\ AreLists(Prints, n, PatchLines)
           /\ patch = Laid(Prints, n) /\ patch \in Seq(PatchLines)
<1>1. PICK n \in Nat : n = Len(edits)
  BY LenProperties DEF ScanTypes
<1>2. DOMAIN edits = 1..n
  BY <1>1, LenProperties DEF ScanTypes
<1>3. \A j \in 1..n : edits[j] \in Changes
  BY <1>1, ElementOfSeq DEF ScanTypes
<1>4. \A j \in 1..n : Prints[j] = Printed(edits[j])
  BY <1>2 DEF Prints
<1>5. AreLists(Prints, n, PatchLines)
  BY <1>3, <1>4, PrintedIs DEF AreLists
<1>6. [i \in 1..n |-> Prints[i]] = Prints
  BY <1>2 DEF Prints
<1>7. patch = Laid(Prints, n)
  BY <1>6, Zenon DEF Laid, ScanTypes
<1>8. n \in 0..n
  OBVIOUS
<1>9. Laid(Prints, n) \in Seq(PatchLines)
  BY <1>5, <1>8, LaidSequence
<1>10. QED
  BY <1>1, <1>2, <1>3, <1>4, <1>5, <1>7, <1>9

\* Where the lines of a change stand.
LEMMA LinesOf ==
  ASSUME ScanTypes, NEW j \in DOMAIN edits
  PROVE  /\ edits[j] \in Changes
         /\ HeaderOf(j) \in Nat /\ HeaderOf(j) >= 1 /\ Len(patch) \in Nat
         /\ HeaderOf(j + 1) = HeaderOf(j) + Len(Printed(edits[j]))
         /\ j + 1 \in DOMAIN edits \/ Len(patch) + 1 = HeaderOf(j + 1)
         /\ \A k \in 1..Len(Printed(edits[j])) :
              /\ HeaderOf(j) + k - 1 <= Len(patch)
              /\ patch[HeaderOf(j) + k - 1] = Printed(edits[j])[k]
<1>1. PICK n \in Nat :
           /\ n = Len(edits) /\ DOMAIN edits = 1..n
           /\ \A i \in 1..n : edits[i] \in Changes /\ Prints[i] = Printed(edits[i])
           /\ AreLists(Prints, n, PatchLines)
           /\ patch = Laid(Prints, n) /\ patch \in Seq(PatchLines)
  BY PatchIs
<1>2. j \in 1..n /\ j - 1 \in 0..n /\ n \in 0..n
  BY <1>1
<1>3. Len(patch) \in Nat
  BY <1>1, LenProperties
<1>4. Laid(Prints, j - 1) \in Seq(PatchLines)
  BY <1>1, <1>2, LaidSequence
<1>5. PICK a \in Nat : a = Len(Laid(Prints, j - 1))
  BY <1>4, LenProperties
<1>6. HeaderOf(j) = a + 1
  BY <1>5 DEF HeaderOf, FirstOf
<1>7. FirstOf(Prints, j + 1) = FirstOf(Prints, j) + Len(Prints[j])
  BY <1>1, <1>2, LaidSequence
<1>8. HeaderOf(j + 1) = HeaderOf(j) + Len(Printed(edits[j]))
  BY <1>1, <1>2, <1>7 DEF HeaderOf
<1>9. j + 1 \in DOMAIN edits \/ Len(patch) + 1 = HeaderOf(j + 1)
  <2>1. CASE j = n
    <3>1. n + 1 - 1 = n
      OBVIOUS
    <3>2. HeaderOf(n + 1) = Len(patch) + 1
      BY <1>1, <3>1 DEF HeaderOf, FirstOf
    <3>3. QED
      BY <2>1, <3>2
  <2>2. CASE j # n
    <3>1. j + 1 \in 1..n
      BY <1>2, <2>2
    <3>2. QED
      BY <1>1, <3>1
  <2>3. QED
    BY <2>1, <2>2
<1>10. ASSUME NEW k \in 1..Len(Printed(edits[j]))
       PROVE  /\ HeaderOf(j) + k - 1 <= Len(patch)
              /\ patch[HeaderOf(j) + k - 1] = Printed(edits[j])[k]
  <2>1. k \in 1..Len(Prints[j])
    BY <1>1, <1>2
  <2>2. PICK i : i = FirstOf(Prints, j) + k - 1
    OBVIOUS
  <2>3. i \in 1..Len(Laid(Prints, n)) /\ Laid(Prints, n)[i] = Prints[j][k]
    BY <1>1, <1>2, <2>1, <2>2, LaidLines
  <2>4. i \in 1..Len(patch) /\ patch[i] = Printed(edits[j])[k] /\ i = HeaderOf(j) + k - 1
    BY <1>1, <1>2, <2>2, <2>3 DEF HeaderOf
  <2>5. QED
    BY <1>3, <2>4
<1>11. edits[j] \in Changes
  BY <1>1, <1>2
<1>12. QED
  BY <1>3, <1>6, <1>8, <1>9, <1>10, <1>11

LEMMA LineOfChange ==
  ASSUME ScanTypes, NEW i \in 1..Len(patch)
  PROVE  \E j \in DOMAIN edits, k \in Nat :
           /\ k \in 1..Len(Printed(edits[j]))
           /\ i = HeaderOf(j) + k - 1 /\ patch[i] = Printed(edits[j])[k]
<1>1. PICK n \in Nat :
           /\ n = Len(edits) /\ DOMAIN edits = 1..n
           /\ \A l \in 1..n : edits[l] \in Changes /\ Prints[l] = Printed(edits[l])
           /\ AreLists(Prints, n, PatchLines)
           /\ patch = Laid(Prints, n) /\ patch \in Seq(PatchLines)
  BY PatchIs
<1>2. n \in 0..n /\ i \in 1..Len(Laid(Prints, n))
  BY <1>1
<1>3. PICK j \in 1..n, k \in Nat : k \in 1..Len(Prints[j]) /\ i = FirstOf(Prints, j) + k - 1
  BY <1>1, <1>2, LaidCovers
<1>5. j \in DOMAIN edits /\ Prints[j] = Printed(edits[j])
  BY <1>1
<1>6. k \in 1..Len(Printed(edits[j])) /\ i = HeaderOf(j) + k - 1
  BY <1>3, <1>5 DEF HeaderOf
<1>7. patch[HeaderOf(j) + k - 1] = Printed(edits[j])[k]
  BY <1>5, <1>6, LinesOf
<1>8. QED
  BY <1>5, <1>6, <1>7

LEMMA NamesAre ==
  ASSUME NEW a, NEW b
  PROVE  ToSet(<<>>) = {} /\ ToSet(<<a>>) = {a} /\ ToSet(<<a, b>>) = {a, b}
<1>1. DOMAIN <<a>> = {1} /\ <<a>>[1] = a
  OBVIOUS
<1>2. DOMAIN <<a, b>> = {1, 2} /\ <<a, b>>[1] = a /\ <<a, b>>[2] = b
  OBVIOUS
<1>3. DOMAIN <<>> = {}
  OBVIOUS
<1>4. QED
  BY <1>1, <1>2, <1>3 DEF ToSet

LEMMA FormsOfHeader ==
  ASSUME NEW c \in Changes
  PROVE  /\ OldLine(c).form = "old" /\ OldLine(c).marker = "-"
         /\ NewLine(c).form = "new" /\ NewLine(c).marker = "+"
         /\ HunkLine(c).form = "hunk" /\ HunkLine(c).marker = "@"
         /\ HunkLine(c).counts # <<>>
         /\ HunkLine(c).counts[1] = LeftOf(c.hunk, 1, {" ", "-"})
         /\ HunkLine(c).counts[2] = LeftOf(c.hunk, 1, {" ", "+"})
         /\ ToSet(OldLine(c).paths) \cup ToSet(NewLine(c).paths) = {c.from, c.to}
<1>1. /\ OldLine(c).form = "old" /\ OldLine(c).marker = "-"
      /\ NewLine(c).form = "new" /\ NewLine(c).marker = "+"
      /\ HunkLine(c).form = "hunk" /\ HunkLine(c).marker = "@"
  BY DEF OldLine, NewLine, HunkLine, GitLine
<1>2. HunkLine(c).counts = <<Side(c.hunk, {" ", "-"}), Side(c.hunk, {" ", "+"})>>
  BY DEF HunkLine, GitLine
<1>3. /\ Side(c.hunk, {" ", "-"}) = LeftOf(c.hunk, 1, {" ", "-"})
      /\ Side(c.hunk, {" ", "+"}) = LeftOf(c.hunk, 1, {" ", "+"})
  BY ChangeIs, SideIs
<1>4. /\ OldLine(c).paths = IF c.kind = "add" THEN <<>> ELSE <<c.from>>
      /\ NewLine(c).paths = IF c.kind = "delete" THEN <<>> ELSE <<c.to>>
  BY DEF OldLine, NewLine, GitLine
<1>5. ToSet(OldLine(c).paths) = IF c.kind = "add" THEN {} ELSE {c.from}
  BY <1>4, NamesAre
<1>6. ToSet(NewLine(c).paths) = IF c.kind = "delete" THEN {} ELSE {c.to}
  BY <1>4, NamesAre
<1>7. c.kind \in {"add", "delete"} => c.from = c.to
  BY ChangeIs
<1>8. ToSet(OldLine(c).paths) \cup ToSet(NewLine(c).paths) = {c.from, c.to}
  BY <1>5, <1>6, <1>7
<1>9. /\ HunkLine(c).counts # <<>>
      /\ HunkLine(c).counts[1] = Side(c.hunk, {" ", "-"}) /\ HunkLine(c).counts[2] = Side(c.hunk, {" ", "+"})
  <2>1. PICK x : x = Side(c.hunk, {" ", "-"})
    OBVIOUS
  <2>2. PICK y : y = Side(c.hunk, {" ", "+"})
    OBVIOUS
  <2>3. <<x, y>>[1] = x /\ <<x, y>>[2] = y /\ <<x, y>> # <<>>
    OBVIOUS
  <2>4. HunkLine(c).counts = <<x, y>>
    BY <1>2, <2>1, <2>2, Zenon
  <2>5. QED
    BY <2>1, <2>2, <2>3, <2>4, Zenon
<1>10. QED
  BY <1>1, <1>3, <1>8, <1>9

\* The header of a change in the patch.
LEMMA HeadIs ==
  ASSUME ScanTypes, NEW j \in DOMAIN edits, NEW b, b = HeaderOf(j)
  PROVE  /\ edits[j] \in Changes /\ b \in Nat /\ b >= 1 /\ Len(patch) \in Nat /\ b + 1 <= Len(patch)
         /\ patch[b].form = "git" /\ patch[b].marker = "d"
         /\ patch[b].paths = <<edits[j].from, edits[j].to>>
         /\ patch[b + 1].form = "text" /\ patch[b + 1].marker = "m"
         /\ edits[j].hunk = <<>> => (j + 1 \in DOMAIN edits /\ HeaderOf(j + 1) = b + 2) \/ Len(patch) = b + 1
         /\ edits[j].hunk # <<>> =>
              /\ b + 4 <= Len(patch)
              /\ patch[b + 2] = OldLine(edits[j]) /\ patch[b + 3] = NewLine(edits[j])
              /\ patch[b + 4] = HunkLine(edits[j])
<1>1. PICK c : c = edits[j]
  OBVIOUS
<1>2. PICK p : p = Printed(c)
  OBVIOUS
<1>3. /\ c \in Changes /\ b \in Nat /\ b >= 1 /\ Len(patch) \in Nat
      /\ HeaderOf(j + 1) = b + Len(p)
      /\ j + 1 \in DOMAIN edits \/ Len(patch) + 1 = HeaderOf(j + 1)
      /\ \A k \in 1..Len(p) : b + k - 1 <= Len(patch) /\ patch[b + k - 1] = p[k]
  BY <1>1, <1>2, LinesOf
<1>4. /\ p[1] = GitLine("d", "git", <<c.from, c.to>>, <<>>)
      /\ p[2] = GitLine("m", "text", <<>>, <<>>)
      /\ c.hunk = <<>> => Len(p) = 2
      /\ c.hunk # <<>> =>
           /\ Len(p) \in Nat /\ Len(p) >= 5
           /\ p[3] = OldLine(c) /\ p[4] = NewLine(c) /\ p[5] = HunkLine(c)
  BY <1>2, <1>3, PrintedIs
<1>5. 1 \in 1..Len(p) /\ 2 \in 1..Len(p)
  BY <1>4
<1>6. /\ patch[b] = p[1] /\ patch[b + 1] = p[2] /\ b + 1 <= Len(patch)
  <2>1. patch[b + 1 - 1] = p[1] /\ patch[b + 2 - 1] = p[2] /\ b + 2 - 1 <= Len(patch)
    BY <1>3, <1>5
  <2>2. b + 1 - 1 = b /\ b + 2 - 1 = b + 1
    BY <1>3
  <2>3. QED
    BY <2>1, <2>2
<1>7. /\ patch[b].form = "git" /\ patch[b].marker = "d"
      /\ patch[b].paths = <<c.from, c.to>>
      /\ patch[b + 1].form = "text" /\ patch[b + 1].marker = "m"
  BY <1>4, <1>6 DEF GitLine
<1>8. c.hunk = <<>> => (j + 1 \in DOMAIN edits /\ HeaderOf(j + 1) = b + 2) \/ Len(patch) = b + 1
  <2>1. PICK e : e = HeaderOf(j + 1)
    OBVIOUS
  <2>2. PICK l \in Nat : l = Len(patch)
    BY <1>3
  <2>3. c.hunk = <<>> => e = b + 2
    BY <1>3, <1>4, <2>1, Zenon
  <2>4. j + 1 \in DOMAIN edits \/ l + 1 = e
    BY <1>3, <2>1, <2>2, Zenon
  <2>5. c.hunk = <<>> => (j + 1 \in DOMAIN edits /\ e = b + 2) \/ l = b + 1
    BY <1>3, <2>2, <2>3, <2>4
  <2>6. QED
    BY <2>1, <2>2, <2>5, Zenon
<1>9. ASSUME c.hunk # <<>>
      PROVE  b + 4 <= Len(patch) /\ patch[b + 2] = p[3] /\ patch[b + 3] = p[4] /\ patch[b + 4] = p[5]
  <2>1. 3 \in 1..Len(p) /\ 4 \in 1..Len(p) /\ 5 \in 1..Len(p)
    BY <1>4, <1>9
  <2>2. /\ patch[b + 3 - 1] = p[3] /\ patch[b + 4 - 1] = p[4]
        /\ patch[b + 5 - 1] = p[5] /\ b + 5 - 1 <= Len(patch)
    BY <1>3, <2>1
  <2>3. b + 3 - 1 = b + 2 /\ b + 4 - 1 = b + 3 /\ b + 5 - 1 = b + 4
    BY <1>3
  <2>4. QED
    BY <2>2, <2>3
<1>10. QED
  BY <1>1, <1>3, <1>4, <1>6, <1>7, <1>8, <1>9

\* A line of a hunk counts one for each side it belongs to.
Counts(marker, markers, before, after) ==
    /\ marker \in markers => before = after + 1
    /\ marker \notin markers => before = after

LEMMA LeftStep ==
  ASSUME NEW hunk \in Seq(Items), NEW k \in 1..Len(hunk), NEW markers
  PROVE  /\ LeftOf(hunk, k + 1, markers) \in Nat
         /\ Counts(hunk[k][1].marker, markers, LeftOf(hunk, k, markers), LeftOf(hunk, k + 1, markers))
<1>1. PICK n \in Nat : n = Len(hunk)
  BY LenProperties
<1> DEFINE Counted(i) == hunk[i][1].marker \in markers
           later == {i \in (k + 1)..n : Counted(i)}
           those == {i \in k..n : Counted(i)}
<1>2. LeftOf(hunk, k, markers) = Cardinality(those) /\ LeftOf(hunk, k + 1, markers) = Cardinality(later)
  BY <1>1 DEF LeftOf
<1>3. k \in 1..n
  BY <1>1
<1>4. IsFiniteSet((k + 1)..n)
  BY <1>3, FS_Interval
<1>5. IsFiniteSet(later)
  BY <1>4, FS_Subset
<1>6. Cardinality(later) \in Nat
  BY <1>5, FS_CardinalityType
<1>7. CASE Counted(k)
  <2>1. those = later \cup {k} /\ k \notin later
    BY <1>3, <1>7
  <2>2. Cardinality(those) = Cardinality(later) + 1
    BY <1>5, <2>1, FS_AddElement
  <2>3. QED
    BY <1>2, <1>6, <1>7, <2>2, Zenon DEF Counts
<1>8. CASE ~Counted(k)
  <2>1. those = later
    BY <1>3, <1>8
  <2>2. Cardinality(those) = Cardinality(later)
    BY <2>1, Zenon
  <2>3. QED
    BY <1>2, <1>6, <1>8, <2>2, Zenon DEF Counts
<1>9. QED
  BY <1>7, <1>8

\* The lines of a hunk from line b + 5 on.
HunkAt(b, hunk) ==
    \A k \in 1..Len(hunk) :
        /\ b + 4 + k <= Len(patch)
        /\ patch[b + 4 + k] = hunk[k][1]
        /\ hunk[k][1].marker \in HunkMarkers
        /\ hunk[k][1].marker = "end" => hunk[k][1].form = "text"

\* The hunk of a change, where no file holds a separator.
LEMMA HunkIs ==
  ASSUME ScanTypes, ~Split, NEW j \in DOMAIN edits, edits[j].hunk # <<>>
  PROVE  /\ edits[j].hunk \in Seq(Items) /\ Len(edits[j].hunk) \in Nat /\ Len(edits[j].hunk) >= 1
         /\ Len(Printed(edits[j])) = 5 + Len(edits[j].hunk)
         /\ HunkAt(HeaderOf(j), edits[j].hunk)
<1>1. PICK c : c = edits[j]
  OBVIOUS
<1>2. PICK p : p = Printed(c)
  OBVIOUS
<1>3. PICK b \in Nat :
        /\ b = HeaderOf(j) /\ c \in Changes
        /\ \A k \in 1..Len(p) : b + k - 1 <= Len(patch) /\ patch[b + k - 1] = p[k]
  BY <1>1, <1>2, LinesOf
<1>4. PICK hunk \in Seq(Items) : hunk = c.hunk
  BY <1>3, ChangeIs
<1>5. PICK n \in Nat : n = Len(hunk)
  BY <1>4, LenProperties
<1>6. DOMAIN hunk = 1..n /\ \A k \in 1..n : hunk[k] \in Items
  BY <1>4, <1>5, LenProperties, ElementOfSeq
<1>7. n >= 1
  BY <1>1, <1>4, <1>5, EmptySeq
<1>8. \A k \in 1..n : hunk[k] \notin Broken
  BY <1>1, <1>4, <1>6 DEF Split
<1>9. PICK f : f = FlattenSeq(hunk)
  OBVIOUS
<1>10. Len(f) = n /\ \A k \in 1..n : f[k] = hunk[k][1]
  BY <1>3, <1>4, <1>5, <1>6, <1>8, <1>9, HunkLines
<1>11. Len(p) = 5 + n /\ \A k \in 1..n : p[5 + k] = f[k]
  BY <1>1, <1>2, <1>3, <1>4, <1>9, <1>10, PrintedIs
<1>12. ASSUME NEW k \in 1..n
       PROVE  b + 4 + k <= Len(patch) /\ patch[b + 4 + k] = hunk[k][1]
  <2>1. 5 + k \in 1..Len(p)
    BY <1>11
  <2>2. b + (5 + k) - 1 <= Len(patch) /\ patch[b + (5 + k) - 1] = p[5 + k]
    BY <1>3, <2>1
  <2>3. b + (5 + k) - 1 = b + 4 + k
    BY <1>3
  <2>4. QED
    BY <1>10, <1>11, <2>2, <2>3
<1>13. \A k \in 1..n : /\ hunk[k][1].marker \in HunkMarkers
                       /\ hunk[k][1].marker = "end" => hunk[k][1].form = "text"
  BY <1>6, <1>8, ItemIs
<1>14. HunkAt(b, hunk)
  BY <1>5, <1>12, <1>13 DEF HunkAt
<1>15. QED
  BY <1>1, <1>2, <1>3, <1>4, <1>5, <1>7, <1>11, <1>14, Zenon

LEMMA StepIs ==
  /\ Step("d") = <<>> /\ Step("m") = <<>> /\ Step("@") = <<>>
  /\ Step(" ") = <<1, 1>> /\ Step("-") = <<1, 0>> /\ Step("+") = <<0, 1>> /\ Step("end") = <<0, 0>>
BY DEF Step

\* One turn of the loop, whatever the line.
LEMMA ScanMoves ==
  ASSUME ScanTypes, ScanNext
  PROVE  /\ Scanning /\ position \in 1..Len(patch)
         /\ edits' = edits /\ patch' = patch /\ report' = report
         /\ position' = position + 1 \/ (position' = position + 2 /\ OldAndNew)
         /\ problems' \in BOOLEAN /\ pendingHeader' \in BOOLEAN
         /\ problems => problems'
         /\ scanned \subseteq scanned'
<1>1. /\ edits' = edits /\ patch' = patch /\ report' = report /\ Scanning
  BY DEF ScanNext, BodyLine, HunkHeader, GitHeader, CombinedHeader, FileHeader, OtherLine, Moves
<1>2. position' = position + 1 \/ (position' = position + 2 /\ OldAndNew)
  BY DEF ScanNext, BodyLine, HunkHeader, GitHeader, CombinedHeader, FileHeader, OtherLine, Moves
<1>3. problems' \in BOOLEAN /\ (problems => problems')
  BY DEF ScanNext, BodyLine, HunkHeader, GitHeader, CombinedHeader, FileHeader, OtherLine, ScanTypes
<1>4. pendingHeader' \in BOOLEAN
  BY DEF ScanNext, BodyLine, HunkHeader, GitHeader, CombinedHeader, FileHeader, OtherLine, ScanTypes, Readable
<1>5. scanned \subseteq scanned'
  BY DEF ScanNext, BodyLine, HunkHeader, GitHeader, CombinedHeader, FileHeader, OtherLine
<1>6. Len(patch) \in Nat
  <2>1. patch \in Seq(PatchLines)
    BY PatchIs
  <2>2. QED
    BY <2>1, LenProperties
<1>7. position \in 1..Len(patch)
  BY <1>1, <1>6 DEF Scanning, ScanTypes
<1>8. QED
  BY <1>1, <1>2, <1>3, <1>4, <1>5, <1>7

LEMMA HeadersStay ==
  ASSUME edits' = edits
  PROVE  Prints' = Prints /\ \A j : HeaderOf(j)' = HeaderOf(j)
<1>1. Prints' = Prints
  BY DEF Prints
<1>2. QED
  BY <1>1 DEF HeaderOf

\* The turn at each line of a change.
LEMMA AtGit ==
  ASSUME ScanTypes, ScanNext, NEW j \in DOMAIN edits, position = HeaderOf(j)
  PROVE  /\ position' = position + 1 /\ remainingOld' = 0 /\ remainingNew' = 0
         /\ problems' = (problems \/ pendingHeader)
         /\ pendingHeader' = ~Readable(HeaderNames(j))
         /\ ~pendingHeader' /\ ~Halved(HeaderNames(j)) =>
              scanned' = scanned \cup {edits[j].from, edits[j].to}
         /\ pendingHeader' => scanned' = scanned
<1>1. ThisLine.form = "git" /\ ThisLine.marker = "d" /\ ThisLine.paths = HeaderNames(j)
  BY HeadIs DEF ThisLine, HeaderNames
<1>2. ~InBody
  BY <1>1, StepIs, Zenon DEF InBody
<1>3. ~OldAndNew
  BY <1>1, Zenon DEF OldAndNew
<1>4. GitHeader
  BY <1>1, <1>2, <1>3 DEF ScanNext, BodyLine, HunkHeader, FileHeader, OtherLine, CombinedHeader
<1>5. /\ position' = position + 1 /\ remainingOld' = 0 /\ remainingNew' = 0
      /\ problems' = (problems \/ pendingHeader)
      /\ pendingHeader' = ~Readable(ThisLine.paths)
      /\ scanned' = IF Readable(ThisLine.paths) THEN scanned \cup NamesOf(ThisLine.paths) ELSE scanned
  BY <1>4, Zenon DEF GitHeader, CombinedHeader, Moves
<1>6. ~Halved(HeaderNames(j)) => NamesOf(ThisLine.paths) = {edits[j].from, edits[j].to}
  BY <1>1, NamesAre, Zenon DEF NamesOf, HeaderNames
<1>7. QED
  BY <1>1, <1>5, <1>6

LEMMA AtMode ==
  ASSUME ScanTypes, ScanNext, NEW j \in DOMAIN edits, position = HeaderOf(j) + 1
  PROVE  /\ position' = position + 1 /\ remainingOld' = 0 /\ remainingNew' = 0
         /\ UNCHANGED <<pendingHeader, scanned, problems>>
<1>1. ThisLine.form = "text" /\ ThisLine.marker = "m"
  BY HeadIs DEF ThisLine
<1>2. ~InBody
  BY <1>1, StepIs, Zenon DEF InBody
<1>3. ~OldAndNew
  BY <1>1, Zenon DEF OldAndNew
<1>4. OtherLine
  BY <1>1, <1>2, <1>3 DEF ScanNext, BodyLine, HunkHeader, FileHeader, GitHeader, CombinedHeader
<1>5. QED
  BY <1>4, Zenon DEF OtherLine, Moves

LEMMA AtOld ==
  ASSUME ScanTypes, ScanNext, NEW j \in DOMAIN edits, edits[j].hunk # <<>>,
         position = HeaderOf(j) + 2, remainingOld = 0, remainingNew = 0
  PROVE  /\ position' = position + 2 /\ remainingOld' = 0 /\ remainingNew' = 0
         /\ problems' = problems /\ pendingHeader' = FALSE
         /\ scanned' = scanned \cup {edits[j].from, edits[j].to}
<1>1. PICK b : b = HeaderOf(j)
  OBVIOUS
<1>2. PICK c : c = edits[j]
  OBVIOUS
<1>3. /\ c \in Changes /\ b \in Nat /\ b + 4 <= Len(patch) /\ Len(patch) \in Nat
      /\ patch[b + 2] = OldLine(c) /\ patch[b + 3] = NewLine(c)
  BY <1>1, <1>2, HeadIs
<1>4. position < Len(patch) /\ position = b + 2 /\ position + 1 = b + 3
  BY <1>1, <1>3
<1>5. ThisLine = OldLine(c) /\ patch[position + 1] = NewLine(c)
  BY <1>3, <1>4 DEF ThisLine
<1>6. ThisLine.form = "old" /\ patch[position + 1].form = "new"
  BY <1>3, <1>5, FormsOfHeader
<1>7. OldAndNew
  BY <1>4, <1>6, Zenon DEF OldAndNew
<1>8. ~InBody
  BY DEF InBody
<1>9. FileHeader
  BY <1>6, <1>7, <1>8 DEF ScanNext, BodyLine, HunkHeader, OtherLine, GitHeader, CombinedHeader
<1>10. ToSet(ThisLine.paths) \cup ToSet(patch[position + 1].paths) = {c.from, c.to}
  BY <1>3, <1>5, FormsOfHeader, Zenon
<1>11. /\ scanned' = scanned \cup (ToSet(ThisLine.paths) \cup ToSet(patch[position + 1].paths))
       /\ problems' = (problems \/ ToSet(ThisLine.paths) \cup ToSet(patch[position + 1].paths) = {})
       /\ pendingHeader' = FALSE /\ remainingOld' = 0 /\ remainingNew' = 0
       /\ position' = position + 2
  BY <1>9, Zenon DEF FileHeader, Moves
<1>12. {c.from, c.to} # {}
  OBVIOUS
<1>13. problems' = problems
  <2>1. problems' = (problems \/ {c.from, c.to} = {})
    BY <1>10, <1>11, Zenon
  <2>2. QED
    BY <1>12, <2>1 DEF ScanTypes
<1>14. scanned' = scanned \cup {c.from, c.to}
  BY <1>10, <1>11, Zenon
<1>15. QED
  BY <1>2, <1>11, <1>13, <1>14, Zenon

LEMMA AtHunk ==
  ASSUME ScanTypes, ScanNext, NEW j \in DOMAIN edits, edits[j].hunk # <<>>,
         position = HeaderOf(j) + 4
  PROVE  /\ position' = position + 1
         /\ remainingOld' = LeftOf(edits[j].hunk, 1, {" ", "-"})
         /\ remainingNew' = LeftOf(edits[j].hunk, 1, {" ", "+"})
         /\ UNCHANGED <<pendingHeader, scanned, problems>>
<1>1. PICK c : c = edits[j]
  OBVIOUS
<1>2. c \in Changes /\ ThisLine = HunkLine(c)
  BY <1>1, HeadIs DEF ThisLine
<1>3. /\ ThisLine.form = "hunk" /\ ThisLine.marker = "@" /\ ThisLine.counts # <<>>
      /\ ThisLine.counts[1] = LeftOf(c.hunk, 1, {" ", "-"})
      /\ ThisLine.counts[2] = LeftOf(c.hunk, 1, {" ", "+"})
  BY <1>2, FormsOfHeader, Zenon
<1>4. ~InBody
  BY <1>3, StepIs, Zenon DEF InBody
<1>5. ~OldAndNew
  BY <1>3, Zenon DEF OldAndNew
<1>6. HunkHeader
  BY <1>3, <1>4, <1>5 DEF ScanNext, BodyLine, FileHeader, OtherLine, GitHeader, CombinedHeader
<1>7. /\ position' = position + 1
      /\ remainingOld' = ThisLine.counts[1] /\ remainingNew' = ThisLine.counts[2]
      /\ UNCHANGED <<pendingHeader, scanned, problems>>
  BY <1>3, <1>6, Zenon DEF HunkHeader, Moves
<1>8. QED
  BY <1>1, <1>3, <1>7, Zenon

LEMMA NoneLeft ==
  ASSUME NEW n \in Nat, ~(n > 0)
  PROVE  n = 0
OBVIOUS

LEMMA LessBack ==
  ASSUME NEW n \in Nat
  PROVE  Less(n + 1, 1) = n /\ Less(n, 0) = n /\ n + 1 > 0
BY DEF Less

CountsDown(marker, ro, rn, old, new) ==
    /\ Step(marker) # <<>> /\ (ro > 0 \/ rn > 0)
    /\ Less(ro, Step(marker)[1]) = old
    /\ Less(rn, Step(marker)[2]) = new

LEMMA CountDown ==
  ASSUME NEW marker \in HunkMarkers, marker # "end", NEW old \in Nat, NEW new \in Nat, NEW ro, NEW rn,
         Counts(marker, {" ", "-"}, ro, old), Counts(marker, {" ", "+"}, rn, new)
  PROVE  CountsDown(marker, ro, rn, old, new)
<1>1. <<1, 1>> # <<>> /\ <<1, 0>> # <<>> /\ <<0, 1>> # <<>>
  OBVIOUS
<1>2. /\ <<1, 1>>[1] = 1 /\ <<1, 1>>[2] = 1 /\ <<1, 0>>[1] = 1 /\ <<1, 0>>[2] = 0
      /\ <<0, 1>>[1] = 0 /\ <<0, 1>>[2] = 1
  OBVIOUS
<1>3. /\ Less(old + 1, 1) = old /\ Less(old, 0) = old /\ old + 1 > 0
      /\ Less(new + 1, 1) = new /\ Less(new, 0) = new /\ new + 1 > 0
  BY LessBack, Zenon
<1>4. CASE marker = " "
  <2>1. Step(marker) = <<1, 1>> /\ ro = old + 1 /\ rn = new + 1
    BY <1>4, StepIs DEF Counts
  <2>2. QED
    BY <1>1, <1>2, <1>3, <2>1, Zenon DEF CountsDown
<1>5. CASE marker = "-"
  <2>1. Step(marker) = <<1, 0>> /\ ro = old + 1 /\ rn = new
    BY <1>5, StepIs DEF Counts
  <2>2. QED
    BY <1>1, <1>2, <1>3, <2>1, Zenon DEF CountsDown
<1>6. CASE marker = "+"
  <2>1. Step(marker) = <<0, 1>> /\ ro = old /\ rn = new + 1
    BY <1>6, StepIs DEF Counts
  <2>2. QED
    BY <1>1, <1>2, <1>3, <2>1, Zenon DEF CountsDown
<1>7. QED
  BY <1>4, <1>5, <1>6 DEF HunkMarkers

LEMMA AtBody ==
  ASSUME ScanTypes, ScanNext, ~Split, NEW j \in DOMAIN edits,
         NEW hunk, hunk = edits[j].hunk, hunk # <<>>,
         NEW k \in Nat, k \in 1..Len(hunk), NEW b \in Nat, b = HeaderOf(j), position = b + 4 + k,
         remainingOld = LeftOf(hunk, k, {" ", "-"}), remainingNew = LeftOf(hunk, k, {" ", "+"})
  PROVE  /\ InBody \/ (ThisLine.form = "text" /\ ThisLine.marker = "end")
         /\ position' = position + 1
         /\ remainingOld' = LeftOf(hunk, k + 1, {" ", "-"})
         /\ remainingNew' = LeftOf(hunk, k + 1, {" ", "+"})
         /\ UNCHANGED <<pendingHeader, scanned, problems>>
<1>1. HunkAt(b, hunk) /\ hunk \in Seq(Items)
  BY HunkIs, Zenon
<1>2. /\ patch[b + 4 + k] = hunk[k][1] /\ hunk[k][1].marker \in HunkMarkers
      /\ hunk[k][1].marker = "end" => hunk[k][1].form = "text"
  BY <1>1, Zenon DEF HunkAt
<1>3. PICK marker \in HunkMarkers : marker = hunk[k][1].marker
  BY <1>2, Zenon
<1>4. ThisLine.marker = marker /\ (marker = "end" => ThisLine.form = "text")
  BY <1>2, <1>3, Zenon DEF ThisLine
<1>5. PICK old \in Nat : old = LeftOf(hunk, k + 1, {" ", "-"})
  BY <1>1, LeftStep, Zenon
<1>6. PICK new \in Nat : new = LeftOf(hunk, k + 1, {" ", "+"})
  BY <1>1, LeftStep, Zenon
<1>7. Counts(marker, {" ", "-"}, remainingOld, old)
  BY <1>1, <1>3, <1>5, LeftStep, Zenon
<1>8. Counts(marker, {" ", "+"}, remainingNew, new)
  BY <1>1, <1>3, <1>6, LeftStep, Zenon
<1>9. ASSUME Step(marker) # <<>>, remainingOld > 0 \/ remainingNew > 0,
             Less(remainingOld, Step(marker)[1]) = old, Less(remainingNew, Step(marker)[2]) = new
      PROVE  /\ InBody /\ position' = position + 1
             /\ remainingOld' = old /\ remainingNew' = new
             /\ UNCHANGED <<pendingHeader, scanned, problems>>
  <2>1. InBody
    BY <1>4, <1>9, Zenon DEF InBody
  <2>2. ~HunkHeader /\ ~FileHeader /\ ~OtherLine /\ ~GitHeader /\ ~CombinedHeader
    BY <2>1, Zenon DEF HunkHeader, FileHeader, OtherLine, GitHeader, CombinedHeader
  <2>3. BodyLine
    BY <2>2, Zenon DEF ScanNext
  <2>4. /\ position' = position + 1
        /\ remainingOld' = Less(remainingOld, Step(marker)[1])
        /\ remainingNew' = Less(remainingNew, Step(marker)[2])
        /\ UNCHANGED <<pendingHeader, scanned, problems>>
    BY <1>4, <2>3, Zenon DEF BodyLine, Moves
  <2>5. QED
    BY <1>9, <2>1, <2>4, Zenon
<1>10. CASE marker # "end"
  <2>1. CountsDown(marker, remainingOld, remainingNew, old, new)
    BY <1>3, <1>5, <1>6, <1>7, <1>8, <1>10, CountDown, Zenon
  <2>2. QED
    BY <1>5, <1>6, <1>9, <2>1, Zenon DEF CountsDown
<1>11. CASE marker = "end"
  <2>1. marker \notin {" ", "-"} /\ marker \notin {" ", "+"}
    BY <1>11
  <2>2. remainingOld = old /\ remainingNew = new
    BY <1>7, <1>8, <2>1, Zenon DEF Counts
  <2>3. Step(marker) = <<0, 0>>
    BY <1>11, StepIs
  <2>4. <<0, 0>> # <<>> /\ <<0, 0>>[1] = 0 /\ <<0, 0>>[2] = 0
    OBVIOUS
  <2>5. Less(old, 0) = old /\ Less(new, 0) = new
    BY LessBack
  <2>6. CASE remainingOld > 0 \/ remainingNew > 0
    BY <1>5, <1>6, <1>9, <2>2, <2>3, <2>4, <2>5, <2>6, Zenon
  <2>7. CASE ~(remainingOld > 0 \/ remainingNew > 0)
    <3>1. old = 0 /\ new = 0
      BY <2>2, <2>7, NoneLeft, Zenon
    <3>2. ~InBody
      BY <2>7, Zenon DEF InBody
    <3>3. ThisLine.form = "text" /\ ThisLine.marker = "end"
      BY <1>4, <1>11, Zenon
    <3>4. ~HunkHeader /\ ~FileHeader /\ ~GitHeader /\ ~CombinedHeader /\ ~BodyLine
      BY <3>2, <3>3 DEF HunkHeader, FileHeader, GitHeader, CombinedHeader, BodyLine, OldAndNew
    <3>5. OtherLine
      BY <3>4, Zenon DEF ScanNext
    <3>6. /\ position' = position + 1 /\ remainingOld' = 0 /\ remainingNew' = 0
          /\ UNCHANGED <<pendingHeader, scanned, problems>>
      BY <3>5, Zenon DEF OtherLine, Moves
    <3>7. QED
      BY <1>5, <1>6, <3>1, <3>3, <3>6, Zenon
  <2>8. QED
    BY <2>6, <2>7, Zenon
<1>12. QED
  BY <1>10, <1>11, Zenon

\* No turn leaps over the git line of a change.
LEMMA BeforeGit ==
  ASSUME ScanTypes, ScanNext, NEW j \in DOMAIN edits, position < HeaderOf(j)
  PROVE  position' <= HeaderOf(j)
<1>1. PICK b \in Nat : b = HeaderOf(j) /\ patch[b].form = "git"
  BY HeadIs
<1>2. position \in Nat
  BY DEF ScanTypes
<1>3. position' = position + 1 \/ (position' = position + 2 /\ patch[position + 1].form = "new")
  BY ScanMoves DEF OldAndNew
<1>4. position + 1 # b \/ position' = position + 1
  BY <1>1, <1>3
<1>5. QED
  BY <1>1, <1>2, <1>3, <1>4

LEMMA TypesKept ==
  ASSUME ScanTypes, PatchNext
  PROVE  ScanTypes'
<1>1. CASE ScanNext
  <2>1. /\ edits' = edits /\ patch' = patch
        /\ position' = position + 1 \/ position' = position + 2
        /\ problems' \in BOOLEAN /\ pendingHeader' \in BOOLEAN
    BY <1>1, ScanMoves
  <2>2. Prints' = Prints
    BY <2>1, HeadersStay
  <2>3. patch' = FlattenSeq(Prints')
    BY <2>1, <2>2, Zenon DEF ScanTypes
  <2>4. position' \in Nat \ {0}
    BY <2>1 DEF ScanTypes
  <2>5. edits' \in Seq(Changes)
    BY <2>1, Zenon DEF ScanTypes
  <2>6. QED
    BY <2>1, <2>3, <2>4, <2>5, Zenon DEF ScanTypes
<1>2. CASE VerifyPatch
  <2>1. UNCHANGED <<edits, patch, position, pendingHeader, problems>>
    BY <1>2, Zenon DEF VerifyPatch
  <2>2. Prints' = Prints
    BY <2>1, HeadersStay
  <2>3. QED
    BY <2>1, <2>2, Zenon DEF ScanTypes
<1>3. QED
  BY <1>1, <1>2 DEF PatchNext

LEMMA HeadersAreReadKept ==
  ASSUME ScanTypes, HeadersAreRead, CountsAreReset, ScanNext
  PROVE  HeadersAreRead'
<1>1. /\ edits' = edits /\ position \in Nat
      /\ problems \in BOOLEAN /\ problems' \in BOOLEAN /\ (problems => problems')
      /\ scanned \subseteq scanned'
      /\ position' = position + 1 \/ position' = position + 2
  BY ScanMoves DEF ScanTypes
<1>2. \A j : HeaderOf(j)' = HeaderOf(j)
  BY <1>1, HeadersStay
<1> DEFINE Hidden(j) == edits[j].hunk = <<>> /\ Halved(HeaderNames(j))
<1>3. ASSUME NEW j \in DOMAIN edits, position' > HeaderOf(j)
      PROVE  \/ problems'
             \/ {edits[j].from, edits[j].to} \subseteq scanned'
             \/ Hidden(j)
             \/ (pendingHeader' \/ Halved(HeaderNames(j))) /\ position' <= HeaderOf(j) + 2
  <2>1. PICK b \in Nat : b = HeaderOf(j)
    BY HeadIs
  <2>2. position >= b
    BY <1>1, <1>3, <2>1, BeforeGit
  <2>3. CASE position = b
    <3>1. /\ position' = position + 1
          /\ ~pendingHeader' /\ ~Halved(HeaderNames(j)) =>
               scanned' = scanned \cup {edits[j].from, edits[j].to}
      BY <2>1, <2>3, AtGit
    <3>2. position' <= b + 2
      BY <1>1, <2>3, <3>1
    <3>3. QED
      BY <2>1, <3>1, <3>2
  <2>4. CASE position > b
    <3>1. \/ problems
          \/ {edits[j].from, edits[j].to} \subseteq scanned
          \/ Hidden(j)
          \/ StillToRead(j) /\ position <= b + 2
      BY <2>1, <2>4 DEF HeadersAreRead
    <3>2. CASE problems \/ {edits[j].from, edits[j].to} \subseteq scanned \/ Hidden(j)
      BY <1>1, <3>2
    <3>3. CASE StillToRead(j) /\ position = b + 1
      <4>1. position' = position + 1 /\ pendingHeader' = pendingHeader
        BY <2>1, <3>3, AtMode
      <4>2. position' <= b + 2
        BY <1>1, <3>3, <4>1
      <4>3. QED
        BY <2>1, <3>3, <4>1, <4>2 DEF StillToRead
    <3>4. CASE pendingHeader /\ position = b + 2 /\ edits[j].hunk = <<>>
      <4>1. position <= Len(patch)
        BY ScanMoves
      <4>2. j + 1 \in DOMAIN edits /\ HeaderOf(j + 1) = b + 2
        <5>1. Len(patch) \in Nat
          BY HeadIs
        <5>2. Len(patch) # b + 1
          BY <2>1, <3>4, <4>1, <5>1
        <5>3. QED
          BY <2>1, <3>4, <5>2, HeadIs
      <4>3. problems' = (problems \/ pendingHeader)
        BY <3>4, <4>2, AtGit
      <4>4. QED
        BY <3>4, <4>3
    <3>5. CASE position = b + 2 /\ edits[j].hunk # <<>>
      <4>1. remainingOld = 0 /\ remainingNew = 0
        BY <2>1, <3>5 DEF CountsAreReset
      <4>2. scanned' = scanned \cup {edits[j].from, edits[j].to}
        BY <2>1, <3>5, <4>1, AtOld
      <4>3. QED
        BY <4>2
    <3>6. position <= b + 2 => position = b + 1 \/ position = b + 2
      BY <1>1, <2>1, <2>4
    <3>7. StillToRead(j) /\ edits[j].hunk = <<>> => pendingHeader \/ Hidden(j)
      BY DEF StillToRead
    <3>8. QED
      BY <3>1, <3>2, <3>3, <3>4, <3>5, <3>6, <3>7
  <2>5. QED
    BY <1>1, <2>1, <2>2, <2>3, <2>4
<1>4. \A j : HeaderNames(j)' = HeaderNames(j) /\ Halved(HeaderNames(j))' = Halved(HeaderNames(j))
  BY <1>1 DEF HeaderNames, Halved
<1>5. QED
  BY <1>1, <1>2, <1>3, <1>4, Zenon DEF HeadersAreRead, StillToRead

LEMMA CountsAreResetKept ==
  ASSUME ScanTypes, ScanNext
  PROVE  CountsAreReset'
<1>1. /\ edits' = edits /\ position \in Nat
      /\ position' = position + 1 \/ position' = position + 2
  BY ScanMoves DEF ScanTypes
<1>2. \A j : HeaderOf(j)' = HeaderOf(j)
  BY <1>1, HeadersStay
<1>3. ASSUME NEW j \in DOMAIN edits, position' \in {HeaderOf(j) + 1, HeaderOf(j) + 2}
      PROVE  remainingOld' = 0 /\ remainingNew' = 0
  <2>1. PICK b \in Nat : b = HeaderOf(j)
    BY HeadIs
  <2>2. position >= b
    BY <1>1, <1>3, <2>1, BeforeGit
  <2>3. position = b \/ position = b + 1
    BY <1>1, <1>3, <2>1, <2>2
  <2>4. CASE position = b
    BY <2>1, <2>4, AtGit
  <2>5. CASE position = b + 1
    BY <2>1, <2>5, AtMode
  <2>6. QED
    BY <2>3, <2>4, <2>5
<1>4. QED
  BY <1>1, <1>2, <1>3, Zenon DEF CountsAreReset

LEMMA CountsAreExactKept ==
  ASSUME ScanTypes, CountsAreReset, CountsAreExact, ScanNext, ~Split
  PROVE  CountsAreExact'
<1>1. /\ edits' = edits /\ position \in Nat
      /\ position' = position + 1 \/ position' = position + 2
  BY ScanMoves DEF ScanTypes
<1>2. \A j : HeaderOf(j)' = HeaderOf(j)
  BY <1>1, HeadersStay
<1>3. ASSUME NEW j \in DOMAIN edits, edits[j].hunk # <<>>
      PROVE  /\ position' # HeaderOf(j) + 3
             /\ \A k \in 1..(Len(edits[j].hunk) + 1) : position' = HeaderOf(j) + 4 + k =>
                  /\ remainingOld' = LeftOf(edits[j].hunk, k, {" ", "-"})
                  /\ remainingNew' = LeftOf(edits[j].hunk, k, {" ", "+"})
  <2>1. PICK b \in Nat : b = HeaderOf(j)
    BY HeadIs
  <2>2. PICK n \in Nat : n = Len(edits[j].hunk)
    BY <1>3, HunkIs
  <2>3. PICK hunk : hunk = edits[j].hunk
    OBVIOUS
  <2>4. position # b + 3
    BY <1>3, <2>1 DEF CountsAreExact
  <2>5. ASSUME NEW k \in Nat, k \in 1..(n + 1), position = b + 4 + k
        PROVE  remainingOld = LeftOf(hunk, k, {" ", "-"}) /\ remainingNew = LeftOf(hunk, k, {" ", "+"})
    BY <1>3, <2>1, <2>2, <2>3, <2>5, Zenon DEF CountsAreExact
  <2>6. position = b + 1 => position' = position + 1
    BY <2>1, AtMode, Zenon
  <2>7. position = b + 2 => position' = position + 2
    <3>1. ASSUME position = b + 2
          PROVE  position' = position + 2
      <4>1. remainingOld = 0 /\ remainingNew = 0
        BY <2>1, <3>1 DEF CountsAreReset
      <4>2. QED
        BY <1>3, <2>1, <3>1, <4>1, AtOld, Zenon
    <3>2. QED
      BY <3>1
  <2>8. position' # b + 3
    BY <1>1, <2>6, <2>7
  <2>9. ASSUME position = b + 4
        PROVE  /\ position' = position + 1
               /\ remainingOld' = LeftOf(hunk, 1, {" ", "-"})
               /\ remainingNew' = LeftOf(hunk, 1, {" ", "+"})
    BY <1>3, <2>1, <2>3, <2>9, AtHunk, Zenon
  <2>10. ASSUME NEW k \in Nat, k \in 1..n, position = b + 4 + k
         PROVE  /\ position' = position + 1
                /\ remainingOld' = LeftOf(hunk, k + 1, {" ", "-"})
                /\ remainingNew' = LeftOf(hunk, k + 1, {" ", "+"})
    <3>1. k \in 1..(n + 1)
      BY <2>10
    <3>2. remainingOld = LeftOf(hunk, k, {" ", "-"}) /\ remainingNew = LeftOf(hunk, k, {" ", "+"})
      BY <2>5, <2>10, <3>1, Zenon
    <3>3. hunk # <<>> /\ k \in 1..Len(hunk)
      BY <1>3, <2>2, <2>3, <2>10, Zenon
    <3>4. QED
      BY <2>1, <2>3, <2>10, <3>2, <3>3, AtBody, Zenon
  <2>11. ASSUME NEW k \in 1..(n + 1), position' = b + 4 + k
         PROVE  /\ remainingOld' = LeftOf(hunk, k, {" ", "-"})
                /\ remainingNew' = LeftOf(hunk, k, {" ", "+"})
    <3>1. CASE k = 1
      <4>1. position = b + 4
        BY <1>1, <2>4, <2>11, <3>1
      <4>2. QED
        BY <2>9, <3>1, <4>1
    <3>2. CASE k > 1
      <4>1. PICK l \in Nat : k = l + 1 /\ l \in 1..n
        <5>1. k - 1 \in Nat /\ k = (k - 1) + 1 /\ k - 1 \in 1..n
          BY <3>2
        <5>2. QED
          BY <5>1
      <4>2. position = b + 4 + l \/ position = b + 3 + l
        BY <1>1, <2>11, <4>1
      <4>3. CASE position = b + 4 + l
        BY <2>10, <4>1, <4>3
      <4>4. CASE position = b + 3 + l
        <5>1. CASE l = 1
          <6>1. position = b + 4
            BY <4>4, <5>1
          <6>2. position' = position + 1
            BY <2>9, <6>1
          <6>3. position' # b + 4 + k
            BY <4>1, <5>1, <6>1, <6>2
          <6>4. QED
            BY <2>11, <6>3, Zenon
        <5>2. CASE l > 1
          <6>1. PICK m \in Nat : l = m + 1 /\ m \in 1..n
            <7>1. l - 1 \in Nat /\ l = (l - 1) + 1 /\ l - 1 \in 1..n
              BY <4>1, <5>2
            <7>2. QED
              BY <7>1
          <6>2. position = b + 4 + m
            BY <4>4, <6>1
          <6>3. position' = position + 1
            BY <2>10, <6>1, <6>2
          <6>4. position' # b + 4 + k
            BY <4>1, <6>1, <6>2, <6>3
          <6>5. QED
            BY <2>11, <6>4, Zenon
        <5>3. l = 1 \/ l > 1
          BY <4>1
        <5>4. QED
          BY <5>1, <5>2, <5>3, Zenon
      <4>5. QED
        BY <4>2, <4>3, <4>4
    <3>3. k = 1 \/ k > 1
      BY <2>11
    <3>4. QED
      BY <3>1, <3>2, <3>3, Zenon
  <2>12. QED
    BY <2>1, <2>2, <2>3, <2>8, <2>11, Zenon
<1>4. ASSUME NEW j \in DOMAIN edits', edits'[j].hunk # <<>>
      PROVE  /\ position' # HeaderOf(j)' + 3
             /\ \A k \in 1..(Len(edits'[j].hunk) + 1) : position' = HeaderOf(j)' + 4 + k =>
                  /\ remainingOld' = LeftOf(edits'[j].hunk, k, {" ", "-"})
                  /\ remainingNew' = LeftOf(edits'[j].hunk, k, {" ", "+"})
  BY <1>1, <1>2, <1>3, <1>4, Zenon
<1>5. QED
  BY <1>4, Zenon DEF CountsAreExact, LeftOf

\* Where a header is to be made up for.
LEMMA PendingIsAt ==
  ASSUME ScanTypes, NEW j \in DOMAIN edits, edits[j].hunk # <<>>,
         position \in {HeaderOf(j) + 1, HeaderOf(j) + 2}
  PROVE  /\ \/ position = HeaderOf(j) + 1 /\ ThisLine.form = "text" /\ ThisLine.marker = "m"
            \/ position = HeaderOf(j) + 2 /\ ThisLine.form = "old"
         /\ position <= Len(patch)
<1>1. PICK b \in Nat : b = HeaderOf(j) /\ Len(patch) \in Nat /\ b + 4 <= Len(patch)
  BY HeadIs
<1>2. position <= Len(patch)
  BY <1>1
<1>3. CASE position = b + 1
  <2>1. patch[b + 1].form = "text" /\ patch[b + 1].marker = "m"
    BY <1>1, HeadIs, Zenon
  <2>2. ThisLine.form = "text" /\ ThisLine.marker = "m"
    BY <1>3, <2>1, Zenon DEF ThisLine
  <2>3. QED
    BY <1>1, <1>2, <1>3, <2>2, Zenon
<1>4. CASE position = b + 2
  <2>1. ThisLine = OldLine(edits[j]) /\ edits[j] \in Changes
    BY <1>1, <1>4, HeadIs DEF ThisLine
  <2>2. ThisLine.form = "old"
    BY <2>1, FormsOfHeader, Zenon
  <2>3. QED
    BY <1>1, <1>2, <1>4, <2>2
<1>5. QED
  BY <1>1, <1>3, <1>4

\* The kinds of line, and what a change leaves to be made up for.
LEMMA OnlyHeadersAreReadKept ==
  ASSUME ScanTypes, CountsAreReset, CountsAreExact, OnlyHeadersAreRead, ScanNext,
         ~Split, ~Ambiguous, ~Halfway
  PROVE  OnlyHeadersAreRead'
<1>1. /\ edits' = edits /\ position \in 1..Len(patch) /\ position \in Nat
      /\ problems \in BOOLEAN /\ pendingHeader \in BOOLEAN
  BY ScanMoves DEF ScanTypes
<1>2. \A j : HeaderOf(j)' = HeaderOf(j)
  BY <1>1, HeadersStay
<1>3. PICK j \in DOMAIN edits, i \in Nat :
         i \in 1..Len(Printed(edits[j])) /\ position = HeaderOf(j) + i - 1
  BY <1>1, LineOfChange, Zenon
<1>4. PICK b \in Nat : b = HeaderOf(j)
  BY HeadIs
<1>5. PICK m \in Nat : m = Len(Printed(edits[j]))
  <2>1. Printed(edits[j]) \in Seq(PatchLines)
    BY LinesOf, PrintedIs
  <2>2. QED
    BY <2>1, LenProperties
<1>6. i \in 1..m /\ position = b + i - 1
  BY <1>3, <1>4, <1>5
<1>7. {edits[j].from, edits[j].to} \subseteq Touched
  BY DEF Touched
<1>8. ASSUME UNCHANGED <<pendingHeader, scanned, problems>>, ~pendingHeader
      PROVE  OnlyHeadersAreRead'
  <2>1. Touched' = Touched
    BY <1>1 DEF Touched
  <2>2. QED
    BY <1>8, <2>1 DEF OnlyHeadersAreRead
<1>9. ASSUME pendingHeader
      PROVE  \E l \in DOMAIN edits :
               /\ edits[l].hunk # <<>>
               /\ \/ position = HeaderOf(l) + 1 /\ ThisLine.form = "text" /\ ThisLine.marker = "m"
                  \/ position = HeaderOf(l) + 2 /\ ThisLine.form = "old"
  BY <1>9, PendingIsAt DEF OnlyHeadersAreRead
<1>10. Touched' = Touched
  BY <1>1 DEF Touched
<1>11. CASE position = b
  <2>1. ThisLine.form = "git"
    BY <1>4, <1>11, HeadIs DEF ThisLine
  <2>2. ~pendingHeader
    BY <1>9, <2>1
  <2>3. /\ problems' = (problems \/ pendingHeader)
        /\ pendingHeader' = ~Readable(HeaderNames(j))
        /\ ~pendingHeader' => scanned' = scanned \cup {edits[j].from, edits[j].to}
        /\ pendingHeader' => scanned' = scanned
        /\ position' = position + 1
    BY <1>4, <1>11, AtGit DEF Halfway
  <2>4. ~problems' /\ scanned' \subseteq Touched
    BY <1>7, <2>2, <2>3 DEF OnlyHeadersAreRead
  <2>5. pendingHeader' => edits[j].hunk # <<>>
    BY <2>3 DEF Ambiguous
  <2>6. pendingHeader' => \E l \in DOMAIN edits' :
           edits'[l].hunk # <<>> /\ position' \in {HeaderOf(l)' + 1, HeaderOf(l)' + 2}
    BY <1>1, <1>2, <1>4, <1>11, <2>3, <2>5
  <2>7. QED
    BY <1>10, <2>4, <2>6 DEF OnlyHeadersAreRead
<1>12. CASE position = b + 1
  <2>1. /\ position' = position + 1 /\ UNCHANGED <<pendingHeader, scanned, problems>>
        /\ ThisLine.form = "text"
    BY <1>4, <1>12, AtMode, HeadIs DEF ThisLine
  <2>2. pendingHeader => \E l \in DOMAIN edits :
           edits[l].hunk # <<>> /\ position = HeaderOf(l) + 1
    BY <1>9, <2>1
  <2>3. ASSUME pendingHeader
        PROVE  \E l \in DOMAIN edits' :
                 edits'[l].hunk # <<>> /\ position' \in {HeaderOf(l)' + 1, HeaderOf(l)' + 2}
    <3>1. PICK l \in DOMAIN edits : edits[l].hunk # <<>> /\ position = HeaderOf(l) + 1
      BY <2>2, <2>3
    <3>2. PICK e \in Nat : e = HeaderOf(l)
      BY HeadIs
    <3>3. position' = e + 2
      BY <2>1, <3>1, <3>2
    <3>4. QED
      BY <1>1, <1>2, <3>1, <3>2, <3>3
  <2>4. QED
    BY <1>10, <2>1, <2>3 DEF OnlyHeadersAreRead
<1>13. ASSUME position # b, position # b + 1
       PROVE  edits[j].hunk # <<>>
  <2>1. edits[j].hunk = <<>> => m = 2
    BY <1>5, LinesOf, PrintedIs
  <2>2. m # 2
    BY <1>13, <1>6
  <2>3. QED
    BY <2>1, <2>2
<1>14. CASE position = b + 2
  <2>1. edits[j].hunk # <<>>
    BY <1>13, <1>14
  <2>2. remainingOld = 0 /\ remainingNew = 0
    BY <1>4, <1>14 DEF CountsAreReset
  <2>3. /\ problems' = problems /\ pendingHeader' = FALSE
        /\ scanned' = scanned \cup {edits[j].from, edits[j].to}
    BY <1>4, <1>14, <2>1, <2>2, AtOld
  <2>4. QED
    BY <1>7, <1>10, <2>3 DEF OnlyHeadersAreRead
<1>15. position # b + 3
  <2>1. position = b + 3 => edits[j].hunk # <<>>
    BY <1>13
  <2>2. QED
    BY <1>4, <2>1 DEF CountsAreExact
<1>16. CASE position = b + 4
  <2>1. edits[j].hunk # <<>>
    BY <1>13, <1>16
  <2>2. ThisLine = HunkLine(edits[j]) /\ edits[j] \in Changes
    BY <1>4, <1>16, <2>1, HeadIs DEF ThisLine
  <2>3. ThisLine.form = "hunk"
    BY <2>2, FormsOfHeader, Zenon
  <2>4. ~pendingHeader
    BY <1>9, <2>3
  <2>5. UNCHANGED <<pendingHeader, scanned, problems>>
    BY <1>4, <1>16, <2>1, AtHunk, Zenon
  <2>6. QED
    BY <1>8, <2>4, <2>5
<1>17. CASE position > b + 4
  <2>1. edits[j].hunk # <<>>
    BY <1>13, <1>17
  <2>2. PICK hunk : hunk = edits[j].hunk
    OBVIOUS
  <2>3. PICK n \in Nat : n = Len(hunk) /\ Len(Printed(edits[j])) = 5 + n
    BY <2>1, <2>2, HunkIs
  <2>4. PICK k \in Nat : k \in 1..n /\ position = b + 4 + k
    <3>1. i - 5 \in 1..n /\ i - 5 \in Nat /\ position = b + 4 + (i - 5)
      BY <1>3, <1>4, <1>17, <2>3
    <3>2. QED
      BY <3>1
  <2>5. k \in 1..(n + 1)
    BY <2>4
  <2>6. remainingOld = LeftOf(hunk, k, {" ", "-"}) /\ remainingNew = LeftOf(hunk, k, {" ", "+"})
    BY <1>4, <2>1, <2>2, <2>3, <2>4, <2>5, Zenon DEF CountsAreExact
  <2>7. /\ InBody \/ (ThisLine.form = "text" /\ ThisLine.marker = "end")
        /\ UNCHANGED <<pendingHeader, scanned, problems>>
    BY <1>4, <2>1, <2>2, <2>3, <2>4, <2>6, AtBody, Zenon
  <2>8. ~pendingHeader
    <3>1. ASSUME NEW l \in DOMAIN edits, position = HeaderOf(l) + 2
          PROVE  ~InBody
      <4>1. remainingOld = 0 /\ remainingNew = 0
        BY <3>1 DEF CountsAreReset
      <4>2. QED
        BY <4>1 DEF InBody
    <3>2. ThisLine.marker = "m" => ~InBody
      BY StepIs, Zenon DEF InBody
    <3>3. "m" # "end" /\ "old" # "text"
      OBVIOUS
    <3>4. QED
      BY <1>9, <2>7, <3>1, <3>2, <3>3, Zenon
  <2>9. QED
    BY <1>8, <2>7, <2>8
<1>18. position = b \/ position = b + 1 \/ position = b + 2 \/ position = b + 3 \/ position = b + 4
       \/ position > b + 4
  BY <1>6
<1>19. QED
  BY <1>11, <1>12, <1>14, <1>15, <1>16, <1>17, <1>18, Zenon

LEMMA ReportIsOfPatchKept ==
  ASSUME ReportIsOfPatch, PatchNext
  PROVE  ReportIsOfPatch'
<1>1. CASE ScanNext
  <2>1. report' = report /\ ~report.done
    BY <1>1 DEF ScanNext, BodyLine, HunkHeader, GitHeader, CombinedHeader, FileHeader, OtherLine, Moves, Scanning
  <2>2. QED
    BY <2>1 DEF ReportIsOfPatch
<1>2. CASE VerifyPatch
  <2>1. PICK allowed \in Scopes, own \in BOOLEAN :
           report' = [done |-> TRUE, accepted |-> AcceptsPatch(allowed, own),
                      allowed |-> allowed, own |-> own]
    BY <1>2, Zenon DEF VerifyPatch
  <2>2. /\ position > Len(patch)
        /\ UNCHANGED <<patch, position, pendingHeader, scanned, problems>>
    BY <1>2, Zenon DEF VerifyPatch
  <2>3. report'.allowed = allowed /\ report'.own = own /\ report'.accepted = AcceptsPatch(allowed, own)
    BY <2>1
  <2>4. AcceptsPatch(allowed, own)' = AcceptsPatch(allowed, own)
    BY <2>2 DEF AcceptsPatch, UnreadPatch
  <2>5. QED
    BY <2>2, <2>3, <2>4, Zenon DEF ReportIsOfPatch
<1>3. QED
  BY <1>1, <1>2 DEF PatchNext

LEMMA ScanStarts ==
  ASSUME PatchConstants, PatchInit
  PROVE  ScanInvariant
<1>1. /\ edits \in Seq(Changes) /\ position = 1 /\ pendingHeader = FALSE
      /\ remainingOld = 0 /\ remainingNew = 0 /\ scanned = {} /\ problems = FALSE /\ ~report.done
  BY DEF PatchConstants, PatchInit
<1>2. patch = FlattenSeq(Prints)
  BY Zenon DEF PatchInit, Prints
<1>3. ScanTypes
  <2>1. 1 \in Nat \ {0}
    OBVIOUS
  <2>2. pendingHeader \in BOOLEAN /\ problems \in BOOLEAN
    BY <1>1, Zenon
  <2>3. QED
    BY <1>1, <1>2, <2>1, <2>2, Zenon DEF ScanTypes
<1>4. \A j \in DOMAIN edits : HeaderOf(j) \in Nat /\ HeaderOf(j) >= 1
  BY <1>3, LinesOf
<1>5. HeadersAreRead
  BY <1>1, <1>4 DEF HeadersAreRead
<1>6. CountsAreReset
  BY <1>1 DEF CountsAreReset
<1>7. ~Split => CountsAreExact
  <2>1. ASSUME NEW j \in DOMAIN edits, ~Split, edits[j].hunk # <<>>
        PROVE  /\ position # HeaderOf(j) + 3
               /\ \A k \in 1..(Len(edits[j].hunk) + 1) : position # HeaderOf(j) + 4 + k
    <3>1. PICK n \in Nat : n = Len(edits[j].hunk)
      BY <1>3, <2>1, HunkIs
    <3>2. PICK b \in Nat : b = HeaderOf(j) /\ b >= 1
      BY <1>4
    <3>3. 1 # b + 3 /\ \A k \in 1..(n + 1) : 1 # b + 4 + k
      BY <3>2
    <3>4. QED
      BY <1>1, <3>1, <3>2, <3>3, Zenon
  <2>2. QED
    BY <2>1, Zenon DEF CountsAreExact
<1>8. OnlyHeadersAreRead
  BY <1>1 DEF OnlyHeadersAreRead
<1>9. ReportIsOfPatch
  BY <1>1 DEF ReportIsOfPatch
<1>10. QED
  BY <1>3, <1>5, <1>6, <1>7, <1>8, <1>9 DEF ScanInvariant

LEMMA CountsStay ==
  ASSUME CountsAreExact, UNCHANGED <<edits, position, remainingOld, remainingNew>>
  PROVE  CountsAreExact'
<1>1. edits' = edits /\ position' = position /\ remainingOld' = remainingOld /\ remainingNew' = remainingNew
  OBVIOUS
<1>2. \A j : HeaderOf(j)' = HeaderOf(j)
  BY <1>1, HeadersStay
<1>3. ASSUME NEW j \in DOMAIN edits', edits'[j].hunk # <<>>
      PROVE  /\ position' # HeaderOf(j)' + 3
             /\ \A k \in 1..(Len(edits'[j].hunk) + 1) : position' = HeaderOf(j)' + 4 + k =>
                  /\ remainingOld' = LeftOf(edits'[j].hunk, k, {" ", "-"})
                  /\ remainingNew' = LeftOf(edits'[j].hunk, k, {" ", "+"})
  BY <1>1, <1>2, <1>3, Zenon DEF CountsAreExact
<1>4. QED
  BY <1>3, Zenon DEF CountsAreExact, LeftOf

LEMMA ScanGoesOn ==
  ASSUME ScanInvariant, [PatchNext]_scanVars
  PROVE  ScanInvariant'
<1>1. CASE ScanNext
  <2>1. PatchNext
    BY <1>1 DEF PatchNext
  <2>2. ScanTypes' /\ ReportIsOfPatch' /\ HeadersAreRead' /\ CountsAreReset'
    BY <1>1, <2>1, TypesKept, ReportIsOfPatchKept, HeadersAreReadKept, CountsAreResetKept DEF ScanInvariant
  <2>3. edits' = edits
    BY <1>1, ScanMoves DEF ScanInvariant
  <2>4. Split' = Split /\ Ambiguous' = Ambiguous /\ Halfway' = Halfway
    BY <2>3 DEF Split, Ambiguous, Halfway, HeaderNames
  <2>5. ~Split => CountsAreExact'
    BY <1>1, CountsAreExactKept DEF ScanInvariant
  <2>6. ~Split /\ ~Ambiguous /\ ~Halfway => OnlyHeadersAreRead'
    BY <1>1, OnlyHeadersAreReadKept DEF ScanInvariant
  <2>7. QED
    BY <2>2, <2>4, <2>5, <2>6 DEF ScanInvariant
<1>2. CASE VerifyPatch
  <2>1. PatchNext
    BY <1>2 DEF PatchNext
  <2>2. ScanTypes' /\ ReportIsOfPatch'
    BY <2>1, TypesKept, ReportIsOfPatchKept DEF ScanInvariant
  <2>3. UNCHANGED <<edits, patch, position, pendingHeader, remainingOld, remainingNew, scanned, problems>>
    BY <1>2, Zenon DEF VerifyPatch
  <2>4. Split' = Split /\ Ambiguous' = Ambiguous /\ Halfway' = Halfway /\ Touched' = Touched
    BY <2>3 DEF Split, Ambiguous, Halfway, HeaderNames, Touched
  <2>5. \A j : HeaderOf(j)' = HeaderOf(j)
    BY <2>3, HeadersStay
  <2>6. (HeadersAreRead => HeadersAreRead') /\ (CountsAreReset => CountsAreReset')
    BY <2>3, <2>5 DEF HeadersAreRead, StillToRead, HeaderNames, Halved, CountsAreReset
  <2>7. CountsAreExact => CountsAreExact'
    BY <2>3, CountsStay
  <2>8. OnlyHeadersAreRead => OnlyHeadersAreRead'
    BY <2>3, <2>4, <2>5, Zenon DEF OnlyHeadersAreRead
  <2>9. QED
    BY <2>2, <2>4, <2>6, <2>7, <2>8 DEF ScanInvariant
<1>3. CASE UNCHANGED scanVars
  <2>1. UNCHANGED <<edits, patch, position, pendingHeader, remainingOld, remainingNew, scanned, problems, report>>
    BY <1>3 DEF scanVars
  <2>2. Split' = Split /\ Ambiguous' = Ambiguous /\ Halfway' = Halfway /\ Touched' = Touched
    BY <2>1 DEF Split, Ambiguous, Halfway, HeaderNames, Touched
  <2>3. Prints' = Prints /\ \A j : HeaderOf(j)' = HeaderOf(j)
    BY <2>1, HeadersStay
  <2>4. (HeadersAreRead => HeadersAreRead') /\ (CountsAreReset => CountsAreReset')
    BY <2>1, <2>3 DEF HeadersAreRead, StillToRead, HeaderNames, Halved, CountsAreReset
  <2>5. CountsAreExact => CountsAreExact'
    BY <2>1, CountsStay
  <2>6. OnlyHeadersAreRead => OnlyHeadersAreRead'
    BY <2>1, <2>2, <2>3, Zenon DEF OnlyHeadersAreRead
  <2>7. ReportIsOfPatch => ReportIsOfPatch'
    BY <2>1, Zenon DEF ReportIsOfPatch, AcceptsPatch, UnreadPatch
  <2>8. ScanTypes => ScanTypes'
    BY <2>1, <2>3, Zenon DEF ScanTypes
  <2>9. QED
    BY <2>2, <2>4, <2>5, <2>6, <2>7, <2>8 DEF ScanInvariant
<1>4. QED
  BY <1>1, <1>2, <1>3 DEF PatchNext

(* Wherever the reader stands in a patch of git's, whatever the files hold:    *)
(* the paths of every change it has passed are known, or are still to be named *)
(* by the change's file header, or the patch is refused (scan_patch's pending   *)
(* header), or the change is a rename without a hunk whose header splits into   *)
(* two equal names (_git_header_paths); and without a separator in a file its   *)
(* counts are those of the lines to come, so that no line of a file is ever     *)
(* taken for a header.                                                         *)
THEOREM PatchIsScanned == PatchSpec => []ScanInvariant
<1>1. PatchInit => ScanInvariant
  BY PatchConstants, ScanStarts
<1>2. ScanInvariant /\ [PatchNext]_scanVars => ScanInvariant'
  BY ScanGoesOn
<1>3. QED
  BY <1>1, <1>2, PTL DEF PatchSpec

LEMMA ReadToTheEnd ==
  ASSUME ScanInvariant, report.done
  PROVE  ReadExactly
<1>1. /\ ScanTypes /\ HeadersAreRead /\ position > Len(patch)
      /\ problems \in BOOLEAN /\ pendingHeader \in BOOLEAN
  BY DEF ScanInvariant, ReportIsOfPatch, ScanTypes
<1>2. UnreadPatch \/ Misread \/ Touched \subseteq scanned
  <2>1. ASSUME ~problems, ~pendingHeader, ~Misread, NEW j \in DOMAIN edits
        PROVE  {edits[j].from, edits[j].to} \subseteq scanned
    <3>1. PICK b \in Nat : b = HeaderOf(j) /\ Len(patch) \in Nat /\ b + 1 <= Len(patch)
      BY <1>1, HeadIs
    <3>2. position > b
      BY <1>1, <3>1 DEF ScanTypes
    <3>3. ~(edits[j].hunk = <<>> /\ Halved(HeaderNames(j)))
      BY <2>1 DEF Misread
    <3>4. edits[j].hunk # <<>> => ~(position <= b + 2)
      <4>1. edits[j].hunk # <<>> => b + 4 <= Len(patch)
        BY <1>1, <3>1, HeadIs
      <4>2. QED
        BY <1>1, <3>1, <4>1 DEF ScanTypes
    <3>5. QED
      BY <1>1, <2>1, <3>1, <3>2, <3>3, <3>4 DEF HeadersAreRead, StillToRead
  <2>2. QED
    BY <2>1 DEF UnreadPatch, Touched
<1>3. ASSUME patch # <<>>, ~Split, ~Ambiguous, ~Halfway
      PROVE  ~UnreadPatch /\ scanned = Touched
  <2>1. OnlyHeadersAreRead
    BY <1>3 DEF ScanInvariant
  <2>2. ~pendingHeader
    <3>1. ASSUME NEW j \in DOMAIN edits, edits[j].hunk # <<>>,
                 position \in {HeaderOf(j) + 1, HeaderOf(j) + 2}
          PROVE  FALSE
      <4>1. PICK b \in Nat : b = HeaderOf(j) /\ Len(patch) \in Nat /\ b + 4 <= Len(patch)
        BY <1>1, <3>1, HeadIs
      <4>2. QED
        BY <1>1, <3>1, <4>1
    <3>2. QED
      BY <2>1, <3>1 DEF OnlyHeadersAreRead
  <2>3. Touched # {}
    <3>1. DOMAIN edits # {}
      <4>1. PICK n \in Nat : DOMAIN edits = 1..n /\ patch = Laid(Prints, n)
        BY <1>1, PatchIs
      <4>2. n # 0
        BY <1>3, <4>1, NothingLaid
      <4>3. 1 \in 1..n
        BY <4>2
      <4>4. QED
        BY <4>1, <4>3
    <3>2. QED
      BY <3>1 DEF Touched
  <2>4. /\ ~problems /\ scanned \subseteq Touched
    BY <2>1 DEF OnlyHeadersAreRead
  <2>5. ~UnreadPatch \/ scanned = {}
    BY <2>2, <2>4 DEF UnreadPatch
  <2>6. Touched \subseteq scanned
    <3>1. ASSUME NEW j \in DOMAIN edits
          PROVE  {edits[j].from, edits[j].to} \subseteq scanned
      <4>1. PICK b \in Nat : b = HeaderOf(j) /\ Len(patch) \in Nat /\ b + 1 <= Len(patch)
        BY <1>1, HeadIs
      <4>2. position > b
        BY <1>1, <4>1 DEF ScanTypes
      <4>3. QED
        BY <1>1, <1>3, <2>2, <2>4, <4>1, <4>2 DEF HeadersAreRead, StillToRead, Halfway
    <3>2. QED
      BY <3>1 DEF Touched
  <2>7. QED
    BY <2>3, <2>4, <2>5, <2>6
<1>4. QED
  BY <1>2, <1>3, Zenon DEF ReadExactly

LEMMA ScopeHolds ==
  ASSUME ReadExactly, ReportIsOfPatch, report.done
  PROVE  ScopeIsKept
<1> DEFINE Kept == \A path \in Touched :
              /\ \E prefix \in report.allowed : prefix = Whole \/ IsPrefix(prefix, path)
              /\ \A prefix \in Forbidden : ~IsPrefix(prefix, path)
<1>1. report.accepted = AcceptsPatch(report.allowed, report.own)
  BY DEF ReportIsOfPatch
<1>2. ASSUME report.accepted, ~Misread
      PROVE  Kept
  <2>1. AcceptsPatch(report.allowed, report.own)
    BY <1>1, <1>2
  <2>2. patch # <<>> /\ ~UnreadPatch
    BY <2>1 DEF AcceptsPatch
  <2>3. Touched \subseteq scanned
    BY <1>2, <2>2 DEF ReadExactly
  <2>4. scanned # {}
    BY <2>2 DEF UnreadPatch
  <2>5. report.allowed # {}
    BY <2>1, <2>4 DEF AcceptsPatch
  <2>6. \A path \in scanned : InScope(path, report.allowed)
    BY <2>1, <2>5 DEF AcceptsPatch
  <2>7. \A path \in scanned : \A prefix \in Forbidden : ~IsPrefix(prefix, path)
    BY <2>1, Zenon DEF AcceptsPatch, Under
  <2>8. \A path \in scanned : \E prefix \in report.allowed : prefix = Whole \/ IsPrefix(prefix, path)
    BY <2>6, Zenon DEF InScope, Under
  <2>9. QED
    BY <2>3, <2>7, <2>8, Zenon
<1>3. ASSUME Kept, report.own, patch # <<>>, ~Split, ~Ambiguous, ~Halfway
      PROVE  report.accepted
  <2>1. ~UnreadPatch /\ scanned = Touched
    BY <1>3 DEF ReadExactly
  <2>2. \A path \in scanned : \A prefix \in Forbidden : ~Under(path, prefix)
    BY <1>3, <2>1, Zenon DEF Under
  <2>3. \A path \in scanned : \E prefix \in report.allowed : prefix = Whole \/ Under(path, prefix)
    BY <1>3, <2>1, Zenon DEF Under
  <2>4. \A path \in scanned : InScope(path, report.allowed)
    BY <2>3, Zenon DEF InScope
  <2>5. report.allowed = {} => scanned = {}
    BY <2>3
  <2>6. AcceptsPatch(report.allowed, report.own)
    BY <1>3, <2>1, <2>2, <2>4, <2>5, Zenon DEF AcceptsPatch
  <2>7. QED
    BY <1>1, <2>6, Zenon
<1>4. QED
  BY <1>2, <1>3, Zenon DEF ScopeIsKept

(* verify_patch_before_apply accepts a patch only if every path it changes, on *)
(* both sides of a rename, lies in the task's scope and outside what is         *)
(* forbidden, unless a rename without a hunk has a header that splits into two  *)
(* equal names: that one is judged by a path it does not have.  Every patch      *)
(* that keeps to its scope and is read exactly is accepted.                     *)
THEOREM PatchesKeepToScope == PatchSpec => []PatchesAreInScope
<1>1. ScanInvariant => PatchesAreInScope
  <2>1. CASE ~report.done
    BY <2>1, Zenon DEF PatchesAreInScope, ReadExactly, ScopeIsKept
  <2>2. CASE report.done
    BY <2>2, ReadToTheEnd, ScopeHolds, Zenon DEF ScanInvariant, PatchesAreInScope
  <2>3. QED
    BY <2>1, <2>2
<1>2. QED
  BY <1>1, PatchIsScanned, PTL
=============================================================================
