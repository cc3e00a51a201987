----------------------------- MODULE OAuthTokens -----------------------------
(***************************************************************************)
(* The OAuth tokens of remote agents: OAuthClient (oauth.py) over the       *)
(* token files of the user (oauth_store.py), the `a2a-login` command, and   *)
(* the authorization server as the client uses it.                          *)
(*                                                                          *)
(* Processes share the token file and nothing else: no lease is held from   *)
(* reading a refresh token to saving its successor.                         *)
(***************************************************************************)
EXTENDS Integers, FiniteSets

CONSTANTS
    Processes,
    MaxTokens,   \* bound: answers of the server
    MaxLosses    \* bound: answers lost and processes stopped

VARIABLES
    flow,      \* configured: "device_code" or "client_credentials"
    rotating,  \* the server replaces a refresh token when it is used
    live,      \* the refresh tokens the server accepts
    current,   \* the access tokens that have not expired
    issued,    \* answers of the server so far: they number the tokens
    losses,    \* answers lost and processes stopped so far
    store,     \* the token file
    cache,     \* _TOKEN_CACHE of each process
    client     \* per process, where it is and the token it holds

oauthVars == <<flow, rotating, live, current, issued, losses, store, cache, client>>

server == <<flow, rotating, live, current, issued, losses>>

-----------------------------------------------------------------------------
\* Tokens are numbered; 0 is none.
NoToken == [access |-> 0, refresh |-> 0]

Resting == [pc |-> "idle", token |-> NoToken, got |-> 0]

OAuthInit ==
    /\ flow \in {"device_code", "client_credentials"}
    /\ rotating \in BOOLEAN
    /\ live = {} /\ current = {} /\ issued = 0 /\ losses = 0
    /\ store = NoToken
    /\ cache = [p \in Processes |-> NoToken]
    /\ client = [p \in Processes |-> Resting]

Local(p, pc, token) == client' = [client EXCEPT ![p] = [pc |-> pc, token |-> token, got |-> 0]]

Valid(token) == token.access \in current

\* access_token returns.
Gets(p, token) ==
    client' = [client EXCEPT ![p] = [Resting EXCEPT !.got = token.access]]

-----------------------------------------------------------------------------
(* access_token: the cached token, the saved one, a refresh of the saved one, *)
(* then whatever the flow gives without the user.                             *)
UseCached(p) ==
    /\ client[p].pc = "idle" /\ Valid(cache[p])
    /\ Gets(p, cache[p])
    /\ UNCHANGED server /\ UNCHANGED <<store, cache>>

UseSaved(p) ==
    /\ client[p].pc = "idle" /\ ~Valid(cache[p]) /\ Valid(store)
    /\ cache' = [cache EXCEPT ![p] = store]
    /\ Gets(p, store)
    /\ UNCHANGED server /\ UNCHANGED store

Ask(p) ==
    /\ client[p].pc = "idle" /\ ~Valid(cache[p]) /\ ~Valid(store)
    /\ IF store.refresh # 0 THEN Local(p, "refresh", store)
       ELSE flow = "client_credentials" /\ Local(p, "credentials", NoToken)
    /\ UNCHANGED server /\ UNCHANGED <<store, cache>>

\* The server's answer: a new access token, and perhaps a refresh token.
Issue(refresh) ==
    /\ issued < MaxTokens
    /\ issued' = issued + 1
    /\ current' = current \cup {issued + 1}
    /\ UNCHANGED <<flow, rotating, losses>>

\* Slip: the answer is saved as it came, without refresh token if it has none.
RefreshedOnly(old, answer) == answer

\* _refresh_access_token: a server that keeps the refresh token may leave it out.
Refreshed(old, answer) == IF answer.refresh = 0 THEN [answer EXCEPT !.refresh = old] ELSE answer

Refresh(p) ==
    LET old == client[p].token.refresh  new == issued + 1 IN
    /\ client[p].pc = "refresh" /\ old \in live
    /\ Issue(new)
    /\ IF rotating
       THEN /\ live' = (live \ {old}) \cup {new}
            /\ Local(p, "save", Refreshed(old, [access |-> new, refresh |-> new]))
       ELSE /\ live' = live
            /\ Local(p, "save", Refreshed(old, [access |-> new, refresh |-> 0]))
    /\ UNCHANGED <<store, cache>>

\* A refresh token the server does not know, or a request that never arrives.
RefreshFails(p) ==
    /\ client[p].pc = "refresh"
    /\ Local(p, "idle", NoToken)
    /\ UNCHANGED server /\ UNCHANGED <<store, cache>>

\* The token of the client itself is not saved.
ClientCredentials(p) ==
    /\ client[p].pc = "credentials"
    /\ Issue(0) /\ UNCHANGED live
    /\ cache' = [cache EXCEPT ![p] = [access |-> issued + 1, refresh |-> 0]]
    /\ Gets(p, [access |-> issued + 1, refresh |-> 0])
    /\ UNCHANGED store

-----------------------------------------------------------------------------
(* authorize_device. *)
Login(p) ==
    /\ flow = "device_code" /\ client[p].pc = "idle" /\ issued < MaxTokens
    /\ Local(p, "device", NoToken)
    /\ UNCHANGED server /\ UNCHANGED <<store, cache>>

\* Pending and slow_down are asked again; the user signs in.
Granted(p) ==
    /\ client[p].pc = "device"
    /\ Issue(issued + 1)
    /\ live' = live \cup {issued + 1}
    /\ Local(p, "save", [access |-> issued + 1, refresh |-> issued + 1])
    /\ UNCHANGED <<store, cache>>

\* Denied, expired, or not done before the deadline.
LoginFails(p) ==
    /\ client[p].pc = "device"
    /\ Local(p, "idle", NoToken)
    /\ UNCHANGED server /\ UNCHANGED <<store, cache>>

-----------------------------------------------------------------------------
\* _cache_token, then OAuthTokenStore.save: the file is replaced.
Save(p) ==
    /\ client[p].pc = "save"
    /\ cache' = [cache EXCEPT ![p] = client[p].token]
    /\ store' = client[p].token
    /\ Gets(p, client[p].token)
    /\ UNCHANGED server

\* The answer is lost, the file cannot be written, or the process stops: what
\* it held is gone.
Lose(p) ==
    /\ client[p].pc = "save" /\ losses < MaxLosses
    /\ losses' = losses + 1
    /\ \/ cache' = [cache EXCEPT ![p] = client[p].token]
       \/ cache' = [cache EXCEPT ![p] = NoToken]
    /\ client' = [client EXCEPT ![p] = Resting]
    /\ UNCHANGED <<flow, rotating, live, current, issued, store>>

Expire ==
    /\ \E a \in current : current' = current \ {a}
    /\ UNCHANGED <<flow, rotating, live, issued, losses, store, cache, client>>

-----------------------------------------------------------------------------
Token(p) ==
    \/ UseCached(p) \/ UseSaved(p) \/ Ask(p) \/ Refresh(p) \/ RefreshFails(p)
    \/ ClientCredentials(p) \/ Login(p) \/ Granted(p) \/ LoginFails(p)
    \/ Save(p) \/ Lose(p)

OAuthNext == Expire \/ \E p \in Processes : Token(p)

OAuthSpec == OAuthInit /\ [][OAuthNext]_oauthVars

-----------------------------------------------------------------------------
(* Who signed in stays signed in: as long as no answer was lost, the saved    *)
(* refresh token is one the server accepts, or a process is about to save    *)
(* its successor, however many processes refresh or sign in at once.         *)
SignedInStays ==
    losses = 0 /\ store # NoToken =>
        \/ store.refresh \in live
        \/ \E p \in Processes : client[p].pc = "save" /\ client[p].token.refresh \in live
=============================================================================
