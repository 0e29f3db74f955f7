--------------------------- MODULE OAuthSessions ---------------------------
(***************************************************************************)
(* The sign-in flow of app/api/auth.py on the in-memory store of           *)
(* app/core/oauth_store.py.  Route handlers run in a thread pool; every    *)
(* method of the store takes its lock, so it is one step, and the exchange *)
(* with the provider happens between two of them.  Time passes in between. *)
(* The process may restart at any point, and nothing survives it.          *)
(***************************************************************************)
EXTENDS Integers, FiniteSets

CONSTANTS
    Requests,   \* request threads
    StateIds,   \* tokens of create_state
    SessionIds, \* tokens of create_session
    MinTTL,     \* the 60 seconds no lifetime is shorter than
    StateTTL,   \* oauth_state_ttl_seconds
    SessionTTL, \* oauth_session_ttl_seconds
    ExpiresIn,  \* values of expires_in in token responses, None if absent
    CodexFile,  \* whether a local Codex token file replaces the provider: the
                \* cases to consider
    Rotating,   \* whether the provider accepts a refresh token only once: the
                \* cases to consider
    MaxTime,    \* bound on the clock
    None        \* nothing

ASSUME ParameterAssumption ==
    /\ {MinTTL, StateTTL, SessionTTL, MaxTime} \subseteq Nat
    /\ MinTTL > 0
    /\ ExpiresIn \subseteq Int \cup {None}
    /\ CodexFile \subseteq BOOLEAN /\ Rotating \subseteq BOOLEAN
    /\ None \notin StateIds \cup SessionIds \cup Int

\* A sign-in is named by the first session it led to; refreshes continue it.
\* token is the refresh token the session holds: the generation the provider
\* issued, or None.
SessionRecord == [expires: Nat, login: SessionIds, token: Nat \cup {None}]

ASSUME RecordAssumption == None \notin SessionRecord

VARIABLES
    codex,    \* this deployment has a Codex token file
    rotating, \* this deployment's provider rotates refresh tokens
    now,      \* the clock
    states,   \* states[x]: when state x expires, or None
    redeemed, \* redeemed[x]: how many callbacks got state x from the store
    sessions, \* sessions[i]: the stored session, or None
    issued,   \* ids create_session has handed out
    current,  \* current[l]: the provider's latest refresh token of sign-in l
    closed,   \* sign-ins that were logged out while no refresh was under way
    req       \* req[r]: what the thread r is doing

config == <<codex, rotating>>
vars == <<config, now, states, redeemed, sessions, issued, current, closed, req>>

Idle == [pc |-> "idle"]
Threads ==
    {Idle}
    \cup [pc: {"redeemed"}, expiresIn: ExpiresIn \cup {None}]
    \cup [pc: {"read", "exchanged"}, old: SessionIds, seen: SessionRecord]
    \cup [pc: {"renewed"}, old: SessionIds, new: SessionIds, login: SessionIds, until: Nat]

TypeOK ==
    /\ codex \in CodexFile /\ rotating \in Rotating
    /\ now \in 0..MaxTime
    /\ states \in [StateIds -> Nat \cup {None}]
    /\ redeemed \in [StateIds -> Nat]
    /\ sessions \in [SessionIds -> SessionRecord \cup {None}]
    /\ issued \subseteq SessionIds
    /\ current \in [SessionIds -> Nat]
    /\ closed \subseteq SessionIds
    /\ req \in [Requests -> Threads]

Init ==
    /\ codex \in CodexFile /\ rotating \in Rotating
    /\ now = 0
    /\ states = [x \in StateIds |-> None]
    /\ redeemed = [x \in StateIds |-> 0]
    /\ sessions = [i \in SessionIds |-> None]
    /\ issued = {}
    /\ current = [l \in SessionIds |-> 0]
    /\ closed = {}
    /\ req = [r \in Requests |-> Idle]

-----------------------------------------------------------------------------
(* The store: every method but delete_session first drops what has expired. *)

LiveStates == [x \in StateIds |-> IF states[x] # None /\ states[x] <= now THEN None ELSE states[x]]

LiveSessions ==
    [i \in SessionIds |->
        IF sessions[i] # None /\ sessions[i].expires <= now THEN None ELSE sessions[i]]

Longer(a, b) == IF a > b THEN a ELSE b
Shorter(a, b) == IF a < b THEN a ELSE b

\* An expires_in that is missing or not positive leaves the full lifetime.
Lifetime(expiresIn) ==
    Longer(MinTTL, IF expiresIn # None /\ expiresIn > 0 THEN Shorter(SessionTTL, expiresIn)
                   ELSE SessionTTL)

Put(i, login, token, expiresIn) ==
    /\ i \notin issued
    /\ issued' = issued \cup {i}
    /\ states' = LiveStates
    /\ sessions' = [LiveSessions EXCEPT ![i] = [expires |-> now + Lifetime(expiresIn),
                                                login |-> login, token |-> token]]

\* The sessions whose id no response has carried to a browser yet.
Undelivered == {i \in SessionIds : \E r \in Requests : req[r].pc = "renewed" /\ req[r].new = i}

Become(r, t) == req' = [req EXCEPT ![r] = t]

-----------------------------------------------------------------------------
(* The routes.                                                             *)

\* GET /auth/login without a Codex file: a new state for the provider.
Login == \E x \in StateIds :
    /\ ~codex
    /\ redeemed[x] = 0 /\ states[x] = None
    /\ states' = [LiveStates EXCEPT ![x] = now + Longer(MinTTL, StateTTL)]
    /\ sessions' = LiveSessions
    /\ UNCHANGED <<config, now, redeemed, issued, current, closed, req>>

\* GET /auth/login with a Codex file: a session at once.
CodexLogin == \E i \in SessionIds, e \in ExpiresIn :
    /\ codex
    /\ Put(i, i, 0, e)
    /\ UNCHANGED <<config, now, redeemed, current, closed, req>>

\* Mutant of PopState: the state is looked up only.
PeekState(x) == states' = LiveStates

PopState(x) == states' = [LiveStates EXCEPT ![x] = None]

\* GET /auth/callback up to the exchange: the state leaves the store whatever
\* becomes of the exchange.  An unknown or expired state ends the request.
Callback(r) == \E x \in StateIds :
    /\ req[r] = Idle
    /\ PopState(x)
    /\ sessions' = LiveSessions
    /\ \/ /\ LiveStates[x] # None
          /\ redeemed' = [redeemed EXCEPT ![x] = @ + 1]
          /\ \E e \in ExpiresIn : Become(r, [pc |-> "redeemed", expiresIn |-> e])
       \/ /\ LiveStates[x] = None
          /\ UNCHANGED <<redeemed, req>>
    /\ UNCHANGED <<config, now, issued, current, closed>>

\* The exchange succeeded: a session with or without a refresh token.
CallbackSession(r) == \E i \in SessionIds, token \in {0, None} :
    /\ req[r].pc = "redeemed"
    /\ Put(i, i, token, req[r].expiresIn)
    /\ Become(r, Idle)
    /\ UNCHANGED <<config, now, redeemed, current, closed>>

\* Mutant of ExchangeFails: the session is dropped when its refresh fails.
FailSignsOut(r) ==
    /\ req[r].pc = "read" /\ ~codex
    /\ sessions' = [sessions EXCEPT ![req[r].old] = None]
    /\ Become(r, Idle)
    /\ UNCHANGED <<config, now, states, redeemed, issued, current, closed>>

\* The exchange failed, gave no token, or the provider's answer was lost.
ExchangeFails(r) ==
    /\ req[r].pc \in {"redeemed", "read", "exchanged"}
    /\ ~codex \/ req[r].pc = "redeemed"
    /\ Become(r, Idle)
    /\ UNCHANGED <<config, now, states, redeemed, sessions, issued, current, closed>>

\* GET and POST /auth/refresh up to the exchange, and every other route that
\* only looks the session up (/auth/me, /chat), which then ends.
Lookup(r) == \E i \in SessionIds \ Undelivered :
    /\ req[r] = Idle
    /\ states' = LiveStates
    /\ sessions' = LiveSessions
    /\ \/ /\ LiveSessions[i] # None
          /\ codex \/ LiveSessions[i].token # None
          /\ Become(r, [pc |-> "read", old |-> i, seen |-> LiveSessions[i]])
       \/ UNCHANGED req
    /\ UNCHANGED <<config, now, redeemed, issued, current, closed>>

\* The provider answers the refresh: external.  A rotating provider refuses a
\* refresh token it has replaced.
Exchange(r) ==
    LET t == req[r]
    IN  /\ t.pc = "read"
        /\ (~codex /\ rotating) => t.seen.token = current[t.seen.login]
        /\ current' = IF ~codex /\ rotating THEN [current EXCEPT ![t.seen.login] = @ + 1] ELSE current
        /\ Become(r, [t EXCEPT !.pc = "exchanged", !.seen.token = current'[t.seen.login]])
        /\ UNCHANGED <<config, now, states, redeemed, sessions, issued, closed>>

\* The refreshed session is stored first ...
Renew(r) == \E i \in SessionIds, e \in ExpiresIn :
    /\ req[r].pc = "exchanged"
    /\ Put(i, req[r].seen.login, req[r].seen.token, e)
    /\ Become(r, [pc |-> "renewed", old |-> req[r].old, new |-> i,
                  login |-> req[r].seen.login, until |-> now + Lifetime(e)])
    /\ UNCHANGED <<config, now, redeemed, current, closed>>

\* Mutant of Retire: the old session is left to expire.
RetireNothing(r) ==
    /\ req[r].pc = "renewed"
    /\ Become(r, Idle)
    /\ UNCHANGED <<config, now, states, redeemed, sessions, issued, current, closed>>

\* ... and then the old one is deleted.
Retire(r) ==
    /\ req[r].pc = "renewed"
    /\ sessions' = [sessions EXCEPT ![req[r].old] = None]
    /\ Become(r, Idle)
    /\ UNCHANGED <<config, now, states, redeemed, issued, current, closed>>

LoginOf(t) == IF t.pc = "renewed" THEN t.login ELSE t.seen.login
Refreshing(l) == {r \in Requests : req[r].pc \in {"read", "exchanged", "renewed"} /\ LoginOf(req[r]) = l}

\* POST /auth/logout
Logout(i) ==
    /\ sessions[i] # None /\ i \notin Undelivered
    /\ sessions' = [sessions EXCEPT ![i] = None]
    /\ closed' = IF Refreshing(sessions[i].login) = {}
                 THEN closed \cup {sessions[i].login} ELSE closed
    /\ UNCHANGED <<config, now, states, redeemed, issued, current, req>>

Tick ==
    /\ now < MaxTime
    /\ now' = now + 1
    /\ UNCHANGED <<config, states, redeemed, sessions, issued, current, closed, req>>

Restart ==
    /\ states' = [x \in StateIds |-> None]
    /\ sessions' = [i \in SessionIds |-> None]
    /\ req' = [r \in Requests |-> Idle]
    /\ UNCHANGED <<config, now, redeemed, issued, current, closed>>

Next ==
    \/ Login \/ CodexLogin \/ Tick \/ Restart
    \/ \E i \in SessionIds : Logout(i)
    \/ \E r \in Requests : \/ Callback(r) \/ CallbackSession(r) \/ ExchangeFails(r)
                           \/ Lookup(r) \/ Exchange(r) \/ Renew(r) \/ Retire(r)

Spec == Init /\ [][Next]_vars

-----------------------------------------------------------------------------
(* Properties.                                                             *)

Live(l) == {i \in SessionIds : sessions[i] # None /\ sessions[i].login = l}

\* No two callbacks ever continue with the same state, however they interleave
\* (pop_state).
StateRedeemedOnce == \A x \in StateIds : redeemed[x] <= 1

\* A session that has not expired goes only by its own logout, a restart, or a
\* refresh whose new session is in the store: a failed or unfinished refresh
\* never signs the user out (create before delete in _oauth_refresh_impl).
EndsProperly(i) ==
    sessions[i] # None /\ sessions[i].expires > now /\ sessions'[i] = None =>
        \/ Logout(i) \/ Restart
        \/ \E r \in Requests :
              /\ req[r].pc = "renewed" /\ req[r].old = i
              /\ sessions[req[r].new] # None \/ req[r].until <= now

SessionsEndProperly == [][\A i \in SessionIds : EndsProperly(i)]_vars

SingleUse == ~codex /\ rotating

\* With a provider that rotates refresh tokens, concurrent refreshes do not
\* multiply a sign-in: beyond one session there are only those whose
\* predecessor is about to be deleted.
OneSessionPerLogin ==
    SingleUse => \A l \in SessionIds :
        Cardinality(Live(l)) <= 1 + Cardinality({r \in Requests : req[r].pc = "renewed"
                                                                 /\ req[r].login = l})

\* With such a provider a sign-in that was logged out while no refresh of it was under way has no
\* session ever after: its refreshed predecessors are gone too.
ClosedStaysClosed == SingleUse => \A l \in closed : Live(l) = {}
=============================================================================
