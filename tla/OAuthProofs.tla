----------------------------- MODULE OAuthProofs -----------------------------
(* What holds of sign-ins for every number of threads, states and sessions,  *)
(* every lifetime, and every kind of provider.                               *)
EXTENDS OAuthSessions, NaturalsLemmas

\* A state that is in the store has not been redeemed.
StatesFresh == \A x \in StateIds : states[x] # None => redeemed[x] = 0

\* Only ids that were handed out are in use.
InUse(t) == IF t.pc \in {"read", "exchanged", "renewed"} THEN {t.old} ELSE {}

IdsIssued ==
    /\ \A i \in SessionIds : sessions[i] # None => i \in issued
    /\ \A r \in Requests : InUse(req[r]) \subseteq issued

\* Until a refresh has deleted the old session, its new one stays in the store
\* as long as it lives, and no other thread knows it.
NewSessionKept ==
    \A r \in Requests : req[r].pc = "renewed" =>
        /\ req[r].new \in issued
        /\ sessions[req[r].new] # None \/ req[r].until <= now
        /\ sessions[req[r].new] # None => sessions[req[r].new].expires = req[r].until
        /\ \A q \in Requests : req[r].new \notin InUse(req[q])
        /\ \A q \in Requests \ {r} : req[q].pc = "renewed" => req[q].new # req[r].new

\* StateRedeemedOnce needs that a redeemed state is gone, SessionsEndProperly
\* that nobody takes the new session of a refresh away.
IInv == TypeOK /\ StateRedeemedOnce /\ StatesFresh /\ IdsIssued /\ NewSessionKept

\* A lifetime is a number of seconds, whatever the token response says.
LEMMA LifetimeNat == ASSUME NEW e \in ExpiresIn \cup {None} PROVE Lifetime(e) \in Nat
  BY ParameterAssumption DEF Lifetime, Longer, Shorter

\* Expiry only takes away, and only what has expired.
LEMMA Expiry ==
    ASSUME TypeOK
    PROVE  /\ LiveStates \in [StateIds -> Nat \cup {None}]
           /\ \A x \in StateIds : LiveStates[x] \in {states[x], None}
           /\ LiveSessions \in [SessionIds -> SessionRecord \cup {None}]
           /\ \A i \in SessionIds :
                 \/ LiveSessions[i] = sessions[i]
                 \/ LiveSessions[i] = None /\ sessions[i].expires <= now
  BY DEF TypeOK, LiveStates, LiveSessions

\* A state that stays or goes, with no callback getting it, stays redeemable
\* once.
LEMMA StatesKeep ==
    ASSUME IInv, redeemed' = redeemed,
           \A x \in StateIds : states'[x] \in {states[x], None}
    PROVE  StateRedeemedOnce' /\ StatesFresh'
  BY DEF IInv, StateRedeemedOnce, StatesFresh

\* What a new session looks like.
LEMMA PutSession ==
    ASSUME TypeOK, NEW i \in SessionIds, NEW login \in SessionIds,
           NEW token \in Nat \cup {None}, NEW e \in ExpiresIn \cup {None},
           Put(i, login, token, e)
    PROVE  /\ states' \in [StateIds -> Nat \cup {None}]
           /\ \A x \in StateIds : states'[x] \in {states[x], None}
           /\ sessions' \in [SessionIds -> SessionRecord \cup {None}]
           /\ issued' \subseteq SessionIds
           /\ sessions'[i] # None /\ sessions'[i].expires = now + Lifetime(e)
           /\ \A j \in SessionIds \ {i} : sessions'[j] = LiveSessions[j]
  <1> DEFINE new == [expires |-> now + Lifetime(e), login |-> login, token |-> token]
  <1>1. new \in SessionRecord
    BY LifetimeNat DEF TypeOK, SessionRecord
  <1>2. new # None
    BY <1>1, RecordAssumption
  <1> QED
    BY <1>1, <1>2, Expiry DEF Put, TypeOK

\* A step that stores a new session leaves those of other threads alone.
LEMMA PutKeeps ==
    ASSUME IInv, NEW i \in SessionIds, NEW login \in SessionIds,
           NEW token \in Nat \cup {None}, NEW e \in ExpiresIn \cup {None},
           Put(i, login, token, e), now' = now,
           \A q \in Requests :
              \/ req'[q] = req[q]
              \/ /\ InUse(req'[q]) \subseteq InUse(req[q])
                 /\ req'[q].pc = "renewed" => req'[q].new = i /\ req'[q].until = now + Lifetime(e),
           \A p, q \in Requests :
              (/\ req'[p].pc = "renewed" /\ req'[p] # req[p]
               /\ req'[q].pc = "renewed" /\ req'[q] # req[q]) => p = q
    PROVE  IdsIssued' /\ NewSessionKept'
  <1> USE DEF IInv
  <1>1. /\ i \notin issued /\ issued' = issued \cup {i}
        /\ sessions'[i] # None /\ sessions'[i].expires = now + Lifetime(e)
        /\ \A j \in SessionIds \ {i} : sessions'[j] = LiveSessions[j]
    BY PutSession DEF Put
  <1>2. \A j \in SessionIds : \/ LiveSessions[j] = sessions[j]
                              \/ LiveSessions[j] = None /\ sessions[j].expires <= now
    BY Expiry
  <1>3. \A q \in Requests : InUse(req'[q]) \subseteq InUse(req[q])
    OBVIOUS
  <1>4. IdsIssued'
    BY <1>1, <1>2, <1>3 DEF IdsIssued
  <1>5. NewSessionKept'
    <2> SUFFICES ASSUME NEW r \in Requests, req'[r].pc = "renewed"
                 PROVE  /\ req'[r].new \in issued'
                        /\ sessions'[req'[r].new] # None \/ req'[r].until <= now
                        /\ sessions'[req'[r].new] # None =>
                              sessions'[req'[r].new].expires = req'[r].until
                        /\ \A q \in Requests : req'[r].new \notin InUse(req'[q])
                        /\ \A q \in Requests \ {r} :
                              req'[q].pc = "renewed" => req'[q].new # req'[r].new
      BY DEF NewSessionKept
    <2>1. \A q \in Requests : InUse(req[q]) \subseteq issued
      BY DEF IdsIssued
    <2>2. CASE req'[r] = req[r]
      <3>1. /\ req[r].new \in issued
            /\ sessions[req[r].new] # None \/ req[r].until <= now
            /\ sessions[req[r].new] # None => sessions[req[r].new].expires = req[r].until
            /\ \A q \in Requests : req[r].new \notin InUse(req[q])
            /\ \A q \in Requests \ {r} : req[q].pc = "renewed" => req[q].new # req[r].new
        BY <2>2 DEF NewSessionKept
      <3>2. req[r].new \in SessionIds \ {i}
        BY <1>1, <3>1 DEF TypeOK
      <3>3. \A q \in Requests \ {r} : req'[q].pc = "renewed" => req'[q].new # req[r].new
        BY <3>1, <3>2
      <3> QED
        BY <1>1, <1>2, <1>3, <2>2, <3>1, <3>2, <3>3
    <2>3. CASE req'[r] # req[r]
      <3>1. req'[r].new = i /\ req'[r].until = now + Lifetime(e)
        BY <2>3
      <3>2. \A q \in Requests \ {r} : req'[q].pc = "renewed" => req[q].pc = "renewed" /\ req'[q] = req[q]
        BY <2>3
      <3>3. \A q \in Requests \ {r} : req'[q].pc = "renewed" => req'[q].new \in issued
        BY <3>2 DEF NewSessionKept
      <3> QED
        BY <1>1, <1>3, <2>1, <3>1, <3>3
    <2> QED
      BY <2>2, <2>3
  <1> QED
    BY <1>4, <1>5

\* A step that stores none may drop sessions that have expired or that no
\* refresh is about to hand out, and may let a thread look up others.
LEMMA DropKeeps ==
    ASSUME IInv, issued' = issued, now \in Nat, now' \in Nat, now <= now',
           \A i \in SessionIds :
              \/ sessions'[i] = sessions[i]
              \/ sessions'[i] = None /\ (i \notin Undelivered \/ sessions[i].expires <= now),
           \A q \in Requests :
              \/ req'[q] = req[q]
              \/ /\ InUse(req'[q]) \subseteq InUse(req[q]) \cup (issued \ Undelivered)
                 /\ req'[q].pc # "renewed"
    PROVE  IdsIssued' /\ NewSessionKept'
  <1> USE DEF IInv
  <1>1. IdsIssued'
    <2>1. \A q \in Requests : InUse(req'[q]) \subseteq issued
      BY DEF IdsIssued
    <2> QED
      BY <2>1 DEF IdsIssued
  <1>2. NewSessionKept'
    <2> SUFFICES ASSUME NEW r \in Requests, req'[r].pc = "renewed"
                 PROVE  /\ req'[r].new \in issued'
                        /\ sessions'[req'[r].new] # None \/ req'[r].until <= now'
                        /\ sessions'[req'[r].new] # None =>
                              sessions'[req'[r].new].expires = req'[r].until
                        /\ \A q \in Requests : req'[r].new \notin InUse(req'[q])
                        /\ \A q \in Requests \ {r} :
                              req'[q].pc = "renewed" => req'[q].new # req'[r].new
      BY DEF NewSessionKept
    <2>1. req'[r] = req[r]
      OBVIOUS
    <2>2. /\ req[r].new \in issued
          /\ sessions[req[r].new] # None \/ req[r].until <= now
          /\ sessions[req[r].new] # None => sessions[req[r].new].expires = req[r].until
          /\ \A q \in Requests : req[r].new \notin InUse(req[q])
          /\ \A q \in Requests \ {r} : req[q].pc = "renewed" => req[q].new # req[r].new
      BY <2>1 DEF NewSessionKept
    <2>3. req[r].new \in Undelivered /\ req[r].new \in SessionIds
      BY <2>1, <2>2 DEF Undelivered, TypeOK
    <2>4. req[r].until \in Nat
      BY <2>1 DEF TypeOK, Threads, Idle
    <2>5. sessions'[req[r].new] # None \/ req[r].until <= now'
      BY <2>2, <2>3, <2>4
    <2>6. \A q \in Requests : req[r].new \notin InUse(req'[q])
      BY <2>2, <2>3
    <2>7. \A q \in Requests \ {r} : req'[q].pc = "renewed" => req'[q].new # req[r].new
      BY <2>2
    <2> QED
      BY <2>1, <2>2, <2>3, <2>5, <2>6, <2>7
  <1> QED
    BY <1>1, <1>2

\* The same where expiry is all that happens to the sessions.
LEMMA ExpiryKeeps ==
    ASSUME IInv, issued' = issued, now' = now, sessions' = LiveSessions,
           \A q \in Requests :
              \/ req'[q] = req[q]
              \/ /\ InUse(req'[q]) \subseteq InUse(req[q]) \cup (issued \ Undelivered)
                 /\ req'[q].pc # "renewed"
    PROVE  IdsIssued' /\ NewSessionKept'
  <1>1. now \in Nat /\ now <= now'
    BY ParameterAssumption DEF IInv, TypeOK
  <1>2. \A i \in SessionIds :
           \/ sessions'[i] = sessions[i]
           \/ sessions'[i] = None /\ (i \notin Undelivered \/ sessions[i].expires <= now)
    BY Expiry DEF IInv
  <1> QED
    BY <1>1, <1>2, DropKeeps

\* GET /auth/login.
LEMMA LoginKeeps == ASSUME IInv, Login PROVE IInv'
  <1> USE DEF IInv
  <1>1. PICK x \in StateIds :
          /\ redeemed[x] = 0
          /\ states' = [LiveStates EXCEPT ![x] = now + Longer(MinTTL, StateTTL)]
          /\ sessions' = LiveSessions
          /\ UNCHANGED <<config, now, redeemed, issued, current, closed, req>>
    BY DEF Login
  <1>2. Longer(MinTTL, StateTTL) \in Nat /\ now \in Nat
    BY ParameterAssumption DEF Longer, TypeOK
  <1>3. TypeOK'
    BY <1>1, <1>2, Expiry DEF TypeOK, config
  <1>4. StateRedeemedOnce' /\ StatesFresh'
    BY <1>1, Expiry DEF StateRedeemedOnce, StatesFresh, TypeOK
  <1>5. IdsIssued' /\ NewSessionKept'
    BY <1>1, ExpiryKeeps
  <1> QED
    BY <1>3, <1>4, <1>5

\* GET /auth/login with a Codex token file.
LEMMA CodexLoginKeeps == ASSUME IInv, CodexLogin PROVE IInv'
  <1> USE DEF IInv
  <1>1. PICK i \in SessionIds, e \in ExpiresIn : Put(i, i, 0, e)
    BY DEF CodexLogin
  <1>2. UNCHANGED <<config, now, redeemed, current, closed, req>>
    BY DEF CodexLogin
  <1>3. TypeOK'
    BY <1>1, <1>2, PutSession DEF TypeOK, config
  <1>4. StateRedeemedOnce' /\ StatesFresh'
    BY <1>1, <1>2, PutSession, StatesKeep
  <1>5. IdsIssued' /\ NewSessionKept'
    BY <1>1, <1>2, PutKeeps
  <1> QED
    BY <1>3, <1>4, <1>5

\* GET /auth/callback up to the exchange.
LEMMA CallbackKeeps == ASSUME IInv, NEW r \in Requests, Callback(r) PROVE IInv'
  <1> USE DEF IInv
  <1>1. PICK x \in StateIds :
          /\ req[r] = Idle
          /\ PopState(x)
          /\ sessions' = LiveSessions
          /\ \/ /\ LiveStates[x] # None
                /\ redeemed' = [redeemed EXCEPT ![x] = @ + 1]
                /\ \E e \in ExpiresIn : Become(r, [pc |-> "redeemed", expiresIn |-> e])
             \/ /\ LiveStates[x] = None
                /\ UNCHANGED <<redeemed, req>>
          /\ UNCHANGED <<config, now, issued, current, closed>>
    BY DEF Callback
  <1>2. /\ states' \in [StateIds -> Nat \cup {None}] /\ states'[x] = None
        /\ \A y \in StateIds : states'[y] \in {states[y], None}
    BY <1>1, Expiry DEF PopState
  <1>3. LiveStates[x] # None => redeemed[x] = 0
    BY Expiry DEF StatesFresh
  <1>4. /\ redeemed' \in [StateIds -> Nat]
        /\ \A y \in StateIds : y # x => redeemed'[y] = redeemed[y]
        /\ redeemed'[x] = redeemed[x] \/ redeemed'[x] = 1
    BY <1>1, <1>3 DEF TypeOK
  <1>5. /\ req' \in [Requests -> Threads]
        /\ \A q \in Requests : req'[q] = req[q] \/ (InUse(req'[q]) = {} /\ req'[q].pc # "renewed")
    <2>1. CASE UNCHANGED req
      BY <2>1 DEF TypeOK
    <2>2. CASE \E e \in ExpiresIn : Become(r, [pc |-> "redeemed", expiresIn |-> e])
      BY <2>2 DEF TypeOK, Become, Threads, InUse
    <2> QED
      BY <1>1, <2>1, <2>2
  <1>6. TypeOK'
    BY <1>1, <1>2, <1>4, <1>5, Expiry DEF TypeOK, config
  <1>7. StateRedeemedOnce' /\ StatesFresh'
    BY <1>2, <1>4 DEF StateRedeemedOnce, StatesFresh, TypeOK
  <1>8. IdsIssued' /\ NewSessionKept'
    BY <1>1, <1>5, ExpiryKeeps
  <1> QED
    BY <1>6, <1>7, <1>8

\* The callback's session.
LEMMA CallbackSessionKeeps ==
    ASSUME IInv, NEW r \in Requests, CallbackSession(r) PROVE IInv'
  <1> USE DEF IInv
  <1>1. PICK i \in SessionIds, token \in {0, None} : Put(i, i, token, req[r].expiresIn)
    BY DEF CallbackSession
  <1>2. /\ req[r].pc = "redeemed" /\ Become(r, Idle)
        /\ UNCHANGED <<config, now, redeemed, current, closed>>
    BY DEF CallbackSession
  <1>3. req[r].expiresIn \in ExpiresIn \cup {None}
    BY <1>2 DEF TypeOK, Threads, Idle
  <1>4. /\ req' \in [Requests -> Threads]
        /\ \A q \in Requests : req'[q] = req[q] \/ (InUse(req'[q]) = {} /\ req'[q].pc # "renewed")
    BY <1>2 DEF TypeOK, Become, Threads, InUse, Idle
  <1>5. TypeOK'
    <2>1. token \in Nat \cup {None}
      OBVIOUS
    <2>2. /\ states' \in [StateIds -> Nat \cup {None}]
          /\ sessions' \in [SessionIds -> SessionRecord \cup {None}]
          /\ issued' \subseteq SessionIds
      BY <1>1, <1>3, <2>1, PutSession
    <2> QED
      BY <1>2, <1>4, <2>2 DEF TypeOK, config
  <1>6. StateRedeemedOnce' /\ StatesFresh'
    BY <1>1, <1>2, <1>3, PutSession, StatesKeep
  <1>7. IdsIssued' /\ NewSessionKept'
    <2>1. token \in Nat \cup {None}
      OBVIOUS
    <2> QED
      BY <1>1, <1>2, <1>3, <1>4, <2>1, PutKeeps
  <1> QED
    BY <1>5, <1>6, <1>7

\* The threads with a session in hand.
Refreshes == [pc: {"read", "exchanged"}, old: SessionIds, seen: SessionRecord]

\* A refresh up to the exchange, the exchange, and its failure.
LEMMA ThreadKeeps ==
    ASSUME IInv, NEW r \in Requests, ExchangeFails(r) \/ Lookup(r) \/ Exchange(r)
    PROVE  IInv'
  <1> USE DEF IInv
  <1>0. now \in Nat
    BY ParameterAssumption DEF TypeOK
  <1>1. CASE ExchangeFails(r)
    <2>1. /\ Become(r, Idle)
          /\ UNCHANGED <<config, now, states, redeemed, sessions, issued, current, closed>>
      BY <1>1 DEF ExchangeFails
    <2>2. /\ req' \in [Requests -> Threads]
          /\ \A q \in Requests : req'[q] = req[q] \/ (InUse(req'[q]) = {} /\ req'[q].pc # "renewed")
      BY <2>1 DEF TypeOK, Become, Threads, InUse, Idle
    <2>3. TypeOK'
      BY <2>1, <2>2 DEF TypeOK, config
    <2>4. StateRedeemedOnce' /\ StatesFresh'
      BY <2>1, StatesKeep
    <2>5. IdsIssued' /\ NewSessionKept'
      BY <1>0, <2>1, <2>2, DropKeeps
    <2> QED
      BY <2>3, <2>4, <2>5
  <1>2. CASE Lookup(r)
    <2>1. PICK i \in SessionIds \ Undelivered :
            /\ req[r] = Idle
            /\ states' = LiveStates
            /\ sessions' = LiveSessions
            /\ \/ /\ LiveSessions[i] # None
                  /\ Become(r, [pc |-> "read", old |-> i, seen |-> LiveSessions[i]])
               \/ UNCHANGED req
            /\ UNCHANGED <<config, now, redeemed, issued, current, closed>>
      BY <1>2 DEF Lookup
    <2>2. /\ req' \in [Requests -> Threads]
          /\ \A q \in Requests :
                \/ req'[q] = req[q]
                \/ InUse(req'[q]) \subseteq issued \ Undelivered /\ req'[q].pc # "renewed"
      <3>1. CASE UNCHANGED req
        BY <3>1 DEF TypeOK
      <3>2. CASE /\ LiveSessions[i] # None
                 /\ Become(r, [pc |-> "read", old |-> i, seen |-> LiveSessions[i]])
        <4>1. LiveSessions[i] \in SessionRecord /\ sessions[i] # None
          BY <3>2, Expiry
        <4>2. i \in issued \ Undelivered
          BY <4>1 DEF IdsIssued
        <4>3. [pc |-> "read", old |-> i, seen |-> LiveSessions[i]] \in Threads
          BY <4>1 DEF Threads
        <4> QED
          BY <3>2, <4>2, <4>3 DEF TypeOK, Become, InUse
      <3> QED
        BY <2>1, <3>1, <3>2
    <2>3. TypeOK'
      BY <2>1, <2>2, Expiry DEF TypeOK, config
    <2>4. StateRedeemedOnce' /\ StatesFresh'
      BY <2>1, Expiry, StatesKeep
    <2>5. IdsIssued' /\ NewSessionKept'
      BY <2>1, <2>2, ExpiryKeeps
    <2> QED
      BY <2>3, <2>4, <2>5
  <1>3. CASE Exchange(r)
    <2> DEFINE t == req[r]
               moved == [t EXCEPT !.pc = "exchanged", !.seen.token = current'[t.seen.login]]
    <2>1. t \in Refreshes
      BY <1>3 DEF Exchange, TypeOK, Threads, Idle, Refreshes
    <2>2. current' \in [SessionIds -> Nat] /\ current'[t.seen.login] \in Nat
      BY <1>3, <2>1 DEF Exchange, TypeOK, Refreshes, SessionRecord
    <2>3. moved \in Refreshes /\ moved.old = t.old
      BY <2>1, <2>2 DEF Refreshes, SessionRecord
    <2>4. Become(r, moved) /\ UNCHANGED <<config, now, states, redeemed, sessions, issued, closed>>
      BY <1>3 DEF Exchange
    <2>5. /\ req' \in [Requests -> Threads]
          /\ \A q \in Requests :
                \/ req'[q] = req[q]
                \/ InUse(req'[q]) \subseteq InUse(req[q]) /\ req'[q].pc # "renewed"
      BY <2>1, <2>3, <2>4 DEF TypeOK, Become, Threads, InUse, Refreshes
    <2>6. TypeOK'
      BY <2>2, <2>4, <2>5 DEF TypeOK, config
    <2>7. StateRedeemedOnce' /\ StatesFresh'
      BY <2>4, StatesKeep
    <2>8. IdsIssued' /\ NewSessionKept'
      BY <1>0, <2>4, <2>5, DropKeeps
    <2> QED
      BY <2>6, <2>7, <2>8
  <1> QED
    BY <1>1, <1>2, <1>3

\* The new session of a refresh.
LEMMA RenewKeeps == ASSUME IInv, NEW r \in Requests, Renew(r) PROVE IInv'
  <1> USE DEF IInv
  <1> DEFINE t == req[r]
  <1>1. PICK i \in SessionIds, e \in ExpiresIn :
          /\ Put(i, t.seen.login, t.seen.token, e)
          /\ Become(r, [pc |-> "renewed", old |-> t.old, new |-> i,
                        login |-> t.seen.login, until |-> now + Lifetime(e)])
    BY DEF Renew
  <1>2. t.pc = "exchanged" /\ UNCHANGED <<config, now, redeemed, current, closed>>
    BY DEF Renew
  <1>3. t \in Refreshes /\ t.seen.login \in SessionIds /\ t.seen.token \in Nat \cup {None}
    BY <1>2 DEF TypeOK, Threads, Idle, Refreshes, SessionRecord
  <1>4. now + Lifetime(e) \in Nat
    BY LifetimeNat DEF TypeOK
  <1>5. /\ req' \in [Requests -> Threads]
        /\ \A q \in Requests :
              \/ req'[q] = req[q]
              \/ /\ InUse(req'[q]) \subseteq InUse(req[q])
                 /\ req'[q].pc = "renewed" => req'[q].new = i /\ req'[q].until = now + Lifetime(e)
    BY <1>1, <1>3, <1>4 DEF TypeOK, Become, Threads, InUse, Refreshes
  <1>6. TypeOK'
    BY <1>1, <1>2, <1>3, <1>5, PutSession DEF TypeOK, config
  <1>7. StateRedeemedOnce' /\ StatesFresh'
    BY <1>1, <1>2, <1>3, PutSession, StatesKeep
  <1>8. IdsIssued' /\ NewSessionKept'
    <2>1. \A p, q \in Requests :
             (/\ req'[p].pc = "renewed" /\ req'[p] # req[p]
              /\ req'[q].pc = "renewed" /\ req'[q] # req[q]) => p = q
      BY <1>1 DEF Become
    <2> QED
      BY <1>1, <1>2, <1>3, <1>5, <2>1, PutKeeps
  <1> QED
    BY <1>6, <1>7, <1>8

\* The end of the old session, a logout, and time.
LEMMA DropsKeep ==
    ASSUME IInv, (\E r \in Requests : Retire(r)) \/ (\E i \in SessionIds : Logout(i)) \/ Tick
    PROVE  IInv'
  <1> USE DEF IInv
  <1>0. now \in Nat
    BY ParameterAssumption DEF TypeOK
  <1>1. ASSUME NEW r \in Requests, Retire(r) PROVE IInv'
    <2>1. /\ req[r].pc = "renewed" /\ Become(r, Idle)
          /\ sessions' = [sessions EXCEPT ![req[r].old] = None]
          /\ UNCHANGED <<config, now, states, redeemed, issued, current, closed>>
      BY <1>1 DEF Retire
    <2>2. req[r].old \notin Undelivered
      BY <2>1 DEF Undelivered, NewSessionKept, InUse
    <2>3. /\ req' \in [Requests -> Threads]
          /\ \A q \in Requests : req'[q] = req[q] \/ (InUse(req'[q]) = {} /\ req'[q].pc # "renewed")
      BY <2>1 DEF TypeOK, Become, Threads, InUse, Idle
    <2>4. TypeOK'
      BY <2>1, <2>3 DEF TypeOK, config
    <2>5. StateRedeemedOnce' /\ StatesFresh'
      BY <2>1, StatesKeep
    <2>6. IdsIssued' /\ NewSessionKept'
      <3>1. \A i \in SessionIds : \/ sessions'[i] = sessions[i]
                                  \/ sessions'[i] = None /\ i \notin Undelivered
        BY <2>1, <2>2 DEF TypeOK
      <3> QED
        BY <1>0, <2>1, <2>3, <3>1, DropKeeps
    <2> QED
      BY <2>4, <2>5, <2>6
  <1>2. ASSUME NEW i \in SessionIds, Logout(i) PROVE IInv'
    <2>1. /\ sessions[i] # None /\ i \notin Undelivered
          /\ sessions' = [sessions EXCEPT ![i] = None]
          /\ closed' \in {closed, closed \cup {sessions[i].login}}
          /\ UNCHANGED <<config, now, states, redeemed, issued, current, req>>
      BY <1>2 DEF Logout
    <2>2. sessions[i].login \in SessionIds
      BY <2>1 DEF TypeOK, SessionRecord
    <2>3. TypeOK'
      BY <2>1, <2>2 DEF TypeOK, config
    <2>4. StateRedeemedOnce' /\ StatesFresh'
      BY <2>1, StatesKeep
    <2>5. IdsIssued' /\ NewSessionKept'
      <3>1. \A j \in SessionIds : \/ sessions'[j] = sessions[j]
                                  \/ sessions'[j] = None /\ j \notin Undelivered
        BY <2>1 DEF TypeOK
      <3> QED
        BY <1>0, <2>1, <3>1, DropKeeps
    <2> QED
      BY <2>3, <2>4, <2>5
  <1>3. CASE Tick
    <2>1. /\ now < MaxTime /\ now' = now + 1
          /\ UNCHANGED <<config, states, redeemed, sessions, issued, current, closed, req>>
      BY <1>3 DEF Tick
    <2>2. TypeOK'
      BY <2>1, ParameterAssumption DEF TypeOK, config
    <2>3. StateRedeemedOnce' /\ StatesFresh'
      BY <2>1, StatesKeep
    <2>4. IdsIssued' /\ NewSessionKept'
      BY <1>0, <2>1, DropKeeps
    <2> QED
      BY <2>2, <2>3, <2>4
  <1> QED
    BY <1>1, <1>2, <1>3

\* The start and each restart of the process.
LEMMA RestartKeeps == ASSUME IInv, Restart PROVE IInv'
  <1> USE DEF IInv, Restart, Idle
  <1>1. TypeOK'
    BY DEF TypeOK, Threads, config
  <1>2. StateRedeemedOnce' /\ StatesFresh'
    BY DEF StateRedeemedOnce, StatesFresh
  <1>3. IdsIssued' /\ NewSessionKept'
    BY DEF IdsIssued, NewSessionKept, InUse
  <1> QED
    BY <1>1, <1>2, <1>3

\* The invariant holds of an empty store.
LEMMA InitInv == Init => IInv
  <1> SUFFICES ASSUME Init PROVE IInv
    OBVIOUS
  <1> USE DEF Init, Idle
  <1>1. TypeOK
    BY ParameterAssumption DEF TypeOK, Threads
  <1>2. StateRedeemedOnce /\ StatesFresh
    BY DEF StateRedeemedOnce, StatesFresh
  <1>3. IdsIssued /\ NewSessionKept
    BY DEF IdsIssued, NewSessionKept, InUse
  <1> QED
    BY <1>1, <1>2, <1>3 DEF IInv

\* Every request step, every tick and every restart keeps the invariant.
LEMMA NextKeeps == IInv /\ [Next]_vars => IInv'
  <1> SUFFICES ASSUME IInv, [Next]_vars PROVE IInv'
    OBVIOUS
  <1>1. CASE Login
    BY <1>1, LoginKeeps
  <1>2. CASE CodexLogin
    BY <1>2, CodexLoginKeeps
  <1>3. CASE Tick \/ \E i \in SessionIds : Logout(i)
    BY <1>3, DropsKeep
  <1>4. CASE Restart
    BY <1>4, RestartKeeps
  <1>5. ASSUME NEW r \in Requests, Callback(r) PROVE IInv'
    BY <1>5, CallbackKeeps
  <1>6. ASSUME NEW r \in Requests, CallbackSession(r) PROVE IInv'
    BY <1>6, CallbackSessionKeeps
  <1>7. ASSUME NEW r \in Requests, ExchangeFails(r) \/ Lookup(r) \/ Exchange(r) PROVE IInv'
    BY <1>7, ThreadKeeps
  <1>8. ASSUME NEW r \in Requests, Renew(r) PROVE IInv'
    BY <1>8, RenewKeeps
  <1>9. ASSUME NEW r \in Requests, Retire(r) PROVE IInv'
    BY <1>9, DropsKeep
  <1>10. CASE UNCHANGED vars
    BY <1>10 DEF IInv, vars, config, TypeOK, StateRedeemedOnce, StatesFresh, IdsIssued, NewSessionKept
  <1> QED
    BY <1>1, <1>2, <1>3, <1>4, <1>5, <1>6, <1>7, <1>8, <1>9, <1>10 DEF Next

\* The invariant holds of every run.
LEMMA Invariance == Spec => []IInv
  BY InitInv, NextKeeps, PTL DEF Spec

\* The store, the threads and the provider keep to their types.
THEOREM TypeCorrect == Spec => []TypeOK
  <1>1. IInv => TypeOK
    BY DEF IInv
  <1> QED
    BY Invariance, <1>1, PTL

\* No two callbacks continue with the same state (pop_state), whatever the
\* number of threads and however they interleave.
THEOREM StatesRedeemedOnce == Spec => []StateRedeemedOnce
  <1>1. IInv => StateRedeemedOnce
    BY DEF IInv
  <1> QED
    BY Invariance, <1>1, PTL

\* What a step may do to a session that has not expired.
LEMMA StepEndsProperly == IInv /\ [Next]_vars => [\A i \in SessionIds : EndsProperly(i)]_vars
  <1> SUFFICES ASSUME IInv, Next, NEW i \in SessionIds,
                      sessions[i] # None, sessions[i].expires > now, sessions'[i] = None
               PROVE  \/ Logout(i) \/ Restart
                      \/ \E r \in Requests :
                            /\ req[r].pc = "renewed" /\ req[r].old = i
                            /\ sessions[req[r].new] # None \/ req[r].until <= now
    BY DEF EndsProperly
  <1> USE DEF IInv
  <1>1. LiveSessions[i] = sessions[i]
    <2>1. sessions[i].expires \in Nat /\ now \in Nat
      BY ParameterAssumption DEF TypeOK, SessionRecord
    <2> QED
      BY <2>1, Expiry
  <1>2. ASSUME NEW j \in SessionIds, NEW login \in SessionIds, NEW token \in Nat \cup {None},
               NEW e \in ExpiresIn \cup {None}, Put(j, login, token, e)
        PROVE  FALSE
    BY <1>1, <1>2, PutSession
  <1>3. sessions' # LiveSessions /\ sessions' # sessions
    BY <1>1
  <1>4. ~Login /\ ~Tick
    BY <1>3 DEF Login, Tick
  <1>5. ~CodexLogin
    BY <1>2 DEF CodexLogin
  <1>6. ASSUME NEW j \in SessionIds, Logout(j) PROVE j = i
    BY <1>6 DEF Logout, TypeOK
  <1>7. ASSUME NEW r \in Requests
        PROVE  ~(Callback(r) \/ ExchangeFails(r) \/ Lookup(r) \/ Exchange(r))
    BY <1>3 DEF Callback, ExchangeFails, Lookup, Exchange
  <1>8. ASSUME NEW r \in Requests PROVE ~CallbackSession(r)
    <2> SUFFICES ASSUME CallbackSession(r) PROVE FALSE
      OBVIOUS
    <2>1. req[r].expiresIn \in ExpiresIn \cup {None}
      BY DEF CallbackSession, TypeOK, Threads, Idle
    <2> QED
      BY <1>2, <2>1 DEF CallbackSession
  <1>9. ASSUME NEW r \in Requests PROVE ~Renew(r)
    <2> SUFFICES ASSUME Renew(r) PROVE FALSE
      OBVIOUS
    <2>1. req[r].seen.login \in SessionIds /\ req[r].seen.token \in Nat \cup {None}
      BY DEF Renew, TypeOK, Threads, Idle, SessionRecord
    <2> QED
      BY <1>2, <2>1 DEF Renew
  <1>10. ASSUME NEW r \in Requests, Retire(r)
         PROVE  /\ req[r].pc = "renewed" /\ req[r].old = i
                /\ sessions[req[r].new] # None \/ req[r].until <= now
    BY <1>10 DEF Retire, NewSessionKept, TypeOK
  <1> QED
    BY <1>4, <1>5, <1>6, <1>7, <1>8, <1>9, <1>10 DEF Next

\* A live session goes only by its own logout, a restart, or a refresh whose
\* new session is in the store (_oauth_refresh_impl), for any number of threads.
THEOREM SessionsEnd == Spec => SessionsEndProperly
  BY Invariance, StepEndsProperly, PTL DEF Spec, SessionsEndProperly

-----------------------------------------------------------------------------
(* Sign-ins whose provider accepts a refresh token once.                   *)

\* Thread r has had its refresh of sign-in l answered.
Busy(r, l) == req[r].pc \in {"exchanged", "renewed"} /\ LoginOf(req[r]) = l

\* Thread r is about to present the refresh token the provider still accepts.
Holds(r, l) == /\ req[r].pc = "read" /\ req[r].seen.login = l
               /\ req[r].seen.token = current[l]

\* Nobody knows a refresh token the provider has not issued, and sign-ins are
\* named by sessions that exist or existed.
TokensIssued ==
    /\ \A i \in SessionIds : sessions[i] # None =>
          /\ sessions[i].login \in issued
          /\ sessions[i].token = None \/ sessions[i].token <= current[sessions[i].login]
    /\ \A r \in Requests : req[r].pc \in {"read", "exchanged"} =>
          /\ req[r].seen.login \in issued
          /\ req[r].seen.token = None \/ req[r].seen.token <= current[req[r].seen.login]
    /\ \A r \in Requests : req[r].pc = "renewed" => req[r].login \in issued
    /\ closed \subseteq issued

\* One refresh of a sign-in at a time gets past the provider, and while it is
\* under way its old session is of no use to others, nor is its new one known.
OneRefresh(l) ==
    /\ \A p, q \in Requests : Busy(p, l) /\ Busy(q, l) => p = q
    /\ \A r \in Requests : Busy(r, l) =>
          \A i \in Live(l) : \/ i = req[r].old /\ sessions[i].token # current[l]
                             \/ req[r].pc = "renewed" /\ i = req[r].new
    /\ \A r \in Requests : Holds(r, l) =>
          Live(l) \subseteq {req[r].old} /\ \A q \in Requests : ~Busy(q, l)
    /\ (\A r \in Requests : ~Busy(r, l)) => \A i, j \in Live(l) : i = j
    /\ l \in closed => Live(l) = {} /\ Refreshing(l) = {}

\* What makes a refresh token good for one successor makes a sign-in one
\* session.
SingleInv == SingleUse => TokensIssued /\ \A l \in SessionIds : OneRefresh(l)

\* Sessions that end, and threads that give up or are done, cost a sign-in
\* nothing but sessions; steps for other sign-ins cost it nothing.
LEMMA ShrinkLogin ==
    ASSUME NEW l \in SessionIds, OneRefresh(l), current'[l] = current[l],
           \A i \in Live(l)' : i \in Live(l) /\ sessions'[i] = sessions[i],
           \A q \in Requests :
              \/ req'[q] = req[q]
              \/ /\ q \notin Refreshing(l)'
                 /\ Busy(q, l) /\ req[q].pc = "renewed" => req[q].old \notin Live(l)',
           l \in closed' \ closed => Refreshing(l) = {} /\ Live(l)' = {}
    PROVE  OneRefresh(l)'
  <1>1. \A p \in Requests : Busy(p, l)' => Busy(p, l) /\ req'[p] = req[p]
    BY DEF Busy, LoginOf, Refreshing
  <1>2. \A p \in Requests : Holds(p, l)' => Holds(p, l) /\ req'[p] = req[p]
    BY DEF Holds, Refreshing, LoginOf
  <1>3. Refreshing(l)' \subseteq Refreshing(l)
    BY DEF Refreshing, LoginOf
  <1>4. ASSUME \A r \in Requests : ~Busy(r, l)' PROVE \A i, j \in Live(l)' : i = j
    <2>1. CASE \A r \in Requests : ~Busy(r, l)
      BY <2>1 DEF OneRefresh
    <2>2. ASSUME NEW r \in Requests, Busy(r, l) PROVE \A i, j \in Live(l)' : i = j
      <3>1. req'[r] # req[r]
        BY <1>4, <2>2 DEF Busy, LoginOf
      <3>2. \A i \in Live(l) : i = req[r].old \/ (req[r].pc = "renewed" /\ i = req[r].new)
        BY <2>2 DEF OneRefresh
      <3>3. CASE req[r].pc = "renewed"
        BY <2>2, <3>1, <3>2, <3>3
      <3>4. CASE req[r].pc # "renewed"
        BY <3>2, <3>4
      <3> QED
        BY <3>3, <3>4
    <2> QED
      BY <2>1, <2>2
  <1>5. ASSUME l \in closed' PROVE Live(l)' = {} /\ Refreshing(l)' = {}
    BY <1>3, <1>5 DEF OneRefresh
  <1>6. \A p, q \in Requests : Busy(p, l)' /\ Busy(q, l)' => p = q
    BY <1>1 DEF OneRefresh
  <1>7. \A r \in Requests : Busy(r, l)' =>
           \A i \in Live(l)' : \/ i = req'[r].old /\ sessions'[i].token # current'[l]
                               \/ req'[r].pc = "renewed" /\ i = req'[r].new
    BY <1>1 DEF OneRefresh
  <1>8. \A r \in Requests : Holds(r, l)' =>
           Live(l)' \subseteq {req'[r].old} /\ \A q \in Requests : ~Busy(q, l)'
    BY <1>1, <1>2 DEF OneRefresh
  <1> QED
    BY <1>4, <1>5, <1>6, <1>7, <1>8 DEF OneRefresh

\* The same for all sign-ins, where no session and no refresh begins.
LEMMA ShrinkSingle ==
    ASSUME TokensIssued, \A l \in SessionIds : OneRefresh(l),
           current' = current, issued' = issued,
           \A i \in SessionIds : sessions'[i] \in {sessions[i], None},
           \A q \in Requests :
              \/ req'[q] = req[q]
              \/ /\ req'[q].pc \notin {"read", "exchanged", "renewed"}
                 /\ req[q].pc = "renewed" => sessions'[req[q].old] = None,
           closed' \subseteq SessionIds,
           \A l \in closed' \ closed :
              l \in issued /\ Refreshing(l) = {} /\ \A i \in Live(l) : sessions'[i] = None
    PROVE  TokensIssued' /\ \A l \in SessionIds : OneRefresh(l)'
  <1>1. TokensIssued'
    BY DEF TokensIssued
  <1>2. ASSUME NEW l \in SessionIds PROVE OneRefresh(l)'
    <2>1. \A i \in Live(l)' : i \in Live(l) /\ sessions'[i] = sessions[i]
      BY DEF Live
    <2>2. \A q \in Requests :
             \/ req'[q] = req[q]
             \/ /\ q \notin Refreshing(l)'
                /\ Busy(q, l) /\ req[q].pc = "renewed" => req[q].old \notin Live(l)'
      BY DEF Refreshing, Live
    <2>3. l \in closed' \ closed => Refreshing(l) = {} /\ Live(l)' = {}
      BY <2>1 DEF Live
    <2>4. current'[l] = current[l]
      OBVIOUS
    <2> QED
      BY <2>1, <2>2, <2>3, <2>4, ShrinkLogin
  <1> QED
    BY <1>1, <1>2

\* The callback's session is the only one of its sign-in.
LEMMA NewSingle ==
    ASSUME TokensIssued, \A l \in SessionIds : OneRefresh(l),
           NEW i \in SessionIds \ issued, issued' = issued \cup {i},
           sessions'[i] # None, sessions'[i].login = i,
           sessions'[i].token = None \/ sessions'[i].token <= current[i],
           current' = current, closed' = closed,
           \A j \in SessionIds \ {i} : sessions'[j] \in {sessions[j], None},
           \A q \in Requests :
              \/ req'[q] = req[q]
              \/ /\ req'[q].pc \notin {"read", "exchanged", "renewed"}
                 /\ req[q].pc # "renewed"
    PROVE  TokensIssued' /\ \A l \in SessionIds : OneRefresh(l)'
  <1>1. TokensIssued'
    BY DEF TokensIssued
  <1>2. ASSUME NEW l \in SessionIds \ {i} PROVE OneRefresh(l)'
    <2>1. \A j \in Live(l)' : j \in Live(l) /\ sessions'[j] = sessions[j]
      BY DEF Live
    <2>2. \A q \in Requests :
             \/ req'[q] = req[q]
             \/ /\ q \notin Refreshing(l)'
                /\ Busy(q, l) /\ req[q].pc = "renewed" => req[q].old \notin Live(l)'
      BY DEF Refreshing
    <2>3. OneRefresh(l) /\ current'[l] = current[l] /\ l \in SessionIds
      OBVIOUS
    <2> QED
      BY <2>1, <2>2, <2>3, ShrinkLogin
  <1>3. OneRefresh(i)'
    <2>1. \A q \in Requests : q \notin Refreshing(i)'
      BY DEF Refreshing, LoginOf, TokensIssued
    <2>2. \A q \in Requests : ~Busy(q, i)' /\ ~Holds(q, i)'
      BY <2>1 DEF Busy, Holds, Refreshing, LoginOf
    <2>3. \A j \in Live(i)' : j = i
      BY DEF Live, TokensIssued
    <2>4. i \notin closed'
      BY DEF TokensIssued
    <2> QED
      BY <2>2, <2>3, <2>4 DEF OneRefresh
  <1> QED
    BY <1>1, <1>2, <1>3

\* The provider's answer makes the old session's refresh token worthless.
LEMMA AnswerSingle ==
    ASSUME TypeOK, TokensIssued, \A l \in SessionIds : OneRefresh(l), SingleUse,
           NEW r \in Requests, Exchange(r)
    PROVE  TokensIssued' /\ \A l \in SessionIds : OneRefresh(l)'
  <1> DEFINE t == req[r]
  <1>0. t \in Refreshes /\ t.seen.login \in SessionIds
    BY DEF Exchange, TypeOK, Threads, Idle, Refreshes, SessionRecord
  <1> PICK m \in SessionIds : t.seen.login = m
    BY <1>0
  <1>1. /\ t.pc = "read" /\ t.seen.token = current[m]
        /\ current' = [current EXCEPT ![m] = @ + 1]
        /\ Become(r, [t EXCEPT !.pc = "exchanged", !.seen.token = current'[m]])
        /\ UNCHANGED <<config, now, states, redeemed, sessions, issued, closed>>
    BY DEF Exchange, SingleUse
  <1>2. t \in Refreshes /\ t.seen.login = m
    BY <1>0
  <1>3. /\ current[m] \in Nat /\ current'[m] = current[m] + 1
        /\ \A l \in SessionIds \ {m} : current'[l] = current[l]
    BY <1>1, <1>2 DEF TypeOK
  <1>4. /\ req'[r].pc = "exchanged" /\ req'[r].old = t.old
        /\ req'[r].seen.login = m /\ req'[r].seen.token = current'[m]
        /\ \A q \in Requests \ {r} : req'[q] = req[q]
    BY <1>1, <1>2 DEF Become, TypeOK, Refreshes, SessionRecord
  <1>5. \A i \in SessionIds : sessions[i] # None =>
           sessions[i].login \in SessionIds /\ sessions[i].token \in Nat \cup {None}
    BY DEF TypeOK, SessionRecord
  <1>6. \A q \in Requests : req[q].pc \in {"read", "exchanged"} =>
           req[q].seen.login \in SessionIds /\ req[q].seen.token \in Nat \cup {None}
    BY DEF TypeOK, Threads, Idle, SessionRecord
  <1>7. \A l \in SessionIds : current[l] \in Nat /\ current'[l] \in Nat /\ current[l] <= current'[l]
    BY <1>3 DEF TypeOK
  <1>8. None \notin Int
    BY ParameterAssumption
  <1>9. TokensIssued'
    <2>1. \A i \in SessionIds : sessions[i] # None =>
             /\ sessions[i].login \in issued
             /\ sessions[i].token = None \/ sessions[i].token <= current'[sessions[i].login]
      BY <1>5, <1>7 DEF TokensIssued
    <2>2. \A q \in Requests : req'[q].pc \in {"read", "exchanged"} =>
             /\ req'[q].seen.login \in issued
             /\ req'[q].seen.token = None \/ req'[q].seen.token <= current'[req'[q].seen.login]
      <3> SUFFICES ASSUME NEW q \in Requests, req'[q].pc \in {"read", "exchanged"}
                   PROVE  /\ req'[q].seen.login \in issued
                          /\ \/ req'[q].seen.token = None
                             \/ req'[q].seen.token <= current'[req'[q].seen.login]
        OBVIOUS
      <3>1. CASE q = r
        BY <1>1, <1>2, <1>4, <1>7, <3>1 DEF TokensIssued
      <3>2. CASE q # r
        BY <1>4, <1>6, <1>7, <3>2 DEF TokensIssued
      <3> QED
        BY <3>1, <3>2
    <2>3. \A q \in Requests : req'[q].pc = "renewed" => req'[q].login \in issued
      BY <1>4 DEF TokensIssued
    <2> QED
      BY <1>1, <2>1, <2>2, <2>3 DEF TokensIssued
  <1>10. ASSUME NEW l \in SessionIds \ {m} PROVE OneRefresh(l)'
    <2>1. \A i \in Live(l)' : i \in Live(l) /\ sessions'[i] = sessions[i]
      BY <1>1 DEF Live
    <2>2. \A q \in Requests :
             \/ req'[q] = req[q]
             \/ /\ q \notin Refreshing(l)'
                /\ Busy(q, l) /\ req[q].pc = "renewed" => req[q].old \notin Live(l)'
      BY <1>1, <1>4 DEF Refreshing, LoginOf
    <2>3. OneRefresh(l) /\ current'[l] = current[l] /\ l \in SessionIds /\ l \notin closed' \ closed
      BY <1>1, <1>3
    <2> QED
      BY <2>1, <2>2, <2>3, ShrinkLogin
  <1>11. OneRefresh(m)'
    <2>0. OneRefresh(m)
      BY <1>2
    <2>1. Live(m)' = Live(m)
      BY <1>1 DEF Live
    <2>2. Holds(r, m)
      BY <1>1 DEF Holds
    <2>3. Live(m) \subseteq {t.old} /\ \A q \in Requests : ~Busy(q, m)
      BY <2>0, <2>2 DEF OneRefresh
    <2>4. Busy(r, m)' /\ \A q \in Requests \ {r} : ~Busy(q, m)'
      BY <1>4, <2>3 DEF Busy, LoginOf
    <2>5. \A i \in Live(m) : sessions'[i].token # current'[m]
      BY <1>1, <1>3, <1>5, <1>8 DEF Live, TokensIssued
    <2>6. \A q \in Requests : ~Holds(q, m)'
      <3> SUFFICES ASSUME NEW q \in Requests \ {r}, req[q].pc = "read", req[q].seen.login = m
                   PROVE  req[q].seen.token # current'[m]
        BY <1>4 DEF Holds
      <3> QED
        BY <1>3, <1>6, <1>8 DEF TokensIssued
    <2>7. m \notin closed'
      BY <1>1, <2>0 DEF OneRefresh, Refreshing, LoginOf
    <2> QED
      BY <1>4, <2>1, <2>3, <2>4, <2>5, <2>6, <2>7 DEF OneRefresh
  <1> QED
    BY <1>9, <1>10, <1>11

\* The refreshed session joins its predecessor, which is of no use any more.
LEMMA RenewSingle ==
    ASSUME TypeOK, TokensIssued, \A l \in SessionIds : OneRefresh(l), IdsIssued,
           NEW r \in Requests, Renew(r)
    PROVE  TokensIssued' /\ \A l \in SessionIds : OneRefresh(l)'
  <1> DEFINE t == req[r]
  <1>0. t \in Refreshes /\ t.seen.login \in SessionIds /\ t.seen.token \in Nat \cup {None}
    BY DEF Renew, TypeOK, Threads, Idle, Refreshes, SessionRecord
  <1> PICK m \in SessionIds : t.seen.login = m
    BY <1>0
  <1>1. PICK i \in SessionIds, e \in ExpiresIn :
          /\ Put(i, m, t.seen.token, e)
          /\ Become(r, [pc |-> "renewed", old |-> t.old, new |-> i,
                        login |-> m, until |-> now + Lifetime(e)])
    BY DEF Renew
  <1>2. t.pc = "exchanged" /\ UNCHANGED <<config, now, redeemed, current, closed>>
    BY DEF Renew
  <1>3. t \in Refreshes /\ t.seen.login = m /\ t.seen.token \in Nat \cup {None}
    BY <1>0
  <1>4. /\ i \notin issued /\ issued' = issued \cup {i}
        /\ sessions'[i].login = m /\ sessions'[i].token = t.seen.token
    BY <1>1, Expiry DEF Put
  <1>5. \A j \in SessionIds \ {i} : sessions'[j] \in {sessions[j], None}
    BY <1>1, Expiry DEF Put
  <1>6. /\ req'[r].pc = "renewed" /\ req'[r].old = t.old /\ req'[r].new = i /\ req'[r].login = m
        /\ \A q \in Requests \ {r} : req'[q] = req[q]
    BY <1>1 DEF Become, TypeOK
  <1>7. sessions[i] = None
    BY <1>4 DEF IdsIssued
  <1>8. TokensIssued'
    <2>1. t.seen.login \in issued /\ (t.seen.token = None \/ t.seen.token <= current[m])
      BY <1>2 DEF TokensIssued
    <2> QED
      BY <1>2, <1>4, <1>5, <1>6, <2>1 DEF TokensIssued
  <1>9. ASSUME NEW l \in SessionIds \ {m} PROVE OneRefresh(l)'
    <2>1. \A j \in Live(l)' : j \in Live(l) /\ sessions'[j] = sessions[j]
      BY <1>4, <1>5 DEF Live
    <2>2. \A q \in Requests :
             \/ req'[q] = req[q]
             \/ /\ q \notin Refreshing(l)'
                /\ Busy(q, l) /\ req[q].pc = "renewed" => req[q].old \notin Live(l)'
      BY <1>2, <1>6 DEF Refreshing, LoginOf
    <2>3. OneRefresh(l) /\ current'[l] = current[l] /\ l \in SessionIds /\ l \notin closed' \ closed
      BY <1>2
    <2> QED
      BY <2>1, <2>2, <2>3, ShrinkLogin
  <1>10. OneRefresh(m)'
    <2>0. OneRefresh(m) /\ Busy(r, m)
      BY <1>2, <1>3 DEF Busy, LoginOf
    <2>1. \A j \in Live(m) : j = t.old /\ sessions[j].token # current[m]
      BY <1>2, <2>0 DEF OneRefresh
    <2>2. \A j \in Live(m)' : j = i \/ (j \in Live(m) /\ sessions'[j] = sessions[j])
      BY <1>5 DEF Live
    <2>3. \A q \in Requests : Busy(q, m)' => Busy(q, m)
      BY <1>2, <1>6, <2>0 DEF Busy, LoginOf
    <2>4. \A q \in Requests : ~Holds(q, m)'
      BY <1>2, <1>6, <2>0 DEF Holds, OneRefresh
    <2>5. Busy(r, m)' /\ \A q \in Requests : Busy(q, m)' => q = r
      <3>1. Busy(r, m)'
        BY <1>6 DEF Busy, LoginOf
      <3>2. \A q \in Requests : Busy(q, m) => q = r
        BY <2>0 DEF OneRefresh
      <3> QED
        BY <2>3, <3>1, <3>2
    <2>6. m \notin closed'
      BY <1>2, <2>0 DEF OneRefresh, Refreshing, LoginOf
    <2> QED
      BY <1>2, <1>6, <2>1, <2>2, <2>4, <2>5, <2>6 DEF OneRefresh
  <1> QED
    BY <1>8, <1>9, <1>10

\* A route that looks a session up learns a refresh token that is good only if
\* nobody else is using it.
LEMMA ReadSingle ==
    ASSUME TokensIssued, \A l \in SessionIds : OneRefresh(l),
           NEW r \in Requests, NEW i \in SessionIds \ Undelivered,
           sessions[i] # None, sessions[i] \in SessionRecord,
           r \in DOMAIN req, req[r] = Idle,
           Become(r, [pc |-> "read", old |-> i, seen |-> sessions[i]]),
           current' = current, issued' = issued, closed' = closed,
           \A j \in SessionIds : sessions'[j] \in {sessions[j], None}
    PROVE  TokensIssued' /\ \A l \in SessionIds : OneRefresh(l)'
  <1> DEFINE s == sessions[i]
             t == [pc |-> "read", old |-> i, seen |-> s]
  <1>1. req'[r] = t /\ t.pc = "read" /\ t.old = i /\ t.seen = s
    BY DEF Become
  <1>2. \A q \in Requests \ {r} : req'[q] = req[q]
    BY DEF Become
  <1>3. TokensIssued'
    BY <1>1, <1>2 DEF TokensIssued
  <1>4. ASSUME NEW l \in SessionIds PROVE OneRefresh(l)'
    <2>0. OneRefresh(l)
      OBVIOUS
    <2>1. \A p \in Requests : /\ Busy(p, l)' <=> Busy(p, l)
                              /\ Busy(p, l) => req'[p] = req[p]
      BY <1>1, <1>2 DEF Busy, LoginOf, Idle
    <2>2. Live(l)' \subseteq Live(l) /\ \A j \in Live(l)' : sessions'[j] = sessions[j]
      BY DEF Live
    <2>3. \A p, q \in Requests : Busy(p, l)' /\ Busy(q, l)' => p = q
      BY <2>0, <2>1 DEF OneRefresh
    <2>4. \A p \in Requests : Busy(p, l)' =>
             \A j \in Live(l)' : \/ j = req'[p].old /\ sessions'[j].token # current'[l]
                                 \/ req'[p].pc = "renewed" /\ j = req'[p].new
      BY <2>0, <2>1, <2>2 DEF OneRefresh
    <2>5. ASSUME NEW p \in Requests, Holds(p, l)'
          PROVE  Live(l)' \subseteq {req'[p].old} /\ \A q \in Requests : ~Busy(q, l)'
      <3>1. CASE p # r
        <4>1. Holds(p, l)
          BY <1>2, <2>5, <3>1 DEF Holds
        <4> QED
          BY <1>2, <2>0, <2>1, <2>2, <3>1, <4>1 DEF OneRefresh
      <3>2. CASE p = r
        <4>1. s.login = l /\ s.token = current[l] /\ i \in Live(l)
          BY <1>1, <2>5, <3>2 DEF Holds, Live
        <4>2. \A q \in Requests : ~Busy(q, l)
          <5> SUFFICES ASSUME NEW q \in Requests, Busy(q, l) PROVE FALSE
            OBVIOUS
          <5>1. req[q].pc = "renewed" /\ i = req[q].new
            BY <2>0, <4>1 DEF OneRefresh
          <5> QED
            BY <5>1 DEF Undelivered
        <4>3. Live(l) \subseteq {i}
          BY <2>0, <4>1, <4>2 DEF OneRefresh
        <4> QED
          BY <1>1, <2>1, <2>2, <3>2, <4>2, <4>3
      <3> QED
        BY <3>1, <3>2
    <2>6. (\A p \in Requests : ~Busy(p, l)') => \A j, k \in Live(l)' : j = k
      BY <2>0, <2>1, <2>2 DEF OneRefresh
    <2>7. ASSUME l \in closed' PROVE Live(l)' = {} /\ Refreshing(l)' = {}
      <3>1. Live(l) = {} /\ Refreshing(l) = {}
        BY <2>0, <2>7 DEF OneRefresh
      <3>2. s.login # l
        BY <3>1 DEF Live
      <3>3. \A q \in Requests : q \notin Refreshing(l)'
        <4>1. r \notin Refreshing(l)'
          BY <1>1, <3>2 DEF Refreshing, LoginOf
        <4>2. \A q \in Requests \ {r} : q \notin Refreshing(l)'
          BY <1>2, <3>1 DEF Refreshing, LoginOf
        <4> QED
          BY <4>1, <4>2
      <3> QED
        BY <2>2, <3>1, <3>3 DEF Refreshing
    <2> QED
      BY <2>3, <2>4, <2>5, <2>6, <2>7 DEF OneRefresh
  <1> QED
    BY <1>3, <1>4

\* Every step of every thread keeps a sign-in to one session, if its refresh
\* tokens are good for one use.
LEMMA NextSingle == IInv /\ SingleInv /\ [Next]_vars => SingleInv'
  <1> SUFFICES ASSUME IInv, SingleInv, [Next]_vars, SingleUse'
               PROVE  TokensIssued' /\ \A l \in SessionIds : OneRefresh(l)'
    BY DEF SingleInv
  <1> USE DEF IInv
  <1>1. config' = config
    <2>1. ASSUME NEW r \in Requests
          PROVE  /\ Callback(r) \/ CallbackSession(r) => config' = config
                 /\ ExchangeFails(r) \/ Lookup(r) => config' = config
                 /\ Exchange(r) => config' = config
                 /\ Renew(r) \/ Retire(r) => config' = config
      BY ZenonT(30) DEF Callback, CallbackSession, ExchangeFails, Lookup, Exchange, Renew, Retire
    <2>2. Login \/ CodexLogin \/ Tick \/ Restart \/ UNCHANGED vars => config' = config
      BY DEF Login, CodexLogin, Tick, Restart, vars
    <2>3. ASSUME NEW i \in SessionIds, Logout(i) PROVE config' = config
      BY <2>3 DEF Logout
    <2> QED
      BY <2>1, <2>2, <2>3 DEF Next
  <1>2. SingleUse
    BY <1>1 DEF SingleUse, config
  <1>3. TokensIssued /\ \A l \in SessionIds : OneRefresh(l)
    BY <1>2 DEF SingleInv
  <1>4. ~codex /\ closed \subseteq SessionIds
    BY <1>2 DEF SingleUse, TypeOK
  <1>5. \A i \in SessionIds : LiveSessions[i] \in {sessions[i], None}
    BY Expiry
  <1>6. CASE Login
    <2>1. UNCHANGED <<issued, current, closed, req>> /\ sessions' = LiveSessions
      BY <1>6 DEF Login
    <2> QED
      BY <1>3, <1>4, <1>5, <2>1, ShrinkSingle
  <1>7. CASE CodexLogin
    BY <1>4, <1>7 DEF CodexLogin
  <1>8. CASE Tick \/ UNCHANGED vars
    <2>1. UNCHANGED <<issued, current, closed, req, sessions>>
      BY <1>8 DEF Tick, vars
    <2> QED
      BY <1>3, <1>4, <2>1, ShrinkSingle
  <1>9. CASE Restart
    <2>1. UNCHANGED <<issued, current, closed>>
      BY <1>9 DEF Restart
    <2>2. \A i \in SessionIds : sessions'[i] = None
      BY <1>9 DEF Restart
    <2>3. \A q \in Requests : req'[q].pc = "idle"
      BY <1>9 DEF Restart, Idle
    <2>4. \A q \in Requests : req[q].pc = "renewed" => req[q].old \in SessionIds
      BY DEF TypeOK, Threads, Idle
    <2> QED
      BY <1>3, <1>4, <2>1, <2>2, <2>3, <2>4, ShrinkSingle
  <1>10. ASSUME NEW i \in SessionIds, Logout(i)
         PROVE  TokensIssued' /\ \A l \in SessionIds : OneRefresh(l)'
    <2>1. PICK m \in SessionIds : m = sessions[i].login
      BY <1>10 DEF Logout, TypeOK, SessionRecord
    <2>2. /\ sessions[i] # None /\ UNCHANGED <<issued, current, req>>
          /\ sessions' = [sessions EXCEPT ![i] = None]
          /\ closed' = closed \/ (closed' = closed \cup {m} /\ Refreshing(m) = {})
      BY <1>10, <2>1 DEF Logout
    <2>3. sessions'[i] = None /\ \A j \in SessionIds : sessions'[j] \in {sessions[j], None}
      BY <2>2 DEF TypeOK
    <2>4. i \in Live(m) /\ m \in issued
      BY <1>3, <2>1, <2>2 DEF Live, TokensIssued
    <2>5. Refreshing(m) = {} => \A j \in Live(m) : sessions'[j] = None
      <3> SUFFICES ASSUME Refreshing(m) = {} PROVE \A j \in Live(m) : j = i
        BY <2>3
      <3>1. \A q \in Requests : ~Busy(q, m)
        BY DEF Busy, Refreshing
      <3> QED
        BY <1>3, <2>4, <3>1 DEF OneRefresh
    <2> QED
      BY <1>3, <1>4, <2>2, <2>3, <2>4, <2>5, ShrinkSingle
  <1>11. ASSUME NEW r \in Requests, Callback(r)
         PROVE  TokensIssued' /\ \A l \in SessionIds : OneRefresh(l)'
    <2>1. UNCHANGED <<issued, current, closed>> /\ sessions' = LiveSessions
      BY <1>11 DEF Callback
    <2>2. req[r].pc = "idle"
      BY <1>11 DEF Callback, Idle
    <2>3. \A q \in Requests : req'[q] = req[q] \/ (q = r /\ req'[q].pc = "redeemed")
      BY <1>11 DEF Callback, Become, TypeOK
    <2> QED
      BY <1>3, <1>4, <1>5, <2>1, <2>2, <2>3, ShrinkSingle
  <1>12. ASSUME NEW r \in Requests, CallbackSession(r)
         PROVE  TokensIssued' /\ \A l \in SessionIds : OneRefresh(l)'
    <2>1. PICK i \in SessionIds, token \in {0, None} : Put(i, i, token, req[r].expiresIn)
      BY <1>12 DEF CallbackSession
    <2>2. /\ req[r].pc = "redeemed" /\ Become(r, Idle) /\ UNCHANGED <<current, closed>>
      BY <1>12 DEF CallbackSession
    <2>3. req[r].expiresIn \in ExpiresIn \cup {None} /\ token \in Nat \cup {None}
      BY <2>2 DEF TypeOK, Threads, Idle
    <2>4. /\ i \in SessionIds \ issued /\ issued' = issued \cup {i}
          /\ sessions'[i].login = i /\ sessions'[i].token = token
      BY <2>1, Expiry DEF Put
    <2>5. sessions'[i] # None /\ \A j \in SessionIds \ {i} : sessions'[j] \in {sessions[j], None}
      BY <1>5, <2>1, <2>3, PutSession
    <2>6. token = None \/ token <= current[i]
      BY DEF TypeOK
    <2>7. \A q \in Requests :
             \/ req'[q] = req[q]
             \/ req'[q].pc \notin {"read", "exchanged", "renewed"} /\ req[q].pc # "renewed"
      BY <2>2 DEF Become, Idle, TypeOK
    <2> QED
      BY <1>3, <2>2, <2>4, <2>5, <2>6, <2>7, NewSingle
  <1>13. ASSUME NEW r \in Requests, ExchangeFails(r)
         PROVE  TokensIssued' /\ \A l \in SessionIds : OneRefresh(l)'
    <2>1. /\ req[r].pc # "renewed" /\ Become(r, Idle)
          /\ UNCHANGED <<sessions, issued, current, closed>>
      BY <1>13 DEF ExchangeFails
    <2>2. \A q \in Requests :
             \/ req'[q] = req[q]
             \/ req'[q].pc \notin {"read", "exchanged", "renewed"} /\ req[q].pc # "renewed"
      BY <2>1 DEF Become, Idle, TypeOK
    <2> QED
      BY <1>3, <1>4, <2>1, <2>2, ShrinkSingle
  <1>14. ASSUME NEW r \in Requests, Lookup(r)
         PROVE  TokensIssued' /\ \A l \in SessionIds : OneRefresh(l)'
    <2>1. PICK i \in SessionIds \ Undelivered :
            /\ req[r] = Idle
            /\ sessions' = LiveSessions
            /\ \/ /\ LiveSessions[i] # None
                  /\ Become(r, [pc |-> "read", old |-> i, seen |-> LiveSessions[i]])
               \/ UNCHANGED req
      BY <1>14 DEF Lookup
    <2>2. UNCHANGED <<issued, current, closed>>
      BY <1>14 DEF Lookup
    <2>3. CASE UNCHANGED req
      BY <1>3, <1>4, <1>5, <2>1, <2>2, <2>3, ShrinkSingle
    <2>4. CASE /\ LiveSessions[i] # None
               /\ Become(r, [pc |-> "read", old |-> i, seen |-> LiveSessions[i]])
      <3>1. LiveSessions[i] = sessions[i] /\ sessions[i] # None /\ sessions[i] \in SessionRecord
        BY <1>5, <2>4 DEF TypeOK
      <3>2. r \in DOMAIN req
        BY DEF TypeOK
      <3>3. \A j \in SessionIds : sessions'[j] \in {sessions[j], None}
        BY <1>5, <2>1
      <3>4. Become(r, [pc |-> "read", old |-> i, seen |-> sessions[i]])
        BY <2>4, <3>1
      <3> QED
        BY <1>3, <2>1, <2>2, <3>1, <3>2, <3>3, <3>4, ReadSingle
    <2> QED
      BY <2>1, <2>3, <2>4
  <1>15. ASSUME NEW r \in Requests, Exchange(r)
         PROVE  TokensIssued' /\ \A l \in SessionIds : OneRefresh(l)'
    BY <1>2, <1>3, <1>15, AnswerSingle
  <1>16. ASSUME NEW r \in Requests, Renew(r)
         PROVE  TokensIssued' /\ \A l \in SessionIds : OneRefresh(l)'
    BY <1>3, <1>16, RenewSingle
  <1>17. ASSUME NEW r \in Requests, Retire(r)
         PROVE  TokensIssued' /\ \A l \in SessionIds : OneRefresh(l)'
    <2>1. /\ req[r].pc = "renewed" /\ Become(r, Idle)
          /\ sessions' = [sessions EXCEPT ![req[r].old] = None]
          /\ UNCHANGED <<issued, current, closed>>
      BY <1>17 DEF Retire
    <2>2. req[r].old \in SessionIds
      BY <2>1 DEF TypeOK, Threads, Idle
    <2>3. \A i \in SessionIds : sessions'[i] \in {sessions[i], None}
      BY <2>1 DEF TypeOK
    <2>4. sessions'[req[r].old] = None
      BY <2>1, <2>2 DEF TypeOK
    <2>5. \A q \in Requests : req'[q] = req[q] \/ (q = r /\ req'[q].pc = "idle")
      BY <2>1 DEF Become, Idle, TypeOK
    <2> QED
      BY <1>3, <1>4, <2>1, <2>3, <2>4, <2>5, ShrinkSingle
  <1> QED
    BY <1>6, <1>7, <1>8, <1>9, <1>10, <1>11, <1>12, <1>13, <1>14, <1>15, <1>16, <1>17 DEF Next

\* An empty store satisfies it.
LEMMA InitSingle == Init => SingleInv
  BY DEF Init, SingleInv, TokensIssued, OneRefresh, Live, Refreshing, Busy, Holds, Idle

\* The invariant of single-use refresh tokens holds of every run.
LEMMA SingleInvariance == Spec => []SingleInv
  BY Invariance, InitSingle, NextSingle, PTL DEF Spec

\* A sign-in that was logged out while no refresh of it was under way never has
\* a session again (logout, _oauth_refresh_impl), however many threads refresh.
THEOREM LogoutsLast == Spec => []ClosedStaysClosed
  <1>1. IInv /\ SingleInv => ClosedStaysClosed
    BY DEF IInv, TypeOK, SingleInv, ClosedStaysClosed, OneRefresh
  <1> QED
    BY Invariance, SingleInvariance, <1>1, PTL

\* Concurrent refreshes leave a sign-in one session, and a second one only
\* until its predecessor is deleted (_oauth_refresh_impl): the provider answers
\* one of them, and the session it leads to is unknown to the others.
THEOREM SessionsDoNotMultiply == Spec => []OneSessionPerLogin
  <1>1. ASSUME IInv, SingleInv, SingleUse, NEW l \in SessionIds
        PROVE  Cardinality(Live(l)) <=
                 1 + Cardinality({r \in Requests : req[r].pc = "renewed" /\ req[r].login = l})
    <2> DEFINE renewing == {r \in Requests : req[r].pc = "renewed" /\ req[r].login = l}
    <2>1. OneRefresh(l)
      BY <1>1 DEF SingleInv
    <2>2. \A r \in renewing : Busy(r, l)
      BY DEF Busy, LoginOf
    <2>3. \A p, q \in renewing : p = q
      BY <2>1, <2>2 DEF OneRefresh
    <2>4. CASE renewing # {}
      <3>1. PICK r \in renewing : TRUE
        BY <2>4
      <3>2. renewing = {r}
        BY <2>3, <3>1
      <3>3. Live(l) \subseteq {req[r].old, req[r].new}
        BY <2>1, <2>2, <3>1 DEF OneRefresh
      <3>4. Cardinality(renewing) = 1
        BY <3>2, FS_Singleton
      <3>5. IsFiniteSet({req[r].old, req[r].new}) /\ Cardinality({req[r].old, req[r].new}) <= 2
        BY PairSize
      <3>6. Cardinality(Live(l)) <= 2
        BY <3>3, <3>5, FS_Subset, FS_CardinalityType
      <3> QED
        BY <3>4, <3>6
    <2>5. CASE renewing = {}
      <3>1. Cardinality(renewing) = 0
        BY <2>5, FS_EmptySet
      <3>2. \A i, j \in Live(l) : i = j
        <4>1. CASE \E r \in Requests : Busy(r, l)
          <5>1. PICK r \in Requests : Busy(r, l)
            BY <4>1
          <5>2. req[r].pc # "renewed"
            BY <2>5, <5>1 DEF Busy, LoginOf
          <5> QED
            BY <2>1, <5>1, <5>2 DEF OneRefresh
        <4>2. CASE \A r \in Requests : ~Busy(r, l)
          BY <2>1, <4>2 DEF OneRefresh
        <4> QED
          BY <4>1, <4>2
      <3>3. ASSUME NEW i \in Live(l) PROVE Cardinality(Live(l)) = 1
        <4>1. Live(l) = {i}
          BY <3>2
        <4> QED
          BY <4>1, FS_Singleton
      <3>4. Live(l) = {} => Cardinality(Live(l)) = 0
        BY FS_EmptySet
      <3> QED
        BY <3>1, <3>3, <3>4
    <2> QED
      BY <2>4, <2>5
  <1>2. IInv /\ SingleInv => OneSessionPerLogin
    BY <1>1 DEF OneSessionPerLogin
  <1> QED
    BY Invariance, SingleInvariance, <1>2, PTL
=============================================================================
