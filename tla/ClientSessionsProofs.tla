-------------------------- MODULE ClientSessionsProofs --------------------------
(***************************************************************************)
(* Proofs about NativeSession, WebAuth, EmergencyAccess and AppProtection,   *)
(* for any sets of requests, tabs, devices, contacts, calls and copies and   *)
(* any bounds.                                                               *)
(***************************************************************************)
EXTENDS MCClientSessions, FiniteSetTheorems, TLAPS

-----------------------------------------------------------------------------
(* The native session.                                                       *)

RequestStates ==
    [at : {"none", "sent", "waiting", "clear1", "clear2"}, authRetry : BOOLEAN,
     net : 0..NetRetries, on : Reqs \cup {NoReq}]
RefreshStates == [at : RefreshSteps, tok : Tokens]

(* A token that can be presented to the server.                              *)
Current(t) == t.s \in Sessions /\ t.g = srvGen[t.s]

(* Sessions are numbered in the order of the logins; a refresh token comes   *)
(* from one of them, and not before the login has stored it.                 *)
SessionsOrdered ==
    LET storing == userFlow.at \in {"store1", "store2"}
        Known(t) == t = NoToken \/ (t.s \in Sessions /\ t.s <= srvLogins
                                    /\ (storing => t.s # userFlow.s))
    IN
    /\ \A s \in Sessions : s > srvLogins => srvGen[s] = 0
    /\ storing => userFlow.s \in Sessions /\ userFlow.s = srvLogins /\ srvGen[userFlow.s] = 0
    /\ Known(refreshToken)
    /\ \A q \in Reqs : Known(refresh[q].tok)

(* One refresh at a time, on behalf of the request that began it.            *)
OneRefresh == \A q \in Reqs : refresh[q].at # "none" => q = inProgress

(* The stored refresh token is current, unless the refresh in progress has   *)
(* used it and will replace or delete it; what that refresh holds is current.*)
Rotated(q) == refresh[q].at \in {"access", "refresh", "clear1", "clear2"}
StoreIsCurrent ==
    /\ \/ refreshToken = NoToken \/ Current(refreshToken)
       \/ \E q \in Reqs : Rotated(q)
    /\ \A q \in Reqs : refresh[q].at \in {"posted", "access", "refresh"} => Current(refresh[q].tok)

NativeInv ==
    /\ NativeTypeOK /\ SessionsOrdered /\ OneRefresh /\ StoreIsCurrent /\ NoTokenReuse

(* The records that stand for nothing have their types.                      *)
LEMMA NativeBuiltTypes ==
  /\ NoToken \in Tokens /\ NoRefresh \in RefreshStates /\ NoRequest \in RequestStates
  /\ NoFlow \in [at : UserSteps, s : 0..MaxLogins]
<1> USE NativeSessionAssumption
<1>1. 0 \in 0..MaxLogins /\ 0 \in 0..MaxGen /\ 0 \in 0..NetRetries
  OBVIOUS
<1>2. NoToken \in Tokens
  BY <1>1 DEF NoToken, Tokens
<1> QED BY <1>1, <1>2 DEF NoRefresh, RefreshStates, RefreshSteps, NoRequest, RequestStates, NoFlow,
                         UserSteps

(* The types hold at the start, when nobody is logged in.                    *)
LEMMA NativeTypesInit == NativeInit => NativeTypeOK
<1> SUFFICES ASSUME NativeInit PROVE NativeTypeOK
  OBVIOUS
<1>1. 0 \in 0..MaxLogins /\ 0 \in 0..MaxGen
  BY NativeSessionAssumption
<1> QED BY <1>1, NativeBuiltTypes DEF NativeInit, NativeTypeOK, RefreshStates, RequestStates

(* The steps of the interceptors keep the types.                             *)
LEMMA NativeTypesRequest ==
  ASSUME NativeTypeOK, NEW r \in Reqs, SendRequest(r) \/ RequestStep(r)
  PROVE  NativeTypeOK'
<1> USE NativeBuiltTypes DEF NativeTypeOK, RequestStates, storeVars, userVars, serverVars
<1>1. request[r] \in RequestStates /\ refresh[r] \in RefreshStates
  BY DEF RefreshStates
<1>2. CASE SendRequest(r)
  BY <1>1, <1>2 DEF SendRequest
<1>3. CASE Respond(r)
  BY <1>1, <1>3 DEF Respond
<1>4. CASE NetworkError(r)
  <2>1. CASE request[r].net < NetRetries /\ request' = [request EXCEPT ![r].net = @ + 1]
    <3>1. request[r].net + 1 \in 0..NetRetries
      BY <1>1, <2>1, NativeSessionAssumption
    <3>2. request' \in [Reqs -> RequestStates]
      BY <1>1, <2>1, <3>1
    <3> QED BY <1>4, <3>2 DEF NetworkError
  <2>2. CASE request' = [request EXCEPT ![r] = NoRequest]
    BY <1>4, <2>2 DEF NetworkError
  <2> QED BY <1>4, <2>1, <2>2 DEF NetworkError
<1>5. CASE Unauthorized(r)
  <2>1. (IF inProgress = NoReq THEN r ELSE inProgress) \in Reqs \cup {NoReq}
    OBVIOUS
  <2>2. request' \in [Reqs -> RequestStates]
    <3> DEFINE v == [at |-> "waiting", authRetry |-> TRUE, net |-> request[r].net,
                     on |-> IF inProgress = NoReq THEN r ELSE inProgress]
    <3>1. v \in RequestStates
      BY <1>1, <2>1
    <3>2. request' = [request EXCEPT ![r] = NoRequest] \/ request' = [request EXCEPT ![r] = v]
      BY <1>1, <1>5 DEF Unauthorized
    <3> QED BY <3>1, <3>2
  <2>3. refresh' \in [Reqs -> RefreshStates] /\ inProgress' \in Reqs \cup {NoReq}
    BY <1>1, <1>5, <2>1 DEF Unauthorized, RefreshStates, RefreshSteps
  <2> QED BY <1>5, <2>2, <2>3 DEF Unauthorized, RefreshStates
<1>6. CASE RejectRequest(r)
  <2>1. request' \in [Reqs -> RequestStates]
    BY <1>1, <1>6 DEF RejectRequest
  <2> QED BY <1>6, <2>1 DEF RejectRequest
<1> QED BY <1>2, <1>3, <1>4, <1>5, <1>6 DEF RequestStep

(* A settled refresh keeps the types.                                        *)
LEMMA SettledTypes ==
  ASSUME NativeTypeOK, NEW q \in Reqs, NEW step \in {"sent", "clear1"}, SettleRefresh(q, step)
  PROVE  /\ refresh' \in [Reqs -> RefreshStates] /\ inProgress' = NoReq
         /\ request' \in [Reqs -> RequestStates]
<1>1. refresh' \in [Reqs -> RefreshStates] /\ inProgress' = NoReq
  BY NativeBuiltTypes DEF SettleRefresh, NativeTypeOK, RefreshStates
<1>2. \A r \in Reqs : request[r] \in RequestStates
  BY DEF NativeTypeOK, RequestStates
<1>3. \A r \in Reqs : [request[r] EXCEPT !.at = step, !.on = NoReq] \in RequestStates
  BY <1>2 DEF RequestStates
<1> QED BY <1>1, <1>2, <1>3 DEF SettleRefresh

(* So do the steps of a refresh.                                             *)
LEMMA NativeTypesRefresh ==
  ASSUME NativeTypeOK, NEW q \in Reqs, RefreshStep(q)
  PROVE  NativeTypeOK'
<1> USE NativeBuiltTypes DEF NativeTypeOK, RefreshStates, storeVars, userVars, serverVars
<1>1. refresh[q] \in RefreshStates
  OBVIOUS
<1>2. RefreshRejected(q) => refresh' \in [Reqs -> RefreshStates]
  BY DEF RefreshRejected, RefreshSteps
<1>3. CASE RefreshRead(q)
  <2>1. refresh' \in [Reqs -> RefreshStates]
    BY <1>2, <1>3 DEF RefreshRead, RefreshSteps
  <2> QED BY <1>3, <2>1 DEF RefreshRead
<1>4. CASE PostRefresh(q)
  <2> DEFINE t == refresh[q].tok
  <2>1. t \in Tokens /\ t.s \in 0..MaxLogins /\ t.g \in 0..MaxGen
    BY <1>1 DEF Tokens
  <2>2. CASE t.g = srvGen[t.s] /\ t.g < MaxGen /\ srvGen' = [srvGen EXCEPT ![t.s] = @ + 1]
             /\ (\/ refresh' = [refresh EXCEPT ![q] = [at |-> "access", tok |-> [t EXCEPT !.g = @ + 1]]]
                 \/ RefreshRejected(q))
    <3>1. t.g + 1 \in 0..MaxGen
      BY <2>1, <2>2, NativeSessionAssumption
    <3>2. [t EXCEPT !.g = @ + 1] \in Tokens
      BY <2>1, <3>1 DEF Tokens
    <3>3. refresh' \in [Reqs -> RefreshStates]
      BY <1>2, <2>2, <3>2 DEF RefreshSteps
    <3>4. srvGen' \in [Sessions -> 0..MaxGen]
      BY <2>2, <3>1
    <3>5. tokenReused' \in BOOLEAN
      BY <1>4 DEF PostRefresh
    <3> QED BY <1>4, <3>3, <3>4, <3>5 DEF PostRefresh
  <2>3. CASE RefreshRejected(q) /\ UNCHANGED srvGen
    <3>1. tokenReused' \in BOOLEAN
      BY <1>4 DEF PostRefresh
    <3> QED BY <1>2, <1>4, <2>3, <3>1 DEF PostRefresh
  <2> QED BY <1>4, <2>2, <2>3 DEF PostRefresh
<1>5. \A step \in {"refresh", "clear2"} : RefreshTo(q, step) => refresh' \in [Reqs -> RefreshStates]
  BY <1>1 DEF RefreshTo, RefreshSteps
<1>6. CASE RefreshStore(q)
  <2>1. CASE RefreshRejected(q) /\ UNCHANGED <<accessToken, refreshToken, inProgress, request>>
    BY <1>2, <1>6, <2>1 DEF RefreshStore
  <2>2. CASE accessToken' = refresh[q].tok /\ RefreshTo(q, "refresh")
             /\ UNCHANGED <<refreshToken, inProgress, request>>
    BY <1>1, <1>5, <1>6, <2>2 DEF RefreshStore
  <2>3. CASE refreshToken' = refresh[q].tok /\ SettleRefresh(q, "sent") /\ UNCHANGED accessToken
    BY <1>1, <1>6, <2>3, SettledTypes DEF RefreshStore, RequestStates
  <2> QED BY <1>6, <2>1, <2>2, <2>3 DEF RefreshStore
<1>7. CASE RefreshFails(q)
  <2>1. CASE refresh[q].at = "clear1"
    BY <1>1, <1>5, <1>7, <2>1 DEF RefreshFails
  <2>2. CASE refresh[q].at = "clear2"
    BY <1>1, <1>7, <2>2, SettledTypes DEF RefreshFails, RequestStates
  <2> QED BY <1>7, <2>1, <2>2 DEF RefreshFails
<1> QED BY <1>3, <1>4, <1>6, <1>7 DEF RefreshStep

(* The flows of the user, and a kill.                                        *)
LEMMA NativeTypesUser ==
  ASSUME NativeTypeOK,
         \/ register \/ RegisterPost \/ login \/ LoginVerify \/ storeTokens \/ deriveKey \/ UserInfo
         \/ logout \/ clearTokens \/ LogoutWipe
         \/ checkAuth \/ CheckTokens \/ lockVault \/ Kill
  PROVE  NativeTypeOK'
<1> USE NativeBuiltTypes DEF NativeTypeOK, storeVars, userVars, serverVars
<1>1. \A step \in UserSteps : FlowTo(step) => userFlow' \in [at : UserSteps, s : 0..MaxLogins]
  BY DEF FlowTo
<1>2. EndFlow => userFlow' \in [at : UserSteps, s : 0..MaxLogins]
  BY DEF EndFlow
<1>3. CASE register \/ RegisterPost \/ login
  BY <1>1, <1>2, <1>3 DEF register, RegisterPost, login, UserSteps
<1>4. CASE LoginVerify
  <2>1. CASE EndFlow /\ isAuthenticated' = FALSE /\ UNCHANGED srvLogins
    BY <1>2, <1>4, <2>1 DEF LoginVerify
  <2>2. CASE srvLogins < MaxLogins /\ srvLogins' = srvLogins + 1
             /\ userFlow' = [at |-> "store1", s |-> srvLogins'] /\ UNCHANGED isAuthenticated
    <3>1. srvLogins' \in 0..MaxLogins
      BY <2>2, NativeSessionAssumption
    <3> QED BY <1>4, <2>2, <3>1 DEF LoginVerify, UserSteps
  <2> QED BY <1>4, <2>1, <2>2 DEF LoginVerify
<1>5. CASE storeTokens
  <2>1. [s |-> userFlow.s, g |-> 0] \in Tokens
    BY NativeSessionAssumption DEF Tokens
  <2> QED BY <1>1, <1>5, <2>1 DEF storeTokens, UserSteps
<1>6. CASE deriveKey \/ UserInfo \/ logout \/ LogoutWipe \/ checkAuth \/ CheckTokens \/ lockVault
  BY <1>1, <1>2, <1>6 DEF deriveKey, UserInfo, logout, LogoutWipe, checkAuth, CheckTokens, lockVault,
                          UserSteps
<1>7. CASE clearTokens
  BY <1>1, <1>7 DEF clearTokens, UserSteps
<1>8. CASE Kill
  BY <1>8 DEF Kill, RefreshStates, RequestStates
<1> QED BY <1>3, <1>4, <1>5, <1>6, <1>7, <1>8

(* Requests, refreshes and the user's flows keep the types.                  *)
LEMMA NativeTypesStep ==
  ASSUME NativeTypeOK, [NativeNext]_NativeVars
  PROVE  NativeTypeOK'
<1>1. CASE UNCHANGED NativeVars
  BY <1>1 DEF NativeVars, NativeTypeOK, storeVars, userVars, serverVars
<1> QED BY <1>1, NativeTypesRequest, NativeTypesRefresh, NativeTypesUser DEF NativeNext

(* The start.                                                                *)
LEMMA NativeInvInit == NativeInit => NativeInv
<1> SUFFICES ASSUME NativeInit PROVE NativeInv
  OBVIOUS
<1>1. NativeTypeOK
  BY NativeTypesInit
<1>2. SessionsOrdered
  BY DEF NativeInit, SessionsOrdered, NoFlow, NoRefresh
<1>3. OneRefresh /\ StoreIsCurrent /\ NoTokenReuse
  BY DEF NativeInit, OneRefresh, StoreIsCurrent, NoTokenReuse, NoRefresh
<1> QED BY <1>1, <1>2, <1>3 DEF NativeInv

(* What a step that leaves the server, the stored refresh token and the      *)
(* refreshes alone keeps, unless it starts to store a login.                 *)
LEMMA NativeInvOther ==
  ASSUME NativeInv, NativeTypeOK',
         UNCHANGED <<refreshToken, refresh, inProgress, srvGen, srvLogins, tokenReused>>,
         userFlow'.at \in {"store1", "store2"} =>
             userFlow.at \in {"store1", "store2"} /\ userFlow'.s = userFlow.s
  PROVE  NativeInv'
<1> USE DEF NativeInv
<1>1. SessionsOrdered'
  BY DEF SessionsOrdered
<1>2. OneRefresh' /\ StoreIsCurrent' /\ NoTokenReuse'
  BY DEF OneRefresh, StoreIsCurrent, Current, Rotated, NoTokenReuse
<1> QED BY <1>1, <1>2

(* A request, and the refresh it begins when none is in progress.            *)
LEMMA NativeInvRequest ==
  ASSUME NativeInv, NEW r \in Reqs, SendRequest(r) \/ RequestStep(r)
  PROVE  NativeInv'
<1> USE DEF NativeInv, storeVars, userVars, serverVars
<1>1. NativeTypeOK'
  BY NativeTypesRequest
<1>2. CASE SendRequest(r) \/ Respond(r) \/ NetworkError(r)
  BY <1>1, <1>2, NativeInvOther DEF SendRequest, Respond, NetworkError
<1>3. CASE Unauthorized(r)
  <2>1. CASE UNCHANGED <<refresh, inProgress>>
    BY <1>1, <1>3, <2>1, NativeInvOther DEF Unauthorized
  <2>2. CASE inProgress = NoReq /\ refresh' = [refresh EXCEPT ![r].at = "read"] /\ inProgress' = r
    <3>1. \A q \in Reqs : refresh[q].at = "none"
      BY <2>2, NativeSessionAssumption DEF OneRefresh
    <3>2. refresh \in [Reqs -> RefreshStates]
      BY DEF NativeTypeOK, RefreshStates
    <3>3. /\ \A q \in Reqs : refresh'[q].tok = refresh[q].tok
          /\ refresh'[r].at = "read" /\ \A q \in Reqs \ {r} : refresh'[q].at = "none"
      BY <2>2, <3>1, <3>2 DEF RefreshStates
    <3>4. UNCHANGED <<refreshToken, userFlow, srvGen, srvLogins, tokenReused>>
      BY <1>3 DEF Unauthorized
    <3>5. SessionsOrdered'
      BY <3>3, <3>4 DEF SessionsOrdered
    <3>6. OneRefresh'
      BY <2>2, <3>3 DEF OneRefresh
    <3>7. StoreIsCurrent' /\ NoTokenReuse'
      BY <3>1, <3>3, <3>4 DEF StoreIsCurrent, Current, Rotated, NoTokenReuse
    <3> QED BY <1>1, <3>5, <3>6, <3>7
  <2> QED BY <1>3, <2>1, <2>2 DEF Unauthorized
<1>4. CASE RejectRequest(r)
  <2>1. CASE UNCHANGED refreshToken
    BY <1>1, <1>4, <2>1, NativeInvOther DEF RejectRequest
  <2>2. CASE refreshToken' = NoToken
    <3>1. UNCHANGED <<refresh, inProgress, userFlow, srvGen, srvLogins, tokenReused>>
      BY <1>4 DEF RejectRequest
    <3>2. SessionsOrdered'
      BY <2>2, <3>1 DEF SessionsOrdered
    <3>3. OneRefresh' /\ StoreIsCurrent' /\ NoTokenReuse'
      BY <2>2, <3>1 DEF OneRefresh, StoreIsCurrent, Current, NoTokenReuse
    <3> QED BY <1>1, <3>2, <3>3
  <2> QED BY <1>4, <2>1, <2>2 DEF RejectRequest
<1> QED BY <1>2, <1>3, <1>4 DEF RequestStep

(* The refresh in progress is the only one.                                  *)
LEMMA RefreshAlone ==
  ASSUME NativeInv, NEW q \in Reqs, refresh[q].at # "none"
  PROVE  inProgress = q /\ \A p \in Reqs \ {q} : refresh[p].at = "none"
  BY DEF NativeInv, OneRefresh

(* The refresh: the token that is read is current, is presented once, and is *)
(* replaced or deleted before another refresh can read it.                   *)
LEMMA NativeInvRefresh ==
  ASSUME NativeInv, NEW q \in Reqs, RefreshStep(q)
  PROVE  NativeInv'
<1> USE DEF NativeInv, storeVars, userVars, serverVars
<1>1. NativeTypeOK'
  BY NativeTypesRefresh
<1>2. refresh \in [Reqs -> RefreshStates] /\ refresh[q] \in RefreshStates
  BY DEF NativeTypeOK, RefreshStates
<1>3. refresh[q].at # "none" /\ UNCHANGED <<userFlow, srvLogins>>
  BY DEF RefreshStep, RefreshRead, PostRefresh, RefreshStore, RefreshFails
<1>4. inProgress = q /\ \A p \in Reqs \ {q} : refresh[p].at = "none"
  BY <1>3, RefreshAlone
<1>5. ASSUME NEW v, refresh' = [refresh EXCEPT ![q] = v]
      PROVE  refresh'[q] = v /\ \A p \in Reqs \ {q} : refresh'[p] = refresh[p]
  BY <1>2, <1>5
<1>6. CASE RefreshRead(q)
  <2>1. UNCHANGED <<refreshToken, inProgress, srvGen, tokenReused>> /\ refresh[q].at = "read"
    BY <1>6 DEF RefreshRead
  <2>2. CASE RefreshRejected(q)
    <3>1. /\ refresh'[q] = [at |-> "clear1", tok |-> NoToken]
          /\ \A p \in Reqs \ {q} : refresh'[p] = refresh[p]
      BY <1>5, <2>2 DEF RefreshRejected
    <3>2. SessionsOrdered'
      BY <1>3, <2>1, <3>1 DEF SessionsOrdered
    <3>3. OneRefresh'
      BY <1>4, <2>1, <3>1 DEF OneRefresh
    <3>4. StoreIsCurrent' /\ NoTokenReuse'
      BY <2>1, <3>1 DEF StoreIsCurrent, Current, Rotated, NoTokenReuse
    <3> QED BY <1>1, <3>2, <3>3, <3>4
  <2>3. CASE refreshToken # NoToken
             /\ refresh' = [refresh EXCEPT ![q] = [at |-> "posted", tok |-> refreshToken]]
    <3>1. /\ refresh'[q] = [at |-> "posted", tok |-> refreshToken]
          /\ \A p \in Reqs \ {q} : refresh'[p] = refresh[p]
      BY <1>5, <2>3
    <3>2. SessionsOrdered'
      BY <1>3, <2>1, <3>1 DEF SessionsOrdered
    <3>3. OneRefresh'
      BY <1>4, <2>1, <3>1 DEF OneRefresh
    <3>4. Current(refreshToken)
      BY <1>4, <2>1, <2>3 DEF StoreIsCurrent, Rotated
    <3>5. StoreIsCurrent' /\ NoTokenReuse'
      BY <2>1, <3>1, <3>4 DEF StoreIsCurrent, Current, NoTokenReuse
    <3> QED BY <1>1, <3>2, <3>3, <3>5
  <2> QED BY <1>6, <2>2, <2>3 DEF RefreshRead
<1>7. CASE PostRefresh(q)
  <2> DEFINE t == refresh[q].tok
  <2>1. UNCHANGED <<refreshToken, inProgress>> /\ refresh[q].at = "posted"
    BY <1>7 DEF PostRefresh
  <2>2. t.s \in Sessions /\ t.g = srvGen[t.s] /\ t \in Tokens /\ t # NoToken
    BY <1>2, <2>1, NativeSessionAssumption DEF StoreIsCurrent, Current, RefreshStates, NoToken, Sessions
  <2>3. NoTokenReuse'
    BY <1>7, <2>2 DEF PostRefresh, NoTokenReuse
  <2>4. ASSUME refresh'[q].at \in {"access", "clear1"},
               \A p \in Reqs \ {q} : refresh'[p] = refresh[p],
               \/ refresh'[q].tok = NoToken /\ refresh'[q].at = "clear1"
               \/ refresh'[q].tok.s = t.s /\ refresh'[q].tok.g = srvGen'[t.s],
               \A s \in Sessions \ {t.s} : srvGen'[s] = srvGen[s]
        PROVE  NativeInv'
    <3>1. t.s <= srvLogins /\ (userFlow.at \in {"store1", "store2"} => t.s # userFlow.s)
      BY <2>2 DEF SessionsOrdered
    <3>2. srvLogins \in Nat /\ t.s \in Nat
      BY <2>2, NativeSessionAssumption DEF NativeTypeOK, Sessions
    <3>3. SessionsOrdered'
      BY <1>3, <2>1, <2>2, <2>4, <3>1, <3>2 DEF SessionsOrdered, Sessions
    <3>4. OneRefresh'
      BY <1>4, <2>1, <2>4 DEF OneRefresh
    <3>5. StoreIsCurrent'
      BY <1>4, <2>2, <2>4 DEF StoreIsCurrent, Current, Rotated
    <3> QED BY <1>1, <2>3, <3>3, <3>4, <3>5
  <2>5. ASSUME RefreshRejected(q)
        PROVE  /\ refresh'[q] = [at |-> "clear1", tok |-> NoToken]
               /\ \A p \in Reqs \ {q} : refresh'[p] = refresh[p]
    BY <1>5, <2>5 DEF RefreshRejected
  <2>6. CASE t.g < MaxGen /\ srvGen' = [srvGen EXCEPT ![t.s] = @ + 1]
             /\ (\/ refresh' = [refresh EXCEPT ![q] = [at |-> "access", tok |-> [t EXCEPT !.g = @ + 1]]]
                 \/ RefreshRejected(q))
    <3>1. srvGen'[t.s] = t.g + 1 /\ \A s \in Sessions \ {t.s} : srvGen'[s] = srvGen[s]
      BY <2>2, <2>6 DEF NativeTypeOK
    <3> DEFINE u == [t EXCEPT !.g = @ + 1]
    <3>2. u.s = t.s /\ u.g = t.g + 1
      BY <2>2 DEF Tokens
    <3>3. CASE refresh' = [refresh EXCEPT ![q] = [at |-> "access", tok |-> u]]
      <4> HIDE DEF u
      <4>1. /\ refresh'[q] = [at |-> "access", tok |-> u]
            /\ \A p \in Reqs \ {q} : refresh'[p] = refresh[p]
        BY <1>5, <3>3
      <4>2. refresh'[q].at = "access" /\ refresh'[q].tok.s = t.s /\ refresh'[q].tok.g = srvGen'[t.s]
        BY <3>1, <3>2, <4>1
      <4> QED BY <2>4, <3>1, <4>1, <4>2
    <3>4. CASE RefreshRejected(q)
      BY <2>4, <2>5, <3>1, <3>4
    <3> QED BY <2>6, <3>3, <3>4
  <2>7. CASE RefreshRejected(q) /\ UNCHANGED srvGen
    BY <2>4, <2>5, <2>7
  <2> QED BY <1>7, <2>6, <2>7 DEF PostRefresh
<1>8. CASE /\ refresh[q].at \in {"access", "clear1"} /\ (RefreshStore(q) \/ RefreshFails(q))
           /\ ~RefreshRejected(q)
  <2>1. \E step \in {"refresh", "clear2"} : refresh' = [refresh EXCEPT ![q].at = step]
    BY <1>8 DEF RefreshStore, RefreshFails, RefreshTo
  <2>2. /\ refresh'[q].at \in {"refresh", "clear2"} /\ refresh'[q].tok = refresh[q].tok
        /\ refresh'[q].at = "refresh" => refresh[q].at = "access"
        /\ \A p \in Reqs \ {q} : refresh'[p] = refresh[p]
    BY <1>2, <1>8 DEF RefreshStore, RefreshFails, RefreshTo, RefreshStates
  <2>3. UNCHANGED <<refreshToken, inProgress, srvGen, tokenReused>>
    BY <1>8 DEF RefreshStore, RefreshFails
  <2>4. SessionsOrdered'
    BY <1>3, <2>2, <2>3 DEF SessionsOrdered
  <2>5. OneRefresh' /\ NoTokenReuse'
    BY <1>4, <2>2, <2>3 DEF OneRefresh, NoTokenReuse
  <2>6. StoreIsCurrent'
    BY <2>2, <2>3 DEF StoreIsCurrent, Current, Rotated
  <2> QED BY <1>1, <2>4, <2>5, <2>6
<1>9. CASE /\ refresh[q].at \in {"refresh", "clear2"} /\ (RefreshStore(q) \/ RefreshFails(q))
           /\ ~RefreshRejected(q)
  <2>1. /\ refresh' = [refresh EXCEPT ![q] = NoRefresh] /\ inProgress' = NoReq
        /\ UNCHANGED <<srvGen, tokenReused>>
    BY <1>9 DEF RefreshStore, RefreshFails, SettleRefresh
  <2>2. refreshToken' = NoToken \/ (refreshToken' = refresh[q].tok /\ refresh[q].at = "refresh")
    BY <1>9 DEF RefreshStore, RefreshFails
  <2>3. refresh'[q] = NoRefresh /\ \A p \in Reqs \ {q} : refresh'[p] = refresh[p]
    BY <1>5, <2>1
  <2>4. SessionsOrdered'
    BY <1>3, <2>1, <2>2, <2>3 DEF SessionsOrdered, NoRefresh
  <2>5. OneRefresh' /\ NoTokenReuse'
    BY <1>4, <2>1, <2>3 DEF OneRefresh, NoTokenReuse, NoRefresh
  <2>6. StoreIsCurrent'
    BY <1>4, <2>1, <2>2, <2>3 DEF StoreIsCurrent, Current, NoRefresh
  <2> QED BY <1>1, <2>4, <2>5, <2>6
<1>10. CASE RefreshRejected(q) /\ RefreshStore(q) /\ UNCHANGED <<refreshToken, inProgress>>
  <2>1. /\ refresh'[q] = [at |-> "clear1", tok |-> NoToken]
        /\ \A p \in Reqs \ {q} : refresh'[p] = refresh[p]
    BY <1>5, <1>10 DEF RefreshRejected
  <2>2. UNCHANGED <<srvGen, tokenReused>>
    BY <1>10 DEF RefreshStore
  <2>3. SessionsOrdered'
    BY <1>3, <1>10, <2>1, <2>2 DEF SessionsOrdered
  <2>4. OneRefresh' /\ NoTokenReuse'
    BY <1>4, <1>10, <2>1, <2>2 DEF OneRefresh, NoTokenReuse
  <2>5. StoreIsCurrent'
    BY <1>10, <2>1, <2>2 DEF StoreIsCurrent, Current, Rotated
  <2> QED BY <1>1, <2>3, <2>4, <2>5
<1>11. CASE RefreshStore(q)
  <2>1. RefreshRejected(q) => refresh'[q].at = "clear1"
    BY <1>2 DEF RefreshRejected
  <2>2. RefreshTo(q, "refresh") => refresh'[q].at = "refresh"
    BY <1>2 DEF RefreshTo
  <2>3. SettleRefresh(q, "sent") => refresh'[q].at = "none"
    <3>1. SettleRefresh(q, "sent") => refresh'[q] = NoRefresh
      BY <1>2 DEF SettleRefresh
    <3> QED BY <3>1 DEF NoRefresh
  <2> QED BY <1>8, <1>9, <1>10, <1>11, <2>1, <2>2, <2>3 DEF RefreshStore
<1>12. CASE RefreshFails(q)
  <2>1. RefreshRejected(q) => refresh'[q].at = "clear1"
    BY <1>2 DEF RefreshRejected
  <2>2. RefreshTo(q, "clear2") => refresh'[q].at = "clear2"
    BY <1>2 DEF RefreshTo
  <2>3. SettleRefresh(q, "clear1") => refresh'[q].at = "none"
    <3>1. SettleRefresh(q, "clear1") => refresh'[q] = NoRefresh
      BY <1>2 DEF SettleRefresh
    <3> QED BY <3>1 DEF NoRefresh
  <2> QED BY <1>8, <1>9, <1>12, <2>1, <2>2, <2>3 DEF RefreshFails
<1> QED BY <1>6, <1>7, <1>11, <1>12 DEF RefreshStep

(* A login: its session is new, and its refresh token is stored before any   *)
(* refresh can have used it.                                                 *)
LEMMA NativeInvUser ==
  ASSUME NativeInv, ~KillInRefresh,
         \/ register \/ RegisterPost \/ login \/ LoginVerify \/ storeTokens \/ deriveKey \/ UserInfo
         \/ logout \/ clearTokens \/ LogoutWipe
         \/ checkAuth \/ CheckTokens \/ lockVault \/ Kill
  PROVE  NativeInv'
<1> USE DEF NativeInv, storeVars, userVars, serverVars
<1>1. NativeTypeOK'
  BY NativeTypesUser
<1>2. userFlow \in [at : UserSteps, s : 0..MaxLogins]
  BY DEF NativeTypeOK
<1>3. CASE \/ register \/ RegisterPost \/ login \/ deriveKey \/ UserInfo \/ logout \/ LogoutWipe
           \/ checkAuth \/ CheckTokens \/ lockVault
  <2>1. UNCHANGED <<refreshToken, refresh, inProgress, srvGen, srvLogins, tokenReused>>
    BY <1>3 DEF register, RegisterPost, login, deriveKey, UserInfo, logout, LogoutWipe, checkAuth,
                CheckTokens, lockVault
  <2>2. userFlow' = userFlow \/ userFlow'.at \notin {"store1", "store2"}
    BY <1>2, <1>3 DEF register, RegisterPost, login, deriveKey, UserInfo, logout, LogoutWipe, checkAuth,
                CheckTokens, lockVault, FlowTo, EndFlow, NoFlow
  <2> QED BY <1>1, <2>1, <2>2, NativeInvOther
<1>4. CASE LoginVerify
  <2>1. UNCHANGED <<refreshToken, refresh, inProgress, srvGen, tokenReused>>
    BY <1>4 DEF LoginVerify
  <2>2. CASE EndFlow /\ UNCHANGED srvLogins
    BY <1>1, <2>1, <2>2, NativeInvOther DEF EndFlow, NoFlow
  <2>3. CASE srvLogins < MaxLogins /\ srvLogins' = srvLogins + 1
             /\ userFlow' = [at |-> "store1", s |-> srvLogins']
    <3>1. srvLogins \in Nat /\ srvLogins + 1 \in Sessions
      BY <2>3, NativeSessionAssumption DEF NativeTypeOK, Sessions
    <3>2. userFlow.at = "verify"
      BY <1>4 DEF LoginVerify
    <3>3. \A s \in Sessions : s \in Nat
      BY NativeSessionAssumption DEF Sessions
    <3>4. SessionsOrdered'
      BY <2>1, <2>3, <3>1, <3>2, <3>3 DEF SessionsOrdered
    <3>5. OneRefresh' /\ StoreIsCurrent' /\ NoTokenReuse'
      BY <2>1 DEF OneRefresh, StoreIsCurrent, Current, Rotated, NoTokenReuse
    <3> QED BY <1>1, <3>4, <3>5
  <2> QED BY <1>4, <2>2, <2>3 DEF LoginVerify
<1>5. CASE storeTokens
  <2>1. UNCHANGED <<refresh, inProgress, srvGen, srvLogins, tokenReused>>
    BY <1>5 DEF storeTokens
  <2>2. CASE userFlow.at = "store1"
    <3>1. userFlow'.at = "store2" /\ userFlow'.s = userFlow.s /\ UNCHANGED refreshToken
      BY <1>2, <1>5, <2>2 DEF storeTokens, FlowTo
    <3> QED BY <1>1, <2>1, <2>2, <3>1, NativeInvOther
  <2>3. CASE userFlow.at = "store2"
    <3>1. userFlow'.at = "derive" /\ refreshToken' = [s |-> userFlow.s, g |-> 0]
      BY <1>2, <1>5, <2>3 DEF storeTokens, FlowTo
    <3>2. userFlow.s \in Sessions /\ userFlow.s = srvLogins /\ srvGen[userFlow.s] = 0
      BY <2>3 DEF SessionsOrdered
    <3>3. refreshToken'.s \in Sessions /\ refreshToken'.s = srvLogins /\ refreshToken'.g = 0
      BY <3>1, <3>2
    <3>4. srvLogins <= srvLogins
      BY NativeSessionAssumption DEF NativeTypeOK
    <3>5. SessionsOrdered'
      BY <2>1, <2>3, <3>1, <3>3, <3>4 DEF SessionsOrdered
    <3>6. OneRefresh' /\ StoreIsCurrent' /\ NoTokenReuse'
      BY <2>1, <3>2, <3>3 DEF OneRefresh, StoreIsCurrent, Current, NoTokenReuse
    <3> QED BY <1>1, <3>5, <3>6
  <2> QED BY <1>5, <2>2, <2>3 DEF storeTokens
<1>6. CASE clearTokens
  <2>1. UNCHANGED <<refresh, inProgress, srvGen, srvLogins, tokenReused>>
        /\ (refreshToken' = NoToken \/ UNCHANGED refreshToken)
    BY <1>6 DEF clearTokens
  <2>2. userFlow'.at \in {"clear2", "wipe"}
    BY <1>2, <1>6 DEF clearTokens, FlowTo
  <2>3. SessionsOrdered'
    BY <2>1, <2>2 DEF SessionsOrdered
  <2>4. OneRefresh' /\ StoreIsCurrent' /\ NoTokenReuse'
    BY <2>1 DEF OneRefresh, StoreIsCurrent, Current, Rotated, NoTokenReuse
  <2> QED BY <1>1, <2>3, <2>4
<1>7. CASE Kill
  <2>1. inProgress = NoReq /\ inProgress' = NoReq /\ userFlow' = NoFlow
        /\ refresh' = [q \in Reqs |-> NoRefresh]
        /\ UNCHANGED <<refreshToken, srvGen, srvLogins, tokenReused>>
    BY <1>7 DEF Kill
  <2>2. \A q \in Reqs : refresh[q].at = "none"
    BY <2>1, NativeSessionAssumption DEF OneRefresh
  <2>3. SessionsOrdered'
    BY <2>1 DEF SessionsOrdered, NoFlow, NoRefresh
  <2>4. OneRefresh' /\ NoTokenReuse'
    BY <2>1 DEF OneRefresh, NoTokenReuse, NoRefresh
  <2>5. StoreIsCurrent'
    BY <2>1, <2>2 DEF StoreIsCurrent, Current, Rotated, NoRefresh
  <2> QED BY <1>1, <2>3, <2>4, <2>5
<1> QED BY <1>3, <1>4, <1>5, <1>6, <1>7

(* No refresh token is presented twice, by any number of requests whose      *)
(* access token has expired, beside any logins and logouts, when the         *)
(* application is not killed in the middle of a refresh.                     *)
THEOREM RefreshTokensUsedOnce ==
  ASSUME ~KillInRefresh
  PROVE  NativeSpec => []NoTokenReuse
<1>1. NativeInv /\ [NativeNext]_NativeVars => NativeInv'
  <2> SUFFICES ASSUME NativeInv, [NativeNext]_NativeVars PROVE NativeInv'
    OBVIOUS
  <2>1. CASE UNCHANGED NativeVars
    <3>1. NativeTypeOK'
      BY <2>1, NativeTypesStep DEF NativeInv
    <3> QED BY <2>1, <3>1, NativeInvOther DEF NativeVars, storeVars, userVars, serverVars
  <2> QED BY <2>1, NativeInvRequest, NativeInvRefresh, NativeInvUser DEF NativeNext
<1>2. NativeInv => NoTokenReuse
  BY DEF NativeInv
<1> QED BY <1>1, <1>2, NativeInvInit, PTL DEF NativeSpec

-----------------------------------------------------------------------------
(* The sign-in of the web application.                                       *)

(* The types hold at the start, with no account and no device.               *)
LEMMA WebTypesInit == WebInit => WebTypeOK
<1>1. NoWebFlow \in WebFlows
  BY DEF NoWebFlow, WebFlows
<1> QED BY <1>1 DEF WebInit, WebTypeOK

(* The forms a step of a tab takes.                                          *)
LEMMA WebBuiltTypes ==
  ASSUME WebTypeOK, NEW t \in Tabs
  PROVE  /\ WebEnds(t) => webFlow' \in [Tabs -> WebFlows]
         /\ \A op \in {"login", "fido2", "verify", "passkey", "device", "newPasskey"},
               acc \in Accounts \cup {NoAccount} :
               Ceremony(t, op, acc) => webFlow' \in [Tabs -> WebFlows]
         /\ \A op \in {"login", "register"}, acc \in Accounts \cup {NoAccount} :
               webFlow' = [webFlow EXCEPT ![t] = [NoWebFlow EXCEPT !.op = op, !.at = "derive",
                                                                   !.acc = acc]]
               => webFlow' \in [Tabs -> WebFlows]
         /\ \A acc \in Accounts \cup {NoAccount}, verified \in BOOLEAN : SignIn(t, acc, verified) =>
               /\ session' \in [Tabs -> Accounts \cup {NoAccount}]
               /\ signedIn' \in [Tabs -> BOOLEAN] /\ fido2Verified' \in [Tabs -> BOOLEAN]
         /\ SignInFails(t) => /\ session' \in [Tabs -> Accounts \cup {NoAccount}]
                              /\ signedIn' \in [Tabs -> BOOLEAN]
                              /\ fido2Verified' \in [Tabs -> BOOLEAN]
<1> USE DEF WebTypeOK
<1>1. NoWebFlow \in WebFlows
  BY DEF NoWebFlow, WebFlows
<1>2. WebEnds(t) => webFlow' \in [Tabs -> WebFlows]
  BY <1>1 DEF WebEnds
<1>3. ASSUME NEW op \in {"login", "fido2", "verify", "passkey", "device", "newPasskey"},
             NEW acc \in Accounts \cup {NoAccount}, Ceremony(t, op, acc)
      PROVE  webFlow' \in [Tabs -> WebFlows]
  <2>1. [op |-> op, at |-> "ceremony", acc |-> acc, list |-> devices] \in WebFlows
    BY DEF WebFlows
  <2> QED BY <1>3, <2>1 DEF Ceremony
<1>4. ASSUME NEW op \in {"login", "register"}, NEW acc \in Accounts \cup {NoAccount},
             webFlow' = [webFlow EXCEPT ![t] = [NoWebFlow EXCEPT !.op = op, !.at = "derive",
                                                                 !.acc = acc]]
      PROVE  webFlow' \in [Tabs -> WebFlows]
  <2>1. [NoWebFlow EXCEPT !.op = op, !.at = "derive", !.acc = acc] \in WebFlows
    BY <1>1 DEF WebFlows
  <2> QED BY <1>4, <2>1
<1>5. ASSUME NEW acc \in Accounts \cup {NoAccount}, NEW verified \in BOOLEAN, SignIn(t, acc, verified)
      PROVE  /\ session' \in [Tabs -> Accounts \cup {NoAccount}]
             /\ signedIn' \in [Tabs -> BOOLEAN] /\ fido2Verified' \in [Tabs -> BOOLEAN]
  BY <1>5 DEF SignIn
<1>6. SignInFails(t) => /\ session' \in [Tabs -> Accounts \cup {NoAccount}]
                        /\ signedIn' \in [Tabs -> BOOLEAN]
                        /\ fido2Verified' \in [Tabs -> BOOLEAN]
  BY DEF SignInFails
<1> QED BY <1>2, <1>3, <1>4, <1>5, <1>6

(* Logins, ceremonies and changes of the devices keep the types.             *)
LEMMA WebTypesStep ==
  ASSUME WebTypeOK, [WebNext]_WebVars
  PROVE  WebTypeOK'
<1> USE DEF WebTypeOK, pageVars, listHistory
<1>1. CASE UNCHANGED WebVars
  BY <1>1 DEF WebVars
<1>2. ASSUME NEW t \in Tabs PROVE webFlow[t] \in WebFlows /\ webFlow[t].acc \in Accounts \cup {NoAccount}
                                  /\ webFlow[t].list \subseteq Devs
  BY DEF WebFlows
<1>3. ASSUME NEW t \in Tabs, LoginDerived(t) PROVE WebTypeOK'
  BY <1>2, <1>3, WebBuiltTypes DEF LoginDerived
<1>4. ASSUME NEW t \in Tabs, Authenticated(t) PROVE WebTypeOK'
  BY <1>2, <1>4, WebBuiltTypes DEF Authenticated
<1>5. ASSUME NEW t \in Tabs, CeremonyFails(t) PROVE WebTypeOK'
  BY <1>2, <1>5, WebBuiltTypes DEF CeremonyFails
<1>6. ASSUME NEW t \in Tabs, RegisterDerived(t) PROVE WebTypeOK'
  BY <1>2, <1>6, WebBuiltTypes DEF RegisterDerived
<1>7. ASSUME NEW t \in Tabs, NEW d \in Devs, DeviceCreated(t, d) \/ removeDevice(t, d) PROVE WebTypeOK'
  BY <1>7, WebBuiltTypes DEF DeviceCreated, removeDevice, writeDevices
<1>8. ASSUME NEW t \in Tabs, logoutWeb(t) \/ lockVaultWeb(t) \/ checkAuthWeb(t) PROVE WebTypeOK'
  BY <1>8, WebBuiltTypes DEF logoutWeb, lockVaultWeb, checkAuthWeb
<1>9. ASSUME NEW t \in Tabs,
              \/ loginWeb(t) \/ loginWithFido2(t) \/ verifyFido2(t) \/ authenticateWithPasskey(t)
              \/ registerDevice(t) \/ registerPasskey(t)
       PROVE  WebTypeOK'
  <2>1. webFlow' \in [Tabs -> WebFlows]
    BY <1>9, WebBuiltTypes DEF loginWeb, loginWithFido2, verifyFido2, authenticateWithPasskey,
                               registerDevice, registerPasskey
  <2>2. UNCHANGED <<account, devices, pageVars, webAuthn, listHistory>>
    BY <1>9 DEF loginWeb, loginWithFido2, verifyFido2, authenticateWithPasskey,
                               registerDevice, registerPasskey
  <2> QED BY <2>1, <2>2
<1>10. ASSUME NEW t \in Tabs, NEW a \in Accounts, registerWeb(t, a) PROVE WebTypeOK'
  BY <1>10, WebBuiltTypes DEF registerWeb
<1> QED BY <1>1, <1>3, <1>4, <1>5, <1>6, <1>7, <1>8, <1>9, <1>10 DEF WebNext

(* The device list is what was registered and not removed, through any       *)
(* overlap of tabs and ceremonies, until an authentication writes back an    *)
(* older list or a write fails.                                              *)
THEOREM DeviceListKept == WebSpec => []DeviceListExact
<1>1. WebInit => DeviceListExact
  BY DEF WebInit, DeviceListExact
<1>2. DeviceListExact /\ [WebNext]_WebVars => DeviceListExact'
  <2> SUFFICES ASSUME DeviceListExact, [WebNext]_WebVars PROVE DeviceListExact'
    OBVIOUS
  <2>1. ASSUME NEW t \in Tabs, NEW d \in Devs, DeviceCreated(t, d) \/ removeDevice(t, d)
        PROVE  DeviceListExact'
    BY <2>1 DEF DeviceCreated, removeDevice, writeDevices, DeviceListExact
  <2>2. ASSUME NEW t \in Tabs, Authenticated(t) PROVE DeviceListExact'
    <3>1. UNCHANGED <<registered, unsaved>>
      BY <2>2 DEF Authenticated
    <3>2. CASE UNCHANGED <<devices, staleWrite>>
      BY <3>1, <3>2 DEF DeviceListExact
    <3>3. CASE devices' = webFlow[t].list /\ staleWrite' = (staleWrite \/ webFlow[t].list # devices)
      <4>1. staleWrite' \/ (~staleWrite /\ devices' = devices)
        BY <3>3
      <4> QED BY <3>1, <4>1 DEF DeviceListExact
    <3> QED BY <2>2, <3>2, <3>3 DEF Authenticated
  <2>3. ASSUME UNCHANGED <<devices, listHistory>> PROVE DeviceListExact'
    BY <2>3 DEF DeviceListExact, listHistory
  <2>4. CASE UNCHANGED WebVars
    BY <2>3, <2>4 DEF WebVars
  <2>5. ASSUME NEW t \in Tabs,
               \/ loginWeb(t) \/ LoginDerived(t) \/ loginWithFido2(t) \/ verifyFido2(t)
               \/ authenticateWithPasskey(t) \/ CeremonyFails(t)
               \/ RegisterDerived(t) \/ registerDevice(t) \/ registerPasskey(t)
               \/ (\E a \in Accounts : registerWeb(t, a))
               \/ logoutWeb(t) \/ lockVaultWeb(t) \/ checkAuthWeb(t)
        PROVE  DeviceListExact'
    BY <2>3, <2>5 DEF loginWeb, LoginDerived, loginWithFido2, verifyFido2, authenticateWithPasskey,
                      CeremonyFails, RegisterDerived, registerDevice, registerPasskey, registerWeb,
                      logoutWeb, lockVaultWeb, checkAuthWeb
  <2> QED BY <2>1, <2>2, <2>4, <2>5 DEF WebNext
<1> QED BY <1>1, <1>2, PTL DEF WebSpec

(* In any tab, beside any logins, ceremonies and changes of the devices in   *)
(* the others, a password alone signs in only while no device is registered, *)
(* or where the page has no WebAuthn; or the list of devices was not stored, *)
(* or was overwritten by an authentication with an older one.                *)
THEOREM PasswordAloneNeverSuffices == WebSpec => SecondFactorAsked
<1> DEFINE Excepted(t) == registered = {} \/ t \notin webAuthn \/ staleWrite \/ unsaved
           Asked == \A t \in Tabs :
               webFlow[t].op = "login" /\ session[t] = NoAccount /\ ~signedIn[t] /\ signedIn'[t] =>
               \/ registered = {} \/ fido2Verified'[t]
               \/ t \notin webAuthn \/ staleWrite \/ unsaved
<1>1. WebTypeOK /\ DeviceListExact /\ [WebNext]_WebVars => [Asked]_WebVars
  <2> SUFFICES ASSUME WebTypeOK, DeviceListExact, WebNext, NEW t \in Tabs, webFlow[t].op = "login",
                      session[t] = NoAccount, ~signedIn[t], signedIn'[t]
               PROVE  Excepted(t) \/ fido2Verified'[t]
    BY DEF WebVars
  <2>1. ASSUME NEW u \in Tabs, SignIn(u, webFlow[u].acc, TRUE) PROVE u = t => fido2Verified'[t]
    BY <2>1 DEF SignIn, WebTypeOK
  <2>2. ASSUME NEW u \in Tabs, NEW acc, NEW v, SignIn(u, acc, v) PROVE u = t
    BY <2>2 DEF SignIn, WebTypeOK
  <2>3. ASSUME NEW u \in Tabs, SignInFails(u) PROVE FALSE
    BY <2>3 DEF SignInFails, WebTypeOK
  <2>4. ASSUME NEW u \in Tabs, LoginDerived(u) PROVE Excepted(t)
    <3>1. \/ UNCHANGED pageVars
          \/ (devices = {} \/ u \notin webAuthn) /\ SignIn(u, webFlow[u].acc, FALSE)
      BY <2>3, <2>4 DEF LoginDerived
    <3>2. u = t /\ (devices = {} \/ u \notin webAuthn)
      BY <2>2, <3>1 DEF pageVars
    <3> QED BY <3>2 DEF DeviceListExact
  <2>5. ASSUME NEW u \in Tabs, Authenticated(u) PROVE fido2Verified'[t]
    BY <2>1, <2>2, <2>5 DEF Authenticated, pageVars
  <2>6. ASSUME NEW u \in Tabs, RegisterDerived(u) PROVE FALSE
    BY <2>2, <2>6 DEF RegisterDerived
  <2>7. ASSUME NEW u \in Tabs, logoutWeb(u) \/ lockVaultWeb(u) \/ checkAuthWeb(u) PROVE FALSE
    BY <2>7 DEF logoutWeb, lockVaultWeb, checkAuthWeb, WebTypeOK
  <2>8. ASSUME NEW u \in Tabs,
               \/ loginWeb(u) \/ loginWithFido2(u) \/ verifyFido2(u)
               \/ authenticateWithPasskey(u) \/ CeremonyFails(u)
               \/ registerDevice(u) \/ registerPasskey(u)
               \/ (\E a \in Accounts : registerWeb(u, a))
               \/ (\E d \in Devs : DeviceCreated(u, d) \/ removeDevice(u, d))
        PROVE  FALSE
    BY <2>3, <2>8 DEF loginWeb, loginWithFido2, verifyFido2, authenticateWithPasskey, CeremonyFails,
                registerDevice, registerPasskey, registerWeb, DeviceCreated, removeDevice, pageVars
  <2> QED BY <2>4, <2>5, <2>6, <2>7, <2>8 DEF WebNext
<1>2. WebSpec => []WebTypeOK
  BY WebTypesInit, WebTypesStep, PTL DEF WebSpec
<1> QED BY <1>1, <1>2, DeviceListKept, PTL DEF WebSpec, SecondFactorAsked

-----------------------------------------------------------------------------
(* The protection of the application.                                        *)

(* The types hold at the start, locked and with no timer.                    *)
LEMMA ProtectionTypesInit == ProtectionInit => ProtectionTypeOK
  BY DEF ProtectionInit, ProtectionTypeOK

(* Copies, timers and changes of the application state keep the types.       *)
LEMMA ProtectionTypesStep ==
  ASSUME ProtectionTypeOK, [ProtectionNext]_ProtectionVars
  PROVE  ProtectionTypeOK'
<1> USE DEF ProtectionTypeOK, LockVars, ClipVars, CopyGoes
<1>1. TimersCleared \in [Copies -> {"none", "set", "timer", "read", "clear", "done"}]
  BY DEF TimersCleared
<1>2. CASE UNCHANGED ProtectionVars
  BY <1>2 DEF ProtectionVars
<1>3. CASE UnlockVault \/ ThemeChanges \/ BackInFront \/ onPageHide
  BY <1>3 DEF UnlockVault, ThemeChanges, BackInFront, onPageHide
<1>4. CASE WipeSets \/ UserCopies
  BY <1>4 DEF WipeSets, UserCopies
<1>5. CASE useAppProtection
  BY <1>1, <1>5 DEF useAppProtection, RenderCleanup
<1>6. ASSUME NEW state \in {"inactive", "background"}, handleAppStateChange(state)
      PROVE  ProtectionTypeOK'
  BY <1>1, <1>6 DEF handleAppStateChange, Leaves
<1>7. ASSUME NEW t \in LockTimers, TimerLocks(t) PROVE ProtectionTypeOK'
  BY <1>7 DEF TimerLocks
<1>8. ASSUME NEW c \in Copies, \/ copyWithAutoClear(c) \/ CopySet(c) \/ ClearTimer(c)
                               \/ ClearReads(c) \/ ClearSets(c)
      PROVE  ProtectionTypeOK'
  BY <1>8 DEF copyWithAutoClear, CopySet, ClearTimer, ClearReads, ClearSets
<1> QED BY <1>2, <1>3, <1>4, <1>5, <1>6, <1>7, <1>8 DEF ProtectionNext

(* A copy whose call has not set the clipboard is not on it.                 *)
NotYetCopied == \A c \in Copies : copyAt[c] \in {"none", "set"} => clipboard # c

(* A password is forgotten on the clipboard only by a render of the root     *)
(* layout that finds its timer armed, or by a failing call, for any number   *)
(* of overlapping copies, timers, locks and changes of the application state.*)
THEOREM SecretsAreCleared == ProtectionSpec => []SecretIsCleared
<1> DEFINE Inv == NotYetCopied /\ SecretIsCleared
<1>1. ProtectionInit => Inv
  BY ProtectionAssumption DEF ProtectionInit, NotYetCopied, SecretIsCleared
<1>2. ProtectionTypeOK /\ Inv /\ [ProtectionNext]_ProtectionVars => Inv'
  <2> SUFFICES ASSUME ProtectionTypeOK, Inv, [ProtectionNext]_ProtectionVars
               PROVE  Inv'
    OBVIOUS
  <2> USE ProtectionAssumption DEF NotYetCopied, SecretIsCleared, WillBeCleared, LockVars, ClipVars
  <2>1. CASE UNCHANGED ProtectionVars \/ UnlockVault \/ ThemeChanges \/ BackInFront \/ onPageHide
    BY <2>1 DEF ProtectionVars, UnlockVault, ThemeChanges, BackInFront, onPageHide
  <2>2. CASE WipeSets
    <3>1. CASE clipboard' = "empty"
      BY <2>2, <3>1 DEF WipeSets
    <3>2. CASE /\ UNCHANGED <<clipboard, copyAt>>
               /\ forgotten' = forgotten \cup {c \in Copies : copyAt[c] = "done" /\ clipboard = c}
      BY <3>2 DEF ProtectionTypeOK
    <3> QED BY <2>2, <3>1, <3>2 DEF WipeSets
  <2>3. CASE UserCopies
    BY <2>3 DEF UserCopies
  <2>4. CASE useAppProtection
    <3>1. \A c \in Copies : copyAt'[c] = IF copyAt[c] = "timer" THEN "done" ELSE copyAt[c]
      BY <2>4 DEF useAppProtection, RenderCleanup, TimersCleared
    <3>2. forgotten' = forgotten \cup {c \in Copies : copyAt[c] = "timer" /\ clipboard = c}
      BY <2>4 DEF useAppProtection, RenderCleanup
    <3> QED BY <2>4, <3>1, <3>2 DEF useAppProtection
  <2>5. ASSUME NEW state \in {"inactive", "background"}, handleAppStateChange(state)
        PROVE  Inv'
    BY <2>5 DEF handleAppStateChange, TimersCleared
  <2>6. ASSUME NEW t \in LockTimers, TimerLocks(t) PROVE Inv'
    BY <2>6 DEF TimerLocks
  <2>7. ASSUME NEW c \in Copies, \/ copyWithAutoClear(c) \/ CopySet(c) \/ ClearTimer(c)
                                 \/ ClearReads(c) \/ ClearSets(c)
        PROVE  Inv'
    <3>1. PICK at : copyAt' = [copyAt EXCEPT ![c] = at] /\ UNCHANGED wiping
      BY <2>7 DEF copyWithAutoClear, CopySet, ClearTimer, ClearReads, ClearSets, CopyGoes
    <3>2. copyAt'[c] = at /\ \A b \in Copies \ {c} : copyAt'[b] = copyAt[b]
      BY <3>1 DEF ProtectionTypeOK
    <3>3. forgotten \subseteq forgotten'
      BY <2>7 DEF copyWithAutoClear, CopySet, ClearTimer, ClearReads, ClearSets
    <3>4. \/ clipboard' = "empty" /\ copyAt'[c] = "done"
          \/ clipboard' = c /\ copyAt'[c] = "timer"
          \/ clipboard' = clipboard /\ copyAt'[c] \in {"set", "read", "clear"} /\ (copyAt'[c] = "set" => copyAt[c] = "none")
          \/ clipboard' = clipboard /\ copyAt'[c] = "done" /\ (clipboard # c \/ c \in forgotten')
      BY <2>7, <3>2 DEF copyWithAutoClear, CopySet, ClearTimer, ClearReads, ClearSets, CopyGoes,
                        ProtectionTypeOK
    <3> QED BY <3>1, <3>2, <3>3, <3>4
  <2> QED BY <2>1, <2>2, <2>3, <2>4, <2>5, <2>6, <2>7 DEF ProtectionNext
<1> QED BY <1>1, <1>2, ProtectionTypesInit, ProtectionTypesStep, PTL DEF ProtectionSpec

-----------------------------------------------------------------------------
(* Emergency access.                                                         *)

RequestLists == [EReqs -> [status : RStatus, by : SUBSET EContacts]]
Lists(r) == \A q \in EReqs : r[q].status # "none" => Cardinality(r[q].by) = 1
CallSteps == {"none", "contact", "cload", "cwrite", "rload", "rwrite", "rall"}
CallStates ==
    [op : EmergencyOps, at : CallSteps, con : SUBSET EContacts, req : SUBSET EReqs,
     set : CStatus \cup RStatus, clist : [EContacts -> CStatus], rlist : RequestLists,
     todo : SUBSET EContacts, late : BOOLEAN]

(* What a call in progress is about.                                         *)
StoresContacts(e) == e.op \in {"designate", "remove", "revokeAll"}
CallShape(e) ==
    /\ Lists(e.rlist)
    /\ e.at \in {"contact", "rload"} => /\ e.set \in RStatus /\ Cardinality(e.con) = 1
                                        /\ ~StoresContacts(e)
    /\ e.at \in {"cload", "cwrite"} => StoresContacts(e)
    /\ e.at = "none" => ~StoresContacts(e)
    /\ e.at = "rall" => e.op = "remove"
    /\ e.op = "designate" => /\ e.set = "active" /\ e.at \in {"cload", "cwrite"}
                             /\ \E c \in EContacts : e.con = {c}
    /\ e.op = "remove" => e.set = "revoked" /\ \E c \in EContacts : e.con = {c}
    /\ e.op = "revokeAll" => e.set = "revoked" /\ e.todo \subseteq e.con
    /\ e.op = "revokeAll" /\ e.at \in {"cload", "cwrite"} => e.todo # {}
    /\ e.op # "revokeAll" => e.todo = {}

EmergencyTypes ==
    /\ EmergencyTypeOK /\ ecall \in [ECalls -> CallStates]
    /\ \A k \in ECalls : CallShape(ecall[k])

(* A revocation that is stored, or was and has been overwritten.             *)
Gone(c) == contacts[c] = "revoked" \/ c \in undone

(* A contact that no list holds yet, and no call but those of K is about.    *)
Fresh(c, K) ==
    /\ c \notin revoked /\ contacts[c] = "none"
    /\ \A j \in ECalls : /\ ecall[j].clist[c] = "none"
                         /\ j \notin K /\ StoresContacts(ecall[j]) => c \notin ecall[j].con

(* The contacts a call has dealt with are revoked; a call that goes on to    *)
(* give the key to a contact whose revocation was reported found it put back.*)
Progress(e) ==
    /\ e.op = "remove" /\ e.at \in {"rall", "rwrite"} => \A c \in e.con : Gone(c)
    /\ e.op = "revokeAll" => \A c \in e.con \ e.todo : Gone(c)
    /\ e.op = "access" /\ e.late => e.con \subseteq undone

(* A contact is designated once, before anything can revoke it; so what was  *)
(* revoked stays so, unless it is put back from an older list.               *)
EmergencyInv ==
    /\ EmergencyTypes /\ RevokedGetNoKey
    /\ \A c \in revoked : Gone(c)
    /\ \A c \in EContacts \ named : Fresh(c, {})
    /\ \A k \in ECalls : ecall[k].op = "designate" =>
          \A c \in ecall[k].con : c \in named /\ Fresh(c, {k})
    /\ \A k \in ECalls : Progress(ecall[k])

(* No call: it has its type and holds nothing.                               *)
LEMMA NoCallTypes ==
  /\ NoCall \in CallStates /\ CallShape(NoCall) /\ NoCall.op = "none" /\ NoCall.at = "none"
  /\ Lists(NoCall.rlist) /\ NoCall.todo = {} /\ NoCall.late = FALSE
  /\ NoCall.clist = [c \in EContacts |-> "none"]
<1>1. /\ NoCall.op = "none" /\ NoCall.at = "none" /\ NoCall.todo = {} /\ NoCall.late = FALSE
      /\ NoCall.rlist = [q \in EReqs |-> [status |-> "none", by |-> {}]]
      /\ NoCall.clist = [c \in EContacts |-> "none"]
  BY DEF NoCall
<1>2. [q \in EReqs |-> [status |-> "none", by |-> {}]] \in RequestLists
  BY DEF RequestLists, RStatus
<1>3. [c \in EContacts |-> "none"] \in [EContacts -> CStatus]
  BY DEF CStatus
<1>4. NoCall \in CallStates
  BY <1>2, <1>3 DEF NoCall, CallStates, CallSteps, EmergencyOps, CStatus
<1>5. Lists(NoCall.rlist)
  BY <1>1 DEF Lists
<1>6. CallShape(NoCall)
  BY <1>1, <1>5 DEF CallShape, StoresContacts
<1> QED BY <1>1, <1>4, <1>5, <1>6

(* One call goes on.                                                         *)
LEMMA CallsGo ==
  ASSUME EmergencyTypes, NEW k \in ECalls, NEW e \in CallStates, CallShape(e),
         ecall' = [ecall EXCEPT ![k] = e],
         contacts' \in [EContacts -> CStatus], requests' \in RequestLists, Lists(requests'),
         named' \subseteq EContacts, revoked' \subseteq EContacts, undone' \subseteq EContacts,
         gaveKeyTo' \subseteq EContacts
  PROVE  EmergencyTypes' /\ ecall'[k] = e /\ \A j \in ECalls \ {k} : ecall'[j] = ecall[j]
<1>1. ecall'[k] = e /\ \A j \in ECalls \ {k} : ecall'[j] = ecall[j]
  BY DEF EmergencyTypes
<1>2. ecall' \in [ECalls -> CallStates]
  BY DEF EmergencyTypes
<1>3. \A j \in ECalls : CallShape(ecall'[j])
  BY <1>1 DEF EmergencyTypes
<1>4. \A j \in ECalls : /\ ecall'[j].op \in EmergencyOps
                        /\ ecall'[j].at \in {"none", "contact", "cload", "cwrite", "rload", "rwrite", "rall"}
                        /\ ecall'[j].clist \in [EContacts -> CStatus]
  BY <1>2 DEF CallStates, CallSteps
<1>5. EmergencyTypeOK'
  BY <1>4 DEF EmergencyTypeOK, RequestLists, Lists
<1>6. (\A j \in ECalls : CallShape(ecall[j]))'
  BY <1>3 DEF CallShape, StoresContacts, Lists
<1> QED BY <1>1, <1>2, <1>5, <1>6 DEF EmergencyTypes

(* The state as the calls find it.                                           *)
LEMMA EmergencyState ==
  ASSUME EmergencyTypes
  PROVE  /\ contacts \in [EContacts -> CStatus] /\ requests \in RequestLists /\ Lists(requests)
         /\ named \subseteq EContacts /\ revoked \subseteq EContacts /\ undone \subseteq EContacts
         /\ gaveKeyTo \subseteq EContacts
         /\ \A k \in ECalls : ecall[k] \in CallStates /\ CallShape(ecall[k])
  BY DEF EmergencyTypes, EmergencyTypeOK, RequestLists, Lists

(* A call that starts.                                                       *)
Starting(k) ==
    \/ \E c \in EContacts : designateContact(k, c) \/ removeContact(k, c)
    \/ \E c \in EContacts, q \in EReqs : requestAccess(k, c, q)
    \/ \E q \in EReqs : denyAccess(k, q) \/ approveAccess(k, q) \/ checkAccessStatus(k, q)
                        \/ accessVault(k, q)
    \/ revokeAllAccess(k)

Begun(k, e) ==
    /\ CallShape(e) /\ ecall' = [ecall EXCEPT ![k] = e] /\ ecall[k] = NoCall
    /\ UNCHANGED <<contacts, requests, revoked, undone, gaveKeyTo>>
    /\ e.clist = NoCall.clist /\ e.late = FALSE
    /\ IF e.op = "designate" THEN named' = named \cup e.con /\ \A c \in e.con : c \notin named
                             ELSE UNCHANGED named
    /\ e.op \in {"remove", "revokeAll"} => \A c \in e.con : contacts[c] # "none"
    /\ e.op = "remove" => e.at = "cload"
    /\ e.op = "revokeAll" => e.con = e.todo

(* A call that starts has its type, and holds what its first lines looked    *)
(* at.                                                                       *)
LEMMA CallStarts ==
  ASSUME EmergencyTypes, NEW k \in ECalls, Starting(k)
  PROVE  \E e \in CallStates : Begun(k, e)
<1> USE DEF Begun
<1>1. \A c \in EContacts : Cardinality({c}) = 1
  BY FS_Singleton
<1>2. ASSUME NEW q \in EReqs
      PROVE requests[q] \in [status : RStatus, by : SUBSET EContacts]
      /\ (requests[q].status # "none" => Cardinality(requests[q].by) = 1)
  BY EmergencyState DEF RequestLists, Lists
<1>3. ASSUME NEW c \in EContacts, designateContact(k, c)
      PROVE  \E e \in CallStates : Begun(k, e)
  <2> DEFINE e == [NoCall EXCEPT !.op = "designate", !.at = "cload", !.con = {c}, !.set = "active"]
  <2>1. /\ e \in CallStates /\ e.op = "designate" /\ e.at = "cload" /\ e.con = {c} /\ e.set = "active"
        /\ e.rlist = NoCall.rlist /\ e.todo = {} /\ e.clist = NoCall.clist /\ e.late = FALSE
    BY NoCallTypes DEF CallStates, CallSteps, EmergencyOps, CStatus
  <2>2. CallShape(e)
    BY <2>1, NoCallTypes DEF CallShape, StoresContacts
  <2>3. /\ ecall' = [ecall EXCEPT ![k] = e] /\ ecall[k] = NoCall
        /\ UNCHANGED <<contacts, requests, revoked, undone, gaveKeyTo>>
        /\ c \notin named /\ named' = named \cup {c}
    BY <1>3 DEF designateContact, StartCall
  <2> HIDE DEF e
  <2> QED BY <2>1, <2>2, <2>3
<1>4. ASSUME NEW c \in EContacts, removeContact(k, c)
      PROVE  \E e \in CallStates : Begun(k, e)
  <2> DEFINE e == [NoCall EXCEPT !.op = "remove", !.at = "cload", !.con = {c}, !.set = "revoked"]
  <2>1. /\ e \in CallStates /\ e.op = "remove" /\ e.at = "cload" /\ e.con = {c} /\ e.set = "revoked"
        /\ e.rlist = NoCall.rlist /\ e.todo = {} /\ e.clist = NoCall.clist /\ e.late = FALSE
    BY NoCallTypes DEF CallStates, CallSteps, EmergencyOps, CStatus
  <2>2. CallShape(e)
    BY <2>1, NoCallTypes DEF CallShape, StoresContacts
  <2>3. ecall' = [ecall EXCEPT ![k] = e] /\ ecall[k] = NoCall /\ OnlyCall /\ contacts[c] # "none"
    BY <1>4 DEF removeContact, StartCall
  <2> HIDE DEF e
  <2> QED BY <2>1, <2>2, <2>3 DEF OnlyCall
<1>5. ASSUME NEW q \in EReqs, NEW con \in SUBSET EContacts, Cardinality(con) = 1, NEW st \in RStatus,
             OnlyCall, ecall[k] = NoCall,
             \/ ecall' = [ecall EXCEPT ![k] = [NoCall EXCEPT !.op = "request", !.at = "rload",
                                               !.req = {q}, !.con = con, !.set = st]]
             \/ ecall' = [ecall EXCEPT ![k] = [NoCall EXCEPT !.op = "access", !.at = "contact",
                                               !.req = {q}, !.con = con, !.set = st]]
      PROVE  \E e \in CallStates : Begun(k, e)
  <2>1. PICK op \in {"request", "access"}, at \in {"rload", "contact"} :
           ecall' = [ecall EXCEPT ![k] = [NoCall EXCEPT !.op = op, !.at = at, !.req = {q},
                                                        !.con = con, !.set = st]]
    BY <1>5
  <2> DEFINE e == [NoCall EXCEPT !.op = op, !.at = at, !.req = {q}, !.con = con, !.set = st]
  <2>2. /\ e \in CallStates /\ e.op = op /\ e.at = at /\ e.con = con /\ e.set = st
        /\ e.rlist = NoCall.rlist /\ e.todo = {} /\ e.clist = NoCall.clist /\ e.late = FALSE
    BY NoCallTypes DEF CallStates, CallSteps, EmergencyOps
  <2>3. CallShape(e)
    BY <1>5, <2>2, NoCallTypes DEF CallShape, StoresContacts
  <2> HIDE DEF e
  <2> QED BY <1>5, <2>1, <2>2, <2>3 DEF OnlyCall, e
<1>6. ASSUME NEW c \in EContacts, NEW q \in EReqs, requestAccess(k, c, q)
      PROVE  \E e \in CallStates : Begun(k, e)
  <2>1. /\ "pending" \in RStatus /\ OnlyCall /\ ecall[k] = NoCall
        /\ ecall' = [ecall EXCEPT ![k] = [NoCall EXCEPT !.op = "request", !.at = "rload",
                                          !.req = {q}, !.con = {c}, !.set = "pending"]]
    BY <1>6 DEF requestAccess, StartCall, RStatus
  <2> QED BY <1>1, <1>5, <2>1
<1>7. ASSUME NEW q \in EReqs,
             denyAccess(k, q) \/ approveAccess(k, q) \/ checkAccessStatus(k, q) \/ accessVault(k, q)
      PROVE  \E e \in CallStates : Begun(k, e)
  <2> DEFINE by == requests[q].by
  <2>1. requests[q].status # "none" => by \in SUBSET EContacts /\ Cardinality(by) = 1
    BY <1>2
  <2>2. {"denied", "approved", "expired", "accessed"} \subseteq RStatus
    BY DEF RStatus
  <2>3. requests[q].status # "none" /\ OnlyCall /\ ecall[k] = NoCall
    BY <1>7 DEF denyAccess, approveAccess, checkAccessStatus, accessVault, StartCall
  <2> HIDE DEF Begun
  <2>4. CASE denyAccess(k, q)
    <3>1. ecall' = [ecall EXCEPT ![k] = [NoCall EXCEPT !.op = "request", !.at = "rload", !.req = {q},
                                                       !.con = by, !.set = "denied"]]
      BY <2>4 DEF denyAccess, StartCall
    <3> HIDE DEF by
    <3> QED BY <1>5, <2>1, <2>2, <2>3, <3>1
  <2>5. CASE approveAccess(k, q)
    <3>1. ecall' = [ecall EXCEPT ![k] = [NoCall EXCEPT !.op = "request", !.at = "rload", !.req = {q},
                                                       !.con = by, !.set = "approved"]]
      BY <2>5 DEF approveAccess, StartCall
    <3> HIDE DEF by
    <3> QED BY <1>5, <2>1, <2>2, <2>3, <3>1
  <2>6. CASE checkAccessStatus(k, q)
    <3>1. ecall' = [ecall EXCEPT ![k] = [NoCall EXCEPT !.op = "request", !.at = "rload", !.req = {q},
                                                       !.con = by, !.set = "expired"]]
      BY <2>6 DEF checkAccessStatus, StartCall
    <3> HIDE DEF by
    <3> QED BY <1>5, <2>1, <2>2, <2>3, <3>1
  <2>7. CASE accessVault(k, q)
    <3>1. ecall' = [ecall EXCEPT ![k] = [NoCall EXCEPT !.op = "access", !.at = "contact", !.req = {q},
                                                       !.con = by, !.set = "accessed"]]
      BY <2>7 DEF accessVault, StartCall
    <3> HIDE DEF by
    <3> QED BY <1>5, <2>1, <2>2, <2>3, <3>1
  <2> QED BY <1>7, <2>4, <2>5, <2>6, <2>7
<1>8. CASE revokeAllAccess(k)
  <2> DEFINE known == {c \in EContacts : contacts[c] # "none"}
             list == [q \in EReqs |-> IF requests[q].status \in {"pending", "approved"}
                                      THEN [requests[q] EXCEPT !.status = "denied"] ELSE requests[q]]
             e == [NoCall EXCEPT !.op = "revokeAll", !.at = "rwrite", !.con = known,
                                 !.todo = known, !.set = "revoked", !.rlist = list]
  <2>1. list \in RequestLists /\ Lists(list)
    <3>1. ASSUME NEW q \in EReqs
          PROVE  /\ list[q] \in [status : RStatus, by : SUBSET EContacts]
                 /\ list[q].status # "none" => Cardinality(list[q].by) = 1
      BY <1>2 DEF RStatus
    <3> QED BY <3>1 DEF RequestLists, Lists
  <2>2. ecall' = [ecall EXCEPT ![k] = e] /\ OnlyCall /\ ecall[k] = NoCall
    BY <1>8 DEF revokeAllAccess, StartCall
  <2> HIDE DEF list
  <2>3. /\ e \in CallStates /\ e.op = "revokeAll" /\ e.at = "rwrite" /\ e.con = known
        /\ e.todo = known /\ e.set = "revoked" /\ e.rlist = list
        /\ e.clist = NoCall.clist /\ e.late = FALSE
    BY <2>1, NoCallTypes DEF CallStates, CallSteps, EmergencyOps, CStatus
  <2>4. CallShape(e)
    BY <2>1, <2>3 DEF CallShape, StoresContacts
  <2> HIDE DEF e
  <2> QED BY <2>2, <2>3, <2>4 DEF OnlyCall
<1> QED BY <1>3, <1>4, <1>6, <1>7, <1>8 DEF Starting

(* A call that goes on without storing: it checks the contact or loads.      *)
LEMMA CallLoads ==
  ASSUME EmergencyTypes, NEW k \in ECalls,
         AccessChecksContact(k) \/ _persistRequestLoads(k) \/ _persistContactLoads(k) \/ InvalidatePending(k)
  PROVE  \E e \in CallStates :
            /\ CallShape(e) /\ ecall' = [ecall EXCEPT ![k] = e] /\ OnlyCall
            /\ \/ e = NoCall
               \/ /\ e.op = ecall[k].op /\ e.con = ecall[k].con /\ e.todo = ecall[k].todo
                  /\ \/ /\ e.at = "rload" /\ e.clist = ecall[k].clist
                        /\ e.late = (e.con \subseteq revoked)
                        /\ \A c \in e.con : contacts[c] = "active"
                     \/ e.at = "cwrite" /\ e.clist = contacts /\ e.late = ecall[k].late
                     \/ /\ e.at = "rwrite" /\ e.clist = ecall[k].clist /\ e.late = ecall[k].late
                        /\ ecall[k].at \in {"rload", "rall"}
<1> DEFINE d == ecall[k]
<1>1. d \in CallStates /\ CallShape(d) /\ ecall \in [ECalls -> CallStates]
  BY DEF EmergencyTypes
<1>2. CASE AccessChecksContact(k)
  <2>1. CASE \A c \in d.con : contacts[c] = "active"
    <3> DEFINE e == [d EXCEPT !.at = "rload", !.late = d.con \subseteq revoked]
    <3>1. /\ e \in CallStates /\ e.op = d.op /\ e.con = d.con /\ e.todo = d.todo
          /\ e.late = (d.con \subseteq revoked) /\ e.clist = d.clist
          /\ e.at = "rload" /\ e.set = d.set /\ e.rlist = d.rlist
      BY <1>1 DEF CallStates, CallSteps
    <3>2. d.at = "contact" /\ ecall' = [ecall EXCEPT ![k] = e] /\ OnlyCall
      BY <1>1, <1>2, <2>1 DEF AccessChecksContact, CallAt
    <3> HIDE DEF e
    <3>3. CallShape(e)
      BY <1>1, <3>1, <3>2 DEF CallShape, StoresContacts
    <3> QED BY <2>1, <3>1, <3>2, <3>3
  <2>2. CASE ~ \A c \in d.con : contacts[c] = "active"
    BY <1>2, <2>2, NoCallTypes DEF AccessChecksContact
  <2> QED BY <2>1, <2>2
<1>3. CASE _persistRequestLoads(k)
  <2> DEFINE list == [q \in EReqs |-> IF q \in d.req THEN [status |-> d.set, by |-> d.con]
                                      ELSE requests[q]]
             e == [d EXCEPT !.at = "rwrite", !.rlist = list]
  <2>1. d.at = "rload" /\ d.set \in RStatus /\ Cardinality(d.con) = 1 /\ ~StoresContacts(d)
    BY <1>1, <1>3 DEF _persistRequestLoads, CallAt, CallShape
  <2>2. ASSUME NEW q \in EReqs
        PROVE  /\ list[q] \in [status : RStatus, by : SUBSET EContacts]
               /\ list[q].status # "none" => Cardinality(list[q].by) = 1
    BY <1>1, <2>1, EmergencyState DEF RequestLists, Lists, CallStates
  <2>3. list \in RequestLists /\ Lists(list)
    BY <2>2 DEF RequestLists, Lists
  <2>4. ecall' = [ecall EXCEPT ![k] = e] /\ OnlyCall
    BY <1>1, <1>3 DEF _persistRequestLoads
  <2> HIDE DEF list
  <2>5. /\ e \in CallStates /\ e.op = d.op /\ e.con = d.con /\ e.todo = d.todo /\ e.late = d.late
        /\ e.at = "rwrite" /\ e.rlist = list /\ e.clist = d.clist
    BY <1>1, <2>3 DEF CallStates, CallSteps
  <2>6. CallShape(e)
    BY <1>1, <2>1, <2>3, <2>5 DEF CallShape, StoresContacts
  <2> QED BY <2>1, <2>4, <2>5, <2>6
<1>4. CASE _persistContactLoads(k)
  <2> DEFINE e == [d EXCEPT !.at = "cwrite", !.clist = contacts]
  <2>1. d.at = "cload" /\ ecall' = [ecall EXCEPT ![k] = e] /\ OnlyCall
    BY <1>1, <1>4 DEF _persistContactLoads, CallAt
  <2>2. /\ e \in CallStates /\ e.op = d.op /\ e.con = d.con /\ e.todo = d.todo /\ e.late = d.late
        /\ e.at = "cwrite" /\ e.clist = contacts /\ e.set = d.set /\ e.rlist = d.rlist
    BY <1>1, EmergencyState DEF CallStates, CallSteps
  <2>3. CallShape(e)
    BY <1>1, <2>1, <2>2 DEF CallShape, StoresContacts
  <2> QED BY <2>1, <2>2, <2>3
<1>5. CASE InvalidatePending(k)
  <2> DEFINE list == [q \in EReqs |-> IF requests[q].by = d.con /\ requests[q].status = "pending"
                                      THEN [requests[q] EXCEPT !.status = "denied"] ELSE requests[q]]
             e == [d EXCEPT !.at = "rwrite", !.rlist = list]
  <2>1. d.at = "rall" /\ ecall' = [ecall EXCEPT ![k] = e] /\ OnlyCall
    BY <1>1, <1>5 DEF InvalidatePending, CallAt
  <2>2. ASSUME NEW q \in EReqs
        PROVE  /\ list[q] \in [status : RStatus, by : SUBSET EContacts]
               /\ list[q].status # "none" => Cardinality(list[q].by) = 1
    BY EmergencyState DEF RequestLists, Lists, RStatus
  <2>3. list \in RequestLists /\ Lists(list)
    BY <2>2 DEF RequestLists, Lists
  <2> HIDE DEF list
  <2>4. /\ e \in CallStates /\ e.op = d.op /\ e.con = d.con /\ e.todo = d.todo /\ e.late = d.late
        /\ e.at = "rwrite" /\ e.set = d.set /\ e.rlist = list /\ e.clist = d.clist
    BY <1>1, <2>3 DEF CallStates, CallSteps
  <2>5. CallShape(e)
    BY <1>1, <2>1, <2>3, <2>4 DEF CallShape, StoresContacts
  <2> QED BY <2>1, <2>4, <2>5
<1> QED BY <1>2, <1>3, <1>4, <1>5

(* A call stores the requests.                                               *)
LEMMA CallStoresRequests ==
  ASSUME EmergencyTypes, NEW k \in ECalls, _persistRequests(k)
  PROVE  \E e \in CallStates :
            /\ CallShape(e) /\ ecall' = [ecall EXCEPT ![k] = e] /\ ecall[k].at = "rwrite"
            /\ \/ e = NoCall
               \/ /\ e.op = ecall[k].op /\ e.con = ecall[k].con /\ e.todo = ecall[k].todo
                  /\ e.late = ecall[k].late /\ e.clist = ecall[k].clist /\ e.at = "cload"
            /\ requests' \in RequestLists /\ Lists(requests') /\ UNCHANGED <<contacts, named, undone>>
            /\ revoked' = IF ecall[k].op = "remove" THEN revoked \cup ecall[k].con ELSE revoked
            /\ gaveKeyTo' = IF ecall[k].op = "access" /\ ecall[k].late
                            THEN gaveKeyTo \cup ecall[k].con ELSE gaveKeyTo
<1> DEFINE d == ecall[k]
           u == [d EXCEPT !.at = "cload", !.rlist = NoCall.rlist]
           e == IF d.todo = {} THEN NoCall ELSE u
<1>1. d \in CallStates /\ CallShape(d) /\ ecall \in [ECalls -> CallStates]
  BY DEF EmergencyTypes
<1>2. /\ ecall' = [ecall EXCEPT ![k] = e] /\ d.at = "rwrite" /\ requests' = d.rlist
      /\ UNCHANGED <<contacts, named, undone>>
      /\ revoked' = IF d.op = "remove" THEN revoked \cup d.con ELSE revoked
      /\ gaveKeyTo' = IF d.op = "access" /\ d.late THEN gaveKeyTo \cup d.con ELSE gaveKeyTo
  BY <1>1 DEF _persistRequests, CallAt
<1>3. requests' \in RequestLists /\ Lists(requests')
  BY <1>1, <1>2 DEF CallStates, CallShape
<1>4. CASE d.todo = {}
  BY <1>2, <1>3, <1>4, NoCallTypes
<1>5. CASE d.todo # {}
  <2>1. /\ u \in CallStates /\ u.op = d.op /\ u.con = d.con /\ u.todo = d.todo /\ u.late = d.late
        /\ u.at = "cload" /\ u.set = d.set /\ u.rlist = NoCall.rlist /\ u.clist = d.clist
    BY <1>1, NoCallTypes DEF CallStates, CallSteps
  <2>2. e = u
    BY <1>5
  <2> HIDE DEF u, e
  <2>3. CallShape(u)
    BY <1>1, <1>5, <2>1, NoCallTypes DEF CallShape, StoresContacts
  <2> QED BY <1>2, <1>3, <2>1, <2>2, <2>3
<1> QED BY <1>4, <1>5

(* A call stores a contact.                                                  *)
LEMMA CallStoresContact ==
  ASSUME EmergencyTypes, NEW k \in ECalls, _persistContact(k)
  PROVE  \E e \in CallStates, c \in ecall[k].con :
            /\ CallShape(e) /\ ecall' = [ecall EXCEPT ![k] = e]
            /\ ecall[k].at = "cwrite" /\ StoresContacts(ecall[k])
            /\ ecall[k].op \in {"designate", "remove"} => ecall[k].con = {c}
            /\ ecall[k].op = "revokeAll" => c \in ecall[k].todo
            /\ \/ e = NoCall
               \/ /\ e.op = ecall[k].op /\ e.op \in {"remove", "revokeAll"}
                  /\ e.con = ecall[k].con /\ e.todo = ecall[k].todo \ {c} /\ e.late = ecall[k].late
                  /\ e.clist = NoCall.clist
            /\ contacts' = [ecall[k].clist EXCEPT ![c] = IF ecall[k].op = "designate" THEN "active"
                                                         ELSE "revoked"]
            /\ contacts' \in [EContacts -> CStatus]
            /\ \/ UNCHANGED revoked
               \/ ecall[k].op = "revokeAll" /\ ecall[k].todo = {c} /\ revoked' = revoked \cup ecall[k].con
            /\ undone' = undone \cup {x \in EContacts \ {c} :
                                         contacts[x] = "revoked" /\ ecall[k].clist[x] # "revoked"}
            /\ UNCHANGED <<requests, named, gaveKeyTo>>
<1> DEFINE d == ecall[k]
           c == IF d.op = "revokeAll" THEN CHOOSE x \in d.todo : TRUE ELSE CHOOSE x \in d.con : TRUE
           left == d.todo \ {c}
           stored == [d EXCEPT !.todo = left, !.clist = NoCall.clist]
           e == IF left # {} THEN [stored EXCEPT !.at = "cload"]
                ELSE IF d.op = "remove" THEN [stored EXCEPT !.at = "rall"] ELSE NoCall
<1>1. d \in CallStates /\ CallShape(d) /\ ecall \in [ECalls -> CallStates]
  BY DEF EmergencyTypes
<1>2. d.at = "cwrite" /\ StoresContacts(d)
  BY <1>1 DEF _persistContact, CallAt, CallShape
<1>3. c \in d.con /\ (d.op \in {"designate", "remove"} => d.con = {c}) /\ (d.op = "revokeAll" => c \in d.todo)
  BY <1>1, <1>2 DEF CallShape, StoresContacts
<1>4. /\ contacts' = [d.clist EXCEPT ![c] = d.set] /\ ecall' = [ecall EXCEPT ![k] = e]
      /\ revoked' = IF d.op = "revokeAll" /\ left = {} THEN revoked \cup d.con ELSE revoked
      /\ undone' = undone \cup {x \in EContacts \ {c} : contacts[x] = "revoked" /\ d.clist[x] # "revoked"}
      /\ UNCHANGED <<requests, named, gaveKeyTo>>
  BY <1>1 DEF _persistContact
<1>5. d.set = (IF d.op = "designate" THEN "active" ELSE "revoked")
  BY <1>1, <1>2 DEF CallShape, StoresContacts
<1>6. contacts' \in [EContacts -> CStatus]
  BY <1>1, <1>4, <1>5 DEF CallStates, CStatus
<1> HIDE DEF c
<1>7. ASSUME NEW at \in {"cload", "rall"}
      PROVE  LET u == [stored EXCEPT !.at = at] IN
             /\ u \in CallStates /\ u.op = d.op /\ u.con = d.con /\ u.todo = left /\ u.late = d.late
             /\ u.at = at /\ u.set = d.set /\ u.rlist = d.rlist /\ u.clist = NoCall.clist
  BY <1>1, NoCallTypes DEF CallStates, CallSteps
<1> HIDE DEF stored
<1>8. /\ e \in CallStates /\ CallShape(e)
      /\ \/ e = NoCall
         \/ /\ e.op = d.op /\ e.op \in {"remove", "revokeAll"} /\ e.con = d.con
            /\ e.todo = d.todo \ {c} /\ e.late = d.late /\ e.clist = NoCall.clist
  <2>1. CASE left # {}
    <3> DEFINE u == [stored EXCEPT !.at = "cload"]
    <3>1. /\ u \in CallStates /\ u.op = d.op /\ u.con = d.con /\ u.todo = left /\ u.late = d.late
          /\ u.at = "cload" /\ u.set = d.set /\ u.rlist = d.rlist /\ u.clist = NoCall.clist
      BY <1>7
    <3>2. e = u /\ d.op = "revokeAll"
      BY <1>1, <2>1 DEF CallShape
    <3> HIDE DEF u, e
    <3>3. CallShape(u)
      BY <1>1, <1>2, <2>1, <3>1, <3>2 DEF CallShape, StoresContacts
    <3> QED BY <3>1, <3>2, <3>3
  <2>2. CASE left = {} /\ d.op = "remove"
    <3> DEFINE u == [stored EXCEPT !.at = "rall"]
    <3>1. /\ u \in CallStates /\ u.op = d.op /\ u.con = d.con /\ u.todo = left /\ u.late = d.late
          /\ u.at = "rall" /\ u.set = d.set /\ u.rlist = d.rlist /\ u.clist = NoCall.clist
      BY <1>7
    <3>2. e = u
      BY <2>2
    <3> HIDE DEF u, e
    <3>3. CallShape(u)
      BY <1>1, <1>2, <2>2, <3>1, <3>2 DEF CallShape, StoresContacts
    <3> QED BY <2>2, <3>1, <3>2, <3>3
  <2>3. CASE left = {} /\ d.op # "remove"
    BY <2>3, NoCallTypes
  <2> QED BY <2>1, <2>2, <2>3
<1>9. left = {} /\ d.op = "revokeAll" => d.todo = {c}
  BY <1>3
<1> HIDE DEF e
<1> QED BY <1>2, <1>3, <1>4, <1>5, <1>6, <1>8, <1>9

(* The types hold at the start, with no contact and no call.                 *)
LEMMA EmergencyTypesInit == EmergencyInit => EmergencyTypes
<1> SUFFICES ASSUME EmergencyInit PROVE EmergencyTypes
  OBVIOUS
<1>1. \A k \in ECalls : ecall[k] = NoCall
  BY DEF EmergencyInit
<1>2. ecall \in [ECalls -> CallStates] /\ \A k \in ECalls : CallShape(ecall[k])
  BY <1>1, NoCallTypes DEF EmergencyInit
<1>3. \A k \in ECalls : /\ ecall[k].op \in EmergencyOps
                        /\ ecall[k].at \in {"none", "contact", "cload", "cwrite", "rload", "rwrite", "rall"}
                        /\ ecall[k].clist \in [EContacts -> CStatus]
  BY <1>2 DEF CallStates, CallSteps
<1>4. EmergencyTypeOK
  BY <1>3 DEF EmergencyInit, EmergencyTypeOK, CStatus, RStatus
<1> QED BY <1>2, <1>4 DEF EmergencyTypes

(* Each call keeps the types from one await to the next.                     *)
LEMMA EmergencyTypesStep ==
  ASSUME EmergencyTypes, [EmergencyNext]_EmergencyVars
  PROVE  EmergencyTypes'
<1>1. ASSUME NEW k \in ECalls, NEW e \in CallStates, CallShape(e), ecall' = [ecall EXCEPT ![k] = e],
             OnlyCall
      PROVE  EmergencyTypes'
  BY <1>1, EmergencyState, CallsGo DEF OnlyCall
<1>2. ASSUME NEW k \in ECalls, Starting(k) PROVE EmergencyTypes'
  <2>1. PICK e \in CallStates : Begun(k, e)
    BY <1>2, CallStarts
  <2>2. named' \subseteq EContacts
    BY <2>1, EmergencyState DEF Begun, CallStates
  <2> QED BY <2>1, <2>2, EmergencyState, CallsGo DEF Begun
<1>3. ASSUME NEW k \in ECalls, AccessChecksContact(k) \/ _persistRequestLoads(k)
                               \/ _persistContactLoads(k) \/ InvalidatePending(k)
      PROVE  EmergencyTypes'
  BY <1>1, <1>3, CallLoads
<1>4. ASSUME NEW k \in ECalls, _persistRequests(k) PROVE EmergencyTypes'
  <2>1. PICK e \in CallStates :
            /\ CallShape(e) /\ ecall' = [ecall EXCEPT ![k] = e]
            /\ requests' \in RequestLists /\ Lists(requests') /\ UNCHANGED <<contacts, named, undone>>
            /\ revoked' = IF ecall[k].op = "remove" THEN revoked \cup ecall[k].con ELSE revoked
            /\ gaveKeyTo' = IF ecall[k].op = "access" /\ ecall[k].late
                            THEN gaveKeyTo \cup ecall[k].con ELSE gaveKeyTo
    BY <1>4, CallStoresRequests
  <2>2. gaveKeyTo' \subseteq EContacts /\ revoked' \subseteq EContacts
    BY <2>1, EmergencyState DEF CallStates
  <2> QED BY <2>1, <2>2, EmergencyState, CallsGo
<1>5. ASSUME NEW k \in ECalls, _persistContact(k) PROVE EmergencyTypes'
  <2>1. PICK e \in CallStates, c \in ecall[k].con :
            /\ CallShape(e) /\ ecall' = [ecall EXCEPT ![k] = e] /\ contacts' \in [EContacts -> CStatus]
            /\ UNCHANGED revoked \/ revoked' = revoked \cup ecall[k].con
            /\ undone' = undone \cup {x \in EContacts \ {c} :
                                         contacts[x] = "revoked" /\ ecall[k].clist[x] # "revoked"}
            /\ UNCHANGED <<requests, named, gaveKeyTo>>
    BY <1>5, CallStoresContact
  <2>2. revoked' \subseteq EContacts /\ undone' \subseteq EContacts
    BY <2>1, EmergencyState DEF CallStates
  <2> QED BY <2>1, <2>2, EmergencyState, CallsGo
<1>6. ASSUME NEW k \in ECalls, CallAborts(k) PROVE EmergencyTypes'
  BY <1>1, <1>6, NoCallTypes DEF CallAborts
<1>7. CASE UNCHANGED EmergencyVars
  BY <1>7 DEF EmergencyVars, EmergencyTypes, EmergencyTypeOK, CallShape, Lists, StoresContacts
<1> QED BY <1>2, <1>3, <1>4, <1>5, <1>6, <1>7 DEF EmergencyNext, Starting

(* One call goes on and the contacts stay.                                   *)
LEMMA EmergencyInvGoes ==
  ASSUME EmergencyInv, EmergencyTypes', NEW k \in ECalls, NEW e \in CallStates,
         ecall' = [ecall EXCEPT ![k] = e], UNCHANGED <<contacts, undone>>,
         gaveKeyTo' \subseteq undone, \A c \in revoked' : Gone(c),
         UNCHANGED revoked \/ (ecall[k].op = "remove" /\ revoked' = revoked \cup ecall[k].con),
         \A c \in EContacts : contacts[c] = "none" /\ ecall[k].clist[c] = "none" => e.clist[c] = "none",
         \/ e.op = ecall[k].op /\ e.con = ecall[k].con /\ UNCHANGED named
         \/ e.op \notin {"designate"} /\ UNCHANGED named
            /\ (StoresContacts(e) => \A c \in e.con : contacts[c] # "none")
         \/ named' = named \cup e.con /\ e.op = "designate" /\ UNCHANGED revoked
            /\ \A c \in e.con : c \notin named,
         Progress(e)
  PROVE  EmergencyInv'
<1> USE DEF EmergencyInv
<1>1. ecall'[k] = e /\ \A j \in ECalls \ {k} : ecall'[j] = ecall[j]
  BY DEF EmergencyTypes
<1>2. \A c : Gone(c)' <=> Gone(c)
  BY DEF Gone
<1>3. RevokedGetNoKey' /\ \A c \in revoked' : Gone(c)'
  BY <1>2 DEF RevokedGetNoKey
<1>4. ASSUME NEW j \in ECalls PROVE Progress(ecall[j])'
  BY <1>1, <1>2 DEF Progress, Gone
<1>5. ASSUME NEW c \in EContacts, NEW K, Fresh(c, K),
             k \notin K /\ StoresContacts(e) => c \notin e.con, c \notin revoked'
      PROVE  Fresh(c, K)'
  BY <1>1, <1>5 DEF Fresh, StoresContacts
<1>6. \A j \in ECalls : ecall[j].con \subseteq EContacts /\ e.con \subseteq EContacts
  BY EmergencyState DEF CallStates
<1>7. ASSUME NEW c \in EContacts \ named' PROVE Fresh(c, {})'
  <2>1. c \notin named /\ Fresh(c, {})
    BY <1>7
  <2>2. StoresContacts(ecall[k]) => c \notin ecall[k].con
    BY <2>1 DEF Fresh
  <2>3. c \notin revoked' /\ (StoresContacts(e) => c \notin e.con)
    BY <1>7, <2>1, <2>2 DEF Fresh, StoresContacts
  <2> QED BY <1>5, <2>1, <2>3
<1>8. ASSUME NEW j \in ECalls, ecall'[j].op = "designate", NEW c \in ecall'[j].con
      PROVE  c \in named' /\ Fresh(c, {j})'
  <2>1. CASE j = k
    <3>1. e.op = "designate" /\ c \in e.con /\ c \in EContacts
      BY <1>1, <1>6, <1>8, <2>1
    <3>2. Fresh(c, {k}) /\ c \in named' /\ UNCHANGED revoked
      <4>1. CASE e.op = ecall[k].op /\ e.con = ecall[k].con /\ UNCHANGED named
        BY <3>1, <4>1
      <4>2. CASE named' = named \cup e.con /\ UNCHANGED revoked /\ \A x \in e.con : x \notin named
        BY <3>1, <4>2 DEF Fresh
      <4> QED BY <3>1, <4>1, <4>2
    <3> QED BY <1>5, <2>1, <3>1, <3>2 DEF Fresh
  <2>2. CASE j # k
    <3>1. ecall[j].op = "designate" /\ c \in ecall[j].con /\ c \in EContacts
      BY <1>1, <1>6, <1>8, <2>2
    <3>2. c \in named /\ Fresh(c, {j})
      BY <3>1
    <3>3. StoresContacts(ecall[k]) => c \notin ecall[k].con
      BY <2>2, <3>2 DEF Fresh
    <3>4. c \notin revoked' /\ (StoresContacts(e) => c \notin e.con) /\ c \in named'
      BY <3>2, <3>3 DEF Fresh, StoresContacts
    <3> QED BY <1>5, <3>1, <3>2, <3>4
  <2> QED BY <2>1, <2>2
<1> QED BY <1>3, <1>4, <1>7, <1>8

(* A call that has ended holds nothing.                                      *)
LEMMA NoCallHolds == ~StoresContacts(NoCall) /\ Progress(NoCall)
  BY NoCallTypes DEF StoresContacts, Progress

(* A call that stores a contact revokes it, or designates one that nobody    *)
(* revoked; the others it stores as it had loaded them.                      *)
LEMMA EmergencyInvStores ==
  ASSUME EmergencyInv, EmergencyTypes', NEW k \in ECalls, _persistContact(k)
  PROVE  EmergencyInv'
<1> USE DEF EmergencyInv
<1> DEFINE d == ecall[k]
<1>1. PICK e \in CallStates, c \in d.con :
            /\ CallShape(e) /\ ecall' = [ecall EXCEPT ![k] = e]
            /\ d.at = "cwrite" /\ StoresContacts(d)
            /\ d.op \in {"designate", "remove"} => d.con = {c}
            /\ d.op = "revokeAll" => c \in d.todo
            /\ \/ e = NoCall
               \/ /\ e.op = d.op /\ e.op \in {"remove", "revokeAll"}
                  /\ e.con = d.con /\ e.todo = d.todo \ {c} /\ e.late = d.late
                  /\ e.clist = NoCall.clist
            /\ contacts' = [d.clist EXCEPT ![c] = IF d.op = "designate" THEN "active"
                                                         ELSE "revoked"]
            /\ \/ UNCHANGED revoked
               \/ d.op = "revokeAll" /\ d.todo = {c} /\ revoked' = revoked \cup d.con
            /\ undone' = undone \cup {x \in EContacts \ {c} :
                                         contacts[x] = "revoked" /\ d.clist[x] # "revoked"}
            /\ UNCHANGED <<requests, named, gaveKeyTo>>
  BY CallStoresContact
<1>2. /\ d.clist \in [EContacts -> CStatus] /\ c \in EContacts /\ revoked \subseteq EContacts
      /\ \A j \in ECalls : ecall[j].con \subseteq EContacts /\ ecall[j].todo \subseteq EContacts
  BY EmergencyState DEF CallStates
<1>3. ecall'[k] = e /\ \A j \in ECalls \ {k} : ecall'[j] = ecall[j]
  BY <1>1 DEF EmergencyTypes
<1>4. /\ contacts'[c] = (IF d.op = "designate" THEN "active" ELSE "revoked")
      /\ \A x \in EContacts \ {c} : contacts'[x] = d.clist[x]
  BY <1>1, <1>2
<1>5. \A x \in EContacts \ {c} : Gone(x) => Gone(x)'
  BY <1>1, <1>4 DEF Gone
<1>6. d.op # "designate" => Gone(c)'
  BY <1>4 DEF Gone
<1>7. d.op = "designate" => Fresh(c, {k})
  OBVIOUS
<1>8. ASSUME NEW x \in revoked' PROVE Gone(x)'
  <2>1. CASE x \in revoked
    BY <1>2, <1>5, <1>6, <1>7, <2>1 DEF Fresh
  <2>2. CASE x \in d.con /\ d.op = "revokeAll" /\ d.todo = {c}
    BY <1>2, <1>5, <1>6, <2>2 DEF Progress
  <2> QED BY <1>1, <1>8, <2>1, <2>2
<1>9. RevokedGetNoKey'
  BY <1>1 DEF RevokedGetNoKey
<1>10. e.clist = [x \in EContacts |-> "none"]
  BY <1>1, NoCallTypes
<1>11. ASSUME NEW x \in EContacts, NEW K, Fresh(x, K), k \notin K PROVE Fresh(x, K)'
  <2>1. x \notin d.con /\ d.clist[x] = "none" /\ x \notin revoked
    BY <1>1, <1>11 DEF Fresh
  <2>2. x \notin revoked' /\ contacts'[x] = "none"
    BY <1>1, <1>4, <2>1
  <2>3. ASSUME NEW j \in ECalls
        PROVE  /\ ecall'[j].clist[x] = "none"
               /\ j \notin K /\ StoresContacts(ecall'[j]) => x \notin ecall'[j].con
    <3>1. CASE j = k
      BY <1>1, <1>3, <1>10, <2>1, <3>1, NoCallHolds
    <3>2. CASE j # k
      BY <1>3, <1>11, <3>2 DEF Fresh
    <3> QED BY <3>1, <3>2
  <2> QED BY <2>2, <2>3 DEF Fresh, StoresContacts
<1>12. ASSUME NEW x \in EContacts \ named' PROVE Fresh(x, {})'
  BY <1>1, <1>11, <1>12
<1>13. ASSUME NEW j \in ECalls, ecall'[j].op = "designate", NEW x \in ecall'[j].con
       PROVE  x \in named' /\ Fresh(x, {j})'
  <2>1. j # k /\ ecall'[j] = ecall[j]
    BY <1>1, <1>3, <1>13, NoCallTypes
  <2>2. x \in EContacts /\ x \in named /\ Fresh(x, {j})
    BY <1>2, <1>13, <2>1
  <2> QED BY <1>1, <1>11, <2>1, <2>2
<1>14. ASSUME NEW j \in ECalls PROVE Progress(ecall[j])'
  <2>1. CASE j = k /\ e = NoCall
    BY <1>3, <2>1, NoCallTypes DEF Progress
  <2>2. CASE j = k /\ e # NoCall
    <3>1. ecall'[j] = e /\ e.op = d.op /\ e.op \in {"remove", "revokeAll"} /\ e.con = d.con
          /\ e.todo = d.todo \ {c}
      BY <1>1, <1>3, <2>2
    <3>2. d.op = "remove" => \A x \in e.con : Gone(x)'
      BY <1>1, <1>6, <3>1
    <3>3. ASSUME d.op = "revokeAll", NEW x \in e.con \ e.todo PROVE Gone(x)'
      <4>1. CASE x = c
        BY <1>6, <3>3, <4>1
      <4>2. CASE x # c
        BY <1>2, <1>5, <3>1, <3>3, <4>2 DEF Progress
      <4> QED BY <4>1, <4>2
    <3> QED BY <3>1, <3>2, <3>3 DEF Progress, Gone
  <2>3. CASE j # k
    <3>1. ecall'[j] = ecall[j] /\ Progress(ecall[j])
      BY <1>3, <2>3
    <3>2. StoresContacts(ecall[j]) => \A x \in ecall[j].con : Gone(x) => Gone(x)'
      <4>1. d.op = "designate" => (StoresContacts(ecall[j]) => c \notin ecall[j].con)
        BY <1>7, <2>3 DEF Fresh
      <4> QED BY <1>2, <1>5, <1>6, <4>1
    <3>3. undone \subseteq undone'
      BY <1>1
    <3>4. ecall[j].op = "remove" /\ ecall[j].at \in {"rall", "rwrite"} => \A x \in ecall[j].con : Gone(x)'
      BY <3>1, <3>2 DEF Progress, StoresContacts
    <3>5. ecall[j].op = "revokeAll" => \A x \in ecall[j].con \ ecall[j].todo : Gone(x)'
      BY <3>1, <3>2 DEF Progress, StoresContacts
    <3> QED BY <3>1, <3>3, <3>4, <3>5 DEF Progress, Gone
  <2> QED BY <2>1, <2>2, <2>3
<1> QED BY <1>8, <1>9, <1>12, <1>13, <1>14

(* No step undoes a reported revocation without leaving a mark.              *)
LEMMA EmergencyInvStep ==
  ASSUME EmergencyInv, [EmergencyNext]_EmergencyVars
  PROVE  EmergencyInv'
<1> USE DEF EmergencyInv
<1>1. EmergencyTypes'
  BY EmergencyTypesStep
<1>2. /\ \A k \in ECalls : ecall[k] \in CallStates /\ CallShape(ecall[k])
      /\ \A c \in EContacts : NoCall.clist[c] = "none"
  BY EmergencyState, NoCallTypes
<1>3. ASSUME NEW k \in ECalls, Starting(k) PROVE EmergencyInv'
  <2>1. PICK e \in CallStates : Begun(k, e)
    BY <1>3, CallStarts
  <2>2. Progress(e)
    BY <2>1 DEF Begun, Progress
  <2>3. gaveKeyTo' \subseteq undone /\ \A c \in revoked' : Gone(c)
    BY <2>1 DEF Begun, RevokedGetNoKey
  <2>4. \/ e.op \notin {"designate"} /\ UNCHANGED named
           /\ (StoresContacts(e) => \A c \in e.con : contacts[c] # "none")
        \/ named' = named \cup e.con /\ e.op = "designate" /\ UNCHANGED revoked
           /\ \A c \in e.con : c \notin named
    BY <2>1 DEF Begun, StoresContacts
  <2> QED BY <1>1, <1>2, <2>1, <2>2, <2>3, <2>4, EmergencyInvGoes DEF Begun
<1>4. ASSUME NEW k \in ECalls, OnlyCall, ecall' = [ecall EXCEPT ![k] = NoCall] PROVE EmergencyInv'
  <2>1. gaveKeyTo' \subseteq undone /\ \A c \in revoked' : Gone(c)
    BY <1>4 DEF OnlyCall, RevokedGetNoKey
  <2> QED BY <1>1, <1>2, <1>4, <2>1, NoCallTypes, NoCallHolds, EmergencyInvGoes DEF OnlyCall
<1>5. ASSUME NEW k \in ECalls, AccessChecksContact(k) \/ _persistRequestLoads(k)
                               \/ _persistContactLoads(k) \/ InvalidatePending(k)
      PROVE  EmergencyInv'
  <2>1. PICK e \in CallStates :
            /\ CallShape(e) /\ ecall' = [ecall EXCEPT ![k] = e] /\ OnlyCall
            /\ \/ e = NoCall
               \/ /\ e.op = ecall[k].op /\ e.con = ecall[k].con /\ e.todo = ecall[k].todo
                  /\ \/ /\ e.at = "rload" /\ e.clist = ecall[k].clist
                        /\ e.late = (e.con \subseteq revoked)
                        /\ \A c \in e.con : contacts[c] = "active"
                     \/ e.at = "cwrite" /\ e.clist = contacts /\ e.late = ecall[k].late
                     \/ /\ e.at = "rwrite" /\ e.clist = ecall[k].clist /\ e.late = ecall[k].late
                        /\ ecall[k].at \in {"rload", "rall"}
    BY <1>5, CallLoads
  <2>2. CASE e = NoCall
    BY <1>4, <2>1, <2>2
  <2>3. CASE e # NoCall
    <3>1. Progress(ecall[k]) /\ CallShape(ecall[k])
      BY <1>2
    <3>2. e.op = "remove" /\ e.at \in {"rall", "rwrite"} => \A c \in e.con : Gone(c)
      BY <2>1, <2>3, <3>1 DEF Progress, CallShape, StoresContacts
    <3>3. e.op = "revokeAll" => \A c \in e.con \ e.todo : Gone(c)
      BY <2>1, <2>3, <3>1 DEF Progress
    <3>4. ASSUME e.op = "access", e.late PROVE e.con \subseteq undone
      <4>1. CASE e.late = (e.con \subseteq revoked) /\ \A c \in e.con : contacts[c] = "active"
        BY <3>4, <4>1 DEF Gone
      <4>2. CASE e.late = ecall[k].late
        BY <2>1, <2>3, <3>1, <3>4, <4>2 DEF Progress
      <4> QED BY <2>1, <2>3, <4>1, <4>2
    <3>5. Progress(e)
      BY <3>2, <3>3, <3>4 DEF Progress
    <3>6. gaveKeyTo' \subseteq undone /\ \A c \in revoked' : Gone(c)
      BY <2>1 DEF OnlyCall, RevokedGetNoKey
    <3>7. \A c \in EContacts : contacts[c] = "none" /\ ecall[k].clist[c] = "none" => e.clist[c] = "none"
      BY <2>1, <2>3
    <3>8. /\ e.op = ecall[k].op /\ e.con = ecall[k].con
          /\ UNCHANGED <<contacts, undone, revoked, named>>
      BY <2>1, <2>3 DEF OnlyCall
    <3> QED BY <1>1, <2>1, <3>5, <3>6, <3>7, <3>8, EmergencyInvGoes
  <2> QED BY <2>2, <2>3
<1>6. ASSUME NEW k \in ECalls, _persistRequests(k) PROVE EmergencyInv'
  <2>1. PICK e \in CallStates :
            /\ CallShape(e) /\ ecall' = [ecall EXCEPT ![k] = e] /\ ecall[k].at = "rwrite"
            /\ \/ e = NoCall
               \/ /\ e.op = ecall[k].op /\ e.con = ecall[k].con /\ e.todo = ecall[k].todo
                  /\ e.late = ecall[k].late /\ e.clist = ecall[k].clist /\ e.at = "cload"
            /\ UNCHANGED <<contacts, named, undone>>
            /\ revoked' = IF ecall[k].op = "remove" THEN revoked \cup ecall[k].con ELSE revoked
            /\ gaveKeyTo' = IF ecall[k].op = "access" /\ ecall[k].late
                            THEN gaveKeyTo \cup ecall[k].con ELSE gaveKeyTo
    BY <1>6, CallStoresRequests
  <2>2. Progress(ecall[k])
    OBVIOUS
  <2>3. Progress(e)
    BY <2>1, <2>2, NoCallHolds DEF Progress
  <2>4. gaveKeyTo' \subseteq undone /\ \A c \in revoked' : Gone(c)
    BY <2>1, <2>2 DEF Progress, RevokedGetNoKey
  <2>5. UNCHANGED revoked \/ (ecall[k].op = "remove" /\ revoked' = revoked \cup ecall[k].con)
    BY <2>1
  <2>6. \A c \in EContacts : contacts[c] = "none" /\ ecall[k].clist[c] = "none" => e.clist[c] = "none"
    BY <1>2, <2>1
  <2>7. \/ e.op = ecall[k].op /\ e.con = ecall[k].con /\ UNCHANGED named
        \/ e.op \notin {"designate"} /\ UNCHANGED named
           /\ (StoresContacts(e) => \A c \in e.con : contacts[c] # "none")
    BY <2>1, NoCallTypes, NoCallHolds
  <2>8. UNCHANGED <<contacts, undone>> /\ ecall' = [ecall EXCEPT ![k] = e]
    BY <2>1
  <2> QED BY <1>1, <2>3, <2>4, <2>5, <2>6, <2>7, <2>8, EmergencyInvGoes
<1>7. ASSUME NEW k \in ECalls, CallAborts(k) PROVE EmergencyInv'
  BY <1>4, <1>7 DEF CallAborts
<1>8. ASSUME NEW k \in ECalls, _persistContact(k) PROVE EmergencyInv'
  BY <1>1, <1>8, EmergencyInvStores
<1>9. CASE UNCHANGED EmergencyVars
  BY <1>1, <1>9 DEF EmergencyVars, Gone, Fresh, Progress, StoresContacts, RevokedGetNoKey
<1> QED BY <1>3, <1>5, <1>6, <1>7, <1>8, <1>9 DEF EmergencyNext, Starting

(* Once the revocation of a contact has been reported, the key goes to it    *)
(* only through a call that had found it active before, or because a list of *)
(* contacts loaded earlier was stored over the revocation; for any number of *)
(* contacts, requests and overlapping calls.                                 *)
THEOREM RevocationHolds == EmergencySpec => []RevokedGetNoKey
<1>1. EmergencyInit => EmergencyInv
  <2> SUFFICES ASSUME EmergencyInit PROVE EmergencyInv
    OBVIOUS
  <2>1. \A k \in ECalls : ecall[k] = NoCall
    BY DEF EmergencyInit
  <2>2. \A k \in ECalls : Progress(ecall[k]) /\ ~StoresContacts(ecall[k])
                          /\ ecall[k].op # "designate"
    BY <2>1, NoCallHolds, NoCallTypes
  <2>3. \A c \in EContacts : Fresh(c, {})
    BY <2>1, <2>2, NoCallTypes DEF EmergencyInit, Fresh
  <2> QED BY <2>2, <2>3, EmergencyTypesInit DEF EmergencyInit, EmergencyInv, RevokedGetNoKey
<1>2. EmergencyInv /\ [EmergencyNext]_EmergencyVars => EmergencyInv'
  BY EmergencyInvStep
<1>3. EmergencyInv => RevokedGetNoKey
  BY DEF EmergencyInv
<1> QED BY <1>1, <1>2, <1>3, PTL DEF EmergencySpec

-----------------------------------------------------------------------------
(* The four side by side.                                                    *)

SessionsInv == NativeTypeOK /\ WebTypeOK /\ EmergencyTypes /\ ProtectionTypeOK

(* The components of the bundle have their types.                            *)
THEOREM ClientSessionTypes == Spec => []TypeOK
<1> DEFINE vars == <<NativeVars, WebVars, EmergencyVars, ProtectionVars, part>>
<1>1. Init => SessionsInv
  BY NativeTypesInit, WebTypesInit, EmergencyTypesInit, ProtectionTypesInit DEF Init, SessionsInv
<1>2. SessionsInv /\ [Next]_vars => SessionsInv'
  <2> SUFFICES ASSUME SessionsInv, [Next]_vars PROVE SessionsInv'
    OBVIOUS
  <2>1. /\ [NativeNext]_NativeVars /\ [WebNext]_WebVars /\ [EmergencyNext]_EmergencyVars
        /\ [ProtectionNext]_ProtectionVars
    BY DEF Next
  <2> QED BY <2>1, NativeTypesStep, WebTypesStep, EmergencyTypesStep, ProtectionTypesStep DEF SessionsInv
<1>3. SessionsInv => TypeOK
  BY DEF SessionsInv, TypeOK, EmergencyTypes
<1> QED BY <1>1, <1>2, <1>3, PTL DEF Spec
=============================================================================
