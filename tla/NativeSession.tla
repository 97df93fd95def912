---------------------------- MODULE NativeSession ----------------------------
(***************************************************************************)
(* The signed-in session of the native application: the interceptors and the *)
(* token store of usbvault-app/src/services/api.ts, login, logout and        *)
(* isAuthenticated of services/auth.ts, and the native branches of           *)
(* stores/authStore.ts.                                                      *)
(*                                                                          *)
(* Requests run concurrently with one another and with the flow the user     *)
(* started; an action extends from one await to the next.  The two tokens    *)
(* are separate entries of the secure store and are written one after the    *)
(* other; a refresh may fail to read or write them, the other calls of the   *)
(* store and all deletions are taken to succeed.  The server rotates the     *)
(* refresh token at each refresh and takes a second use of one for theft.    *)
(***************************************************************************)
EXTENDS Naturals

CONSTANTS
    Reqs,             \* requests the application may have in progress
    NoReq,            \* no request
    MaxLogins,        \* bound on the sessions the server ever creates
    MaxGen,           \* bound on the refreshes of one session
    NetRetries,       \* MAX_RETRIES
    KillInRefresh     \* whether the application may be killed while a refresh is in progress

ASSUME NativeSessionAssumption ==
    /\ NoReq \notin Reqs /\ {MaxLogins, MaxGen, NetRetries} \subseteq Nat
    /\ KillInRefresh \in BOOLEAN

Sessions == 1..MaxLogins
NoToken == [s |-> 0, g |-> 0]
Tokens == [s : 0..MaxLogins, g : 0..MaxGen]

VARIABLES
    accessToken,     \* TOKEN_KEY in the secure store
    refreshToken,    \* REFRESH_TOKEN_KEY in the secure store
    inProgress,      \* refreshTokenInProgress: the request whose 401 began it
    refresh,         \* per request, the refresh it began
    request,         \* per request: where it is, _authRetry, _retryCount, the refresh it awaits
    userFlow,        \* the flow of authStore in progress: its next step and its session
    masterKey,       \* masterKey is not null
    isAuthenticated, \* authStore.isAuthenticated
    srvGen,          \* server: refreshes of each session so far
    srvLogins,       \* server: sessions created
    tokenReused      \* history: the server met a refresh token a second time

storeVars == <<accessToken, refreshToken>>
userVars == <<userFlow, masterKey, isAuthenticated>>
serverVars == <<srvGen, srvLogins, tokenReused>>
NativeVars == <<storeVars, inProgress, refresh, request, userVars, serverVars>>

RefreshSteps == {"none", "read", "posted", "access", "refresh", "clear1", "clear2"}
UserSteps == {"none", "register", "verify", "store1", "store2", "derive", "info",
              "clear1", "clear2", "wipe", "check", "checkInfo"}

(* The type invariant.                                                       *)
NativeTypeOK ==
    /\ {accessToken, refreshToken} \subseteq Tokens
    /\ inProgress \in Reqs \cup {NoReq}
    /\ refresh \in [Reqs -> [at : RefreshSteps, tok : Tokens]]
    /\ request \in [Reqs -> [at : {"none", "sent", "waiting", "clear1", "clear2"},
                             authRetry : BOOLEAN, net : 0..NetRetries,
                             on : Reqs \cup {NoReq}]]
    /\ userFlow \in [at : UserSteps, s : 0..MaxLogins]
    /\ {masterKey, isAuthenticated, tokenReused} \subseteq BOOLEAN
    /\ srvGen \in [Sessions -> 0..MaxGen] /\ srvLogins \in 0..MaxLogins

NoRefresh == [at |-> "none", tok |-> NoToken]
NoRequest == [at |-> "none", authRetry |-> FALSE, net |-> 0, on |-> NoReq]
NoFlow == [at |-> "none", s |-> 0]

NativeInit ==
    /\ accessToken = NoToken /\ refreshToken = NoToken
    /\ inProgress = NoReq
    /\ refresh = [q \in Reqs |-> NoRefresh]
    /\ request = [r \in Reqs |-> NoRequest]
    /\ userFlow = NoFlow /\ masterKey = FALSE /\ isAuthenticated = FALSE
    /\ srvGen = [s \in Sessions |-> 0] /\ srvLogins = 0 /\ tokenReused = FALSE

-----------------------------------------------------------------------------
(* The interceptors.                                                         *)

SendRequest(r) ==
    /\ request[r].at = "none"
    /\ request' = [request EXCEPT ![r] = [NoRequest EXCEPT !.at = "sent"]]
    /\ UNCHANGED <<storeVars, inProgress, refresh, userVars, serverVars>>

Respond(r) ==
    /\ request[r].at = "sent"
    /\ request' = [request EXCEPT ![r] = NoRequest]
    /\ UNCHANGED <<storeVars, inProgress, refresh, userVars, serverVars>>

(* Slip: the counter of retries starts again when it is used up.             *)
NetworkErrorForever(r) ==
    /\ request[r].at = "sent"
    /\ request' = [request EXCEPT ![r].net = IF @ < NetRetries THEN @ + 1 ELSE 0]
    /\ UNCHANGED <<storeVars, inProgress, refresh, userVars, serverVars>>

(* A network error is retried after a pause, MAX_RETRIES times.              *)
NetworkError(r) ==
    /\ request[r].at = "sent"
    /\ \/ /\ request[r].net < NetRetries
          /\ request' = [request EXCEPT ![r].net = @ + 1]
       \/ /\ request[r].net = NetRetries
          /\ request' = [request EXCEPT ![r] = NoRequest]
    /\ UNCHANGED <<storeVars, inProgress, refresh, userVars, serverVars>>

(* Slip: each 401 begins a refresh of its own.                               *)
UnauthorizedAlone(r) ==
    /\ request[r].at = "sent" /\ ~request[r].authRetry
    /\ request' = [request EXCEPT ![r].at = "waiting", ![r].authRetry = TRUE, ![r].on = r]
    /\ refresh' = [refresh EXCEPT ![r].at = "read"]
    /\ inProgress' = r
    /\ UNCHANGED <<storeVars, userVars, serverVars>>

(* The first 401 of a request joins the refresh in progress or begins one,   *)
(* without an await in between; a second one rejects.                        *)
Unauthorized(r) ==
    LET q == IF inProgress = NoReq THEN r ELSE inProgress IN
    /\ request[r].at = "sent"
    /\ \/ /\ request[r].authRetry
          /\ request' = [request EXCEPT ![r] = NoRequest]
          /\ UNCHANGED <<refresh, inProgress>>
       \/ /\ ~request[r].authRetry
          /\ request' = [request EXCEPT ![r].at = "waiting", ![r].authRetry = TRUE, ![r].on = q]
          /\ refresh' = IF inProgress = NoReq THEN [refresh EXCEPT ![r].at = "read"] ELSE refresh
          /\ inProgress' = q
    /\ UNCHANGED <<storeVars, userVars, serverVars>>

(* A request whose refresh failed deletes both tokens, once more.            *)
RejectRequest(r) ==
    /\ \/ /\ request[r].at = "clear1" /\ accessToken' = NoToken
          /\ request' = [request EXCEPT ![r].at = "clear2"]
          /\ UNCHANGED refreshToken
       \/ /\ request[r].at = "clear2" /\ refreshToken' = NoToken
          /\ request' = [request EXCEPT ![r] = NoRequest]
          /\ UNCHANGED accessToken
    /\ UNCHANGED <<inProgress, refresh, userVars, serverVars>>

-----------------------------------------------------------------------------
(* refreshAccessToken, begun by the 401 of request q.                        *)

RefreshTo(q, step) == refresh' = [refresh EXCEPT ![q].at = step]
RefreshRejected(q) == refresh' = [refresh EXCEPT ![q] = [at |-> "clear1", tok |-> NoToken]]

(* The promise settles: inProgress is cleared and every waiter goes on.      *)
SettleRefresh(q, step) ==
    /\ refresh' = [refresh EXCEPT ![q] = NoRefresh]
    /\ inProgress' = NoReq
    /\ request' = [r \in Reqs |-> IF request[r].at = "waiting" /\ request[r].on = q
                                  THEN [request[r] EXCEPT !.at = step, !.on = NoReq]
                                  ELSE request[r]]

(* The stored token is posted; without one, or when the store cannot be      *)
(* read, the refresh fails.                                                  *)
RefreshRead(q) ==
    /\ refresh[q].at = "read"
    /\ \/ RefreshRejected(q)
       \/ /\ refreshToken # NoToken
          /\ refresh' = [refresh EXCEPT ![q] = [at |-> "posted", tok |-> refreshToken]]
    /\ UNCHANGED <<storeVars, inProgress, request, userVars, serverVars>>

(* POST /auth/refresh, as the server's RefreshAccessToken answers it: a      *)
(* current token is rotated, and the answer arrives or is lost; a token      *)
(* already rotated is a reuse.                                               *)
PostRefresh(q) ==
    LET t == refresh[q].tok
        current == t.g = srvGen[t.s]
    IN
    /\ refresh[q].at = "posted"
    /\ tokenReused' = (tokenReused \/ ~current)
    /\ \/ /\ current /\ t.g < MaxGen
          /\ srvGen' = [srvGen EXCEPT ![t.s] = @ + 1]
          /\ \/ refresh' = [refresh EXCEPT ![q] = [at |-> "access", tok |-> [t EXCEPT !.g = @ + 1]]]
             \/ RefreshRejected(q)
       \/ /\ RefreshRejected(q)
          /\ UNCHANGED srvGen
    /\ UNCHANGED <<storeVars, inProgress, request, userVars, srvLogins>>

(* The new tokens are stored, or a write fails.                              *)
RefreshStore(q) ==
    /\ \/ /\ refresh[q].at = "access" /\ accessToken' = refresh[q].tok
          /\ RefreshTo(q, "refresh")
          /\ UNCHANGED <<refreshToken, inProgress, request>>
       \/ /\ refresh[q].at = "refresh" /\ refreshToken' = refresh[q].tok
          /\ SettleRefresh(q, "sent")
          /\ UNCHANGED accessToken
       \/ /\ refresh[q].at \in {"access", "refresh"} /\ RefreshRejected(q)
          /\ UNCHANGED <<storeVars, inProgress, request>>
    /\ UNCHANGED <<userVars, serverVars>>

RefreshFails(q) ==
    /\ \/ /\ refresh[q].at = "clear1" /\ accessToken' = NoToken
          /\ RefreshTo(q, "clear2")
          /\ UNCHANGED <<refreshToken, inProgress, request>>
       \/ /\ refresh[q].at = "clear2" /\ refreshToken' = NoToken
          /\ SettleRefresh(q, "clear1")
          /\ UNCHANGED accessToken
    /\ UNCHANGED <<userVars, serverVars>>

-----------------------------------------------------------------------------
(* The flows of the user.                                                    *)

FlowTo(step) == userFlow' = [userFlow EXCEPT !.at = step]
EndFlow == userFlow' = NoFlow

login ==
    /\ userFlow = NoFlow /\ FlowTo("verify")
    /\ UNCHANGED <<storeVars, inProgress, refresh, request, masterKey, isAuthenticated, serverVars>>

register ==
    /\ userFlow = NoFlow /\ FlowTo("register")
    /\ UNCHANGED <<storeVars, inProgress, refresh, request, masterKey, isAuthenticated, serverVars>>

(* The verifier and the public keys are posted; a login follows.             *)
RegisterPost ==
    /\ userFlow.at = "register"
    /\ \/ FlowTo("verify") /\ UNCHANGED isAuthenticated
       \/ EndFlow /\ isAuthenticated' = FALSE
    /\ UNCHANGED <<storeVars, inProgress, refresh, request, masterKey, serverVars>>

(* The proof is refused, or the server creates a session.                    *)
LoginVerify ==
    /\ userFlow.at = "verify"
    /\ \/ EndFlow /\ isAuthenticated' = FALSE /\ UNCHANGED srvLogins
       \/ /\ srvLogins < MaxLogins
          /\ srvLogins' = srvLogins + 1
          /\ userFlow' = [at |-> "store1", s |-> srvLogins']
          /\ UNCHANGED isAuthenticated
    /\ UNCHANGED <<storeVars, inProgress, refresh, request, masterKey, srvGen, tokenReused>>

storeTokens ==
    LET t == [s |-> userFlow.s, g |-> 0] IN
    /\ \/ userFlow.at = "store1" /\ accessToken' = t /\ FlowTo("store2") /\ UNCHANGED refreshToken
       \/ userFlow.at = "store2" /\ refreshToken' = t /\ FlowTo("derive") /\ UNCHANGED accessToken
    /\ UNCHANGED <<inProgress, refresh, request, masterKey, isAuthenticated, serverVars>>

deriveKey ==
    /\ userFlow.at = "derive" /\ masterKey' = TRUE /\ FlowTo("info")
    /\ UNCHANGED <<storeVars, inProgress, refresh, request, isAuthenticated, serverVars>>

(* getUserInfo answers the login, or the check at start, or fails.           *)
UserInfo ==
    /\ userFlow.at \in {"info", "checkInfo"} /\ EndFlow
    /\ isAuthenticated' \in BOOLEAN
    /\ UNCHANGED <<storeVars, inProgress, refresh, request, masterKey, serverVars>>

logout ==
    /\ userFlow = NoFlow /\ isAuthenticated /\ FlowTo("clear1")
    /\ UNCHANGED <<storeVars, inProgress, refresh, request, masterKey, isAuthenticated, serverVars>>

clearTokens ==
    /\ \/ userFlow.at = "clear1" /\ accessToken' = NoToken /\ FlowTo("clear2") /\ UNCHANGED refreshToken
       \/ userFlow.at = "clear2" /\ refreshToken' = NoToken /\ FlowTo("wipe") /\ UNCHANGED accessToken
    /\ UNCHANGED <<inProgress, refresh, request, masterKey, isAuthenticated, serverVars>>

LogoutWipe ==
    /\ userFlow.at = "wipe" /\ masterKey' = FALSE /\ isAuthenticated' = FALSE /\ EndFlow
    /\ UNCHANGED <<storeVars, inProgress, refresh, request, serverVars>>

checkAuth ==
    /\ userFlow = NoFlow /\ FlowTo("check")
    /\ UNCHANGED <<storeVars, inProgress, refresh, request, masterKey, isAuthenticated, serverVars>>

(* isAuthenticated of auth.ts needs the access token and the master key.     *)
CheckTokens ==
    /\ userFlow.at = "check"
    /\ \/ /\ accessToken # NoToken /\ masterKey
          /\ FlowTo("checkInfo") /\ UNCHANGED isAuthenticated
       \/ /\ accessToken = NoToken \/ ~masterKey
          /\ EndFlow /\ isAuthenticated' = FALSE
    /\ UNCHANGED <<storeVars, inProgress, refresh, request, masterKey, serverVars>>

(* lockVault, called by timers and by the user at any moment.                *)
lockVault ==
    /\ masterKey \/ isAuthenticated
    /\ masterKey' = FALSE /\ isAuthenticated' = FALSE
    /\ UNCHANGED <<storeVars, inProgress, refresh, request, userFlow, serverVars>>

(* The application is killed and started again.                              *)
Kill ==
    /\ KillInRefresh \/ inProgress = NoReq
    /\ inProgress' = NoReq
    /\ refresh' = [q \in Reqs |-> NoRefresh]
    /\ request' = [r \in Reqs |-> NoRequest]
    /\ userFlow' = NoFlow /\ masterKey' = FALSE /\ isAuthenticated' = FALSE
    /\ UNCHANGED <<storeVars, serverVars>>

RefreshStep(q) == RefreshRead(q) \/ PostRefresh(q) \/ RefreshStore(q) \/ RefreshFails(q)
RequestStep(r) == Respond(r) \/ NetworkError(r) \/ Unauthorized(r) \/ RejectRequest(r)

NativeNext ==
    \/ \E r \in Reqs : SendRequest(r) \/ RequestStep(r) \/ RefreshStep(r)
    \/ register \/ RegisterPost \/ login \/ LoginVerify \/ storeTokens \/ deriveKey \/ UserInfo
    \/ logout \/ clearTokens \/ LogoutWipe
    \/ checkAuth \/ CheckTokens \/ lockVault \/ Kill

NativeSpec == NativeInit /\ [][NativeNext]_NativeVars

(* Every call of the HTTP client comes back: it is answered, it fails, or    *)
(* its time-out of 30 s ends it; and the event loop runs what then is ready. *)
(* The call of a refresh is made without a time-out: that the platform's     *)
(* network stack ends it is an assumption.                                   *)
NativeFairness ==
    \A r \in Reqs : WF_NativeVars(RequestStep(r)) /\ WF_NativeVars(RefreshStep(r))

-----------------------------------------------------------------------------
(* However many requests meet an expired access token at once, and whatever  *)
(* is logged in or out meanwhile, no refresh token is presented twice: the   *)
(* server, which takes that for theft and ends the session, has no cause to. *)
(* (A kill between the server's rotation and the store is excepted, and a    *)
(* token that the store does not delete.)                                    *)
NoTokenReuse == ~tokenReused

(* Every request settles: retries end, and no request waits for a refresh    *)
(* that nobody will finish.                                                  *)
RequestSettles == \A r \in Reqs : request[r].at # "none" ~> request[r].at = "none"

(* After a logout nothing brings a token back.                               *)
LogoutSticks ==
    [][userFlow = NoFlow /\ accessToken = NoToken => accessToken' = NoToken]_NativeVars

(* The tokens of a completed login stay until they are refreshed or the user *)
(* logs out.                                                                 *)
SessionKept ==
    [][refreshToken.s = srvLogins /\ userFlow = NoFlow => refreshToken'.s = refreshToken.s]_NativeVars

(* A signed-in application has its master key.                               *)
AuthenticatedHasKey == isAuthenticated => masterKey
=============================================================================
