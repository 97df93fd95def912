---------------------------- MODULE TokenSessions ----------------------------
(***************************************************************************)
(* Sessions of one account of the USBVault API server: login (the tail that *)
(* SRP, FIDO2 and OIDC share), refresh with rotation and reuse detection,   *)
(* logout-everywhere and account deletion                                   *)
(* (usbvault-server/internal/auth: jwt.go, token_epoch.go, account.go).     *)
(*                                                                          *)
(* The account lives in two stores.  PostgreSQL is durable: token_epoch and *)
(* deleted_at.  Redis is a cache that may be flushed: the mirror of the     *)
(* epoch, the revocation entries and the user_tokens set.  Every key is     *)
(* scoped by user id or by jti, so accounts do not interact and one is      *)
(* enough.  Each round trip to a store is a step of its own: requests of    *)
(* the same account interleave between them.                                *)
(*                                                                          *)
(* A token pair is an access and a refresh token minted together; its name  *)
(* stands for the two random jtis.  Expiry is left out: revocation entries  *)
(* and the mirror are written with a lifetime no shorter than what they     *)
(* must outlive, and the horizon of a behaviour is shorter than any of them.*)
(***************************************************************************)
EXTENDS Naturals, FiniteSets

CONSTANTS
    Reqs,       \* request slots of the server (concurrent handlers)
    Pairs,      \* names for token pairs
    MaxEpoch,   \* bound on users.token_epoch
    Lossy,      \* TRUE: a best-effort Redis call may fail and be ignored
    DbFaults,   \* TRUE: a PostgreSQL call may return an error
    None        \* no pair

ASSUME MaxEpochAssumption == MaxEpoch \in Nat
ASSUME FaultsAssumption == Lossy \in BOOLEAN /\ DbFaults \in BOOLEAN
ASSUME NoneAssumption == None \notin Pairs

VARIABLES
    dbEpoch,      \* users.token_epoch                        (PostgreSQL)
    deleted,      \* users.deleted_at IS NOT NULL             (PostgreSQL)
    mirror,       \* token_epoch:<user>; a missing key reads 0     (Redis)
    revoked,      \* jtis with a revoked:<jti> entry               (Redis)
    userTokens,   \* user_tokens:<user>                            (Redis)
    events,       \* families with a theft_revocation event        (Redis)
    status,       \* "unused", "minted" (not yet sent) or "held" by a client
    epochOf,      \* claim TokenEpoch of the pair
    familyOf,     \* claim FamilyID: the pair a login minted
    parentOf,     \* the pair whose refresh token was rotated into this one
    pc, kind,     \* control state and handler of each request
    tok,          \* the presented pair
    epoch,        \* the epoch the handler holds
    todo,         \* jtis the handler still has to revoke
    child,        \* the pair a refresh has minted
    begunEpoch,   \* history: dbEpoch when the request began
    begunDeleted  \* history: deleted when the request began

pgVars == <<dbEpoch, deleted>>
redisVars == <<mirror, revoked, userTokens, events>>
pairVars == <<status, epochOf, familyOf, parentOf>>
begunVars == <<begunEpoch, begunDeleted>>
reqVars == <<pc, kind, tok, epoch, todo, child, begunVars>>
vars == <<pgVars, redisVars, pairVars, reqVars>>

Access(p) == <<"access", p>>
Refresh(p) == <<"refresh", p>>
Jtis == {"access", "refresh"} \X Pairs

Issued == {p \in Pairs : status[p] # "unused"}
Held == {p \in Pairs : status[p] = "held"}

StoreTypes ==
    /\ dbEpoch \in Nat /\ deleted \in BOOLEAN
    /\ mirror \in Nat
    /\ revoked \subseteq Jtis /\ userTokens \subseteq Jtis
    /\ events \subseteq Pairs

PairTypes ==
    /\ status \in [Pairs -> {"unused", "minted", "held"}]
    /\ epochOf \in [Pairs -> Nat]
    /\ familyOf \in [Pairs -> Pairs \cup {None}]
    /\ parentOf \in [Pairs -> Pairs \cup {None}]

RequestTypes ==
    /\ pc \in [Reqs -> {"idle", "read", "mirror", "issue", "rotate", "mint",
                        "register", "own", "list", "revoke", "bump"}]
    /\ kind \in [Reqs -> {"none", "login", "refresh", "logout", "delete"}]
    /\ tok \in [Reqs -> Pairs \cup {None}]
    /\ epoch \in [Reqs -> Nat]
    /\ todo \in [Reqs -> SUBSET Jtis]
    /\ child \in [Reqs -> Pairs \cup {None}]
    /\ begunEpoch \in [Reqs -> Nat] /\ begunDeleted \in [Reqs -> BOOLEAN]

(* The type invariant: the stores, the claims and the handlers' locals.      *)
TypeOK == StoreTypes /\ PairTypes /\ RequestTypes

Init ==
    /\ dbEpoch = 0 /\ deleted = FALSE
    /\ mirror = 0 /\ revoked = {} /\ userTokens = {} /\ events = {}
    /\ status = [p \in Pairs |-> "unused"]
    /\ epochOf = [p \in Pairs |-> 0]
    /\ familyOf = [p \in Pairs |-> None]
    /\ parentOf = [p \in Pairs |-> None]
    /\ pc = [r \in Reqs |-> "idle"]
    /\ kind = [r \in Reqs |-> "none"]
    /\ tok = [r \in Reqs |-> None]
    /\ epoch = [r \in Reqs |-> 0]
    /\ todo = [r \in Reqs |-> {}]
    /\ child = [r \in Reqs |-> None]
    /\ begunEpoch = [r \in Reqs |-> 0]
    /\ begunDeleted = [r \in Reqs |-> FALSE]

-----------------------------------------------------------------------------
(* The two validations.  A refresh token presented to /auth/refresh, or in   *)
(* the logout cookie, is only checked for its signature: any held pair.  An  *)
(* access token also needs no revocation entry and an epoch the mirror does  *)
(* not contradict (ValidateTokenWithRevocation).                             *)

checkTokenEpochRedis(p) == epochOf[p] >= mirror

Honoured(p) ==
    /\ status[p] = "held"
    /\ Access(p) \notin revoked
    /\ checkTokenEpochRedis(p)

(* Requests whose handler will still increment token_epoch.                  *)
PendingBumps == {r \in Reqs : kind[r] \in {"logout", "delete"}
                              /\ pc[r] \in {"own", "list", "revoke", "bump"}}
BumpAllowed == dbEpoch + Cardinality(PendingBumps) < MaxEpoch

(* Requests that may still need a name for a new pair; a request begins only *)
(* if a name is left for it.                                                 *)
Minters == {r \in Reqs : \/ kind[r] = "login"
                         \/ kind[r] = "refresh" /\ pc[r] \in {"read", "rotate", "mint"}}
MintAllowed == Cardinality(Pairs \ Issued) > Cardinality(Minters)

-----------------------------------------------------------------------------
(* Control helpers: a handler begins, moves on, or returns.                  *)

Begin(r, k, start, p, jtis) ==
    /\ pc[r] = "idle"
    /\ pc' = [pc EXCEPT ![r] = start]
    /\ kind' = [kind EXCEPT ![r] = k]
    /\ tok' = [tok EXCEPT ![r] = p]
    /\ todo' = [todo EXCEPT ![r] = jtis]
    /\ begunEpoch' = [begunEpoch EXCEPT ![r] = dbEpoch]
    /\ begunDeleted' = [begunDeleted EXCEPT ![r] = deleted]
    /\ UNCHANGED <<pgVars, redisVars, pairVars, epoch, child>>

Goto(r, l) ==
    /\ pc' = [pc EXCEPT ![r] = l]
    /\ UNCHANGED <<kind, tok, child, begunVars>>

Return(r) ==
    /\ pc' = [pc EXCEPT ![r] = "idle"]
    /\ kind' = [kind EXCEPT ![r] = "none"]
    /\ tok' = [tok EXCEPT ![r] = None]
    /\ epoch' = [epoch EXCEPT ![r] = 0]
    /\ todo' = [todo EXCEPT ![r] = {}]
    /\ child' = [child EXCEPT ![r] = None]
    /\ begunEpoch' = [begunEpoch EXCEPT ![r] = 0]
    /\ begunDeleted' = [begunDeleted EXCEPT ![r] = FALSE]

(* A fresh pair: the jtis are random, so a name not used before.             *)
GenerateTokenPairWithEpoch(p, e, family, parent, st) ==
    /\ status[p] = "unused"
    /\ status' = [status EXCEPT ![p] = st]
    /\ epochOf' = [epochOf EXCEPT ![p] = e]
    /\ familyOf' = [familyOf EXCEPT ![p] = family]
    /\ parentOf' = [parentOf EXCEPT ![p] = parent]

-----------------------------------------------------------------------------
(* Login: the handshake found the account not deleted; what follows is the   *)
(* sequence LoadUserTokenEpoch, mint, RegisterIssuedTokens.                  *)

BeginLogin(r) ==
    /\ MintAllowed
    /\ ~deleted
    /\ Begin(r, "login", "read", None, {})

LoginReadEpoch(r) ==
    /\ kind[r] = "login" /\ pc[r] = "read"
    /\ epoch' = [epoch EXCEPT ![r] = dbEpoch]
    /\ Goto(r, "mirror")
    /\ UNCHANGED <<pgVars, redisVars, pairVars, todo>>

RegisterIssuedTokens(p) ==
    \/ userTokens' = userTokens \cup {Access(p), Refresh(p)}
    \/ Lossy /\ userTokens' = userTokens

(* Slip: the login paths before F1, which did not register their tokens.     *)
LoginIssueUnregistered(r) ==
    /\ kind[r] = "login" /\ pc[r] = "issue"
    /\ \E p \in Pairs : GenerateTokenPairWithEpoch(p, epoch[r], p, None, "held")
    /\ Return(r)
    /\ UNCHANGED <<pgVars, redisVars>>

LoginIssue(r) ==
    /\ kind[r] = "login" /\ pc[r] = "issue"
    /\ \E p \in Pairs :
          /\ GenerateTokenPairWithEpoch(p, epoch[r], p, None, "held")
          /\ RegisterIssuedTokens(p)
    /\ Return(r)
    /\ UNCHANGED <<pgVars, mirror, revoked, events>>

-----------------------------------------------------------------------------
(* Refresh: RefreshAccessToken.                                              *)

BeginRefresh(r) ==
    \E p \in Held :
       /\ MintAllowed \/ deleted \/ epochOf[p] < dbEpoch \/ Refresh(p) \in revoked
       /\ Begin(r, "refresh", "read", p, {})

(* Slip: the refresh path trusts the Redis mirror instead of the column.     *)
RefreshReadMirror(r) ==
    /\ kind[r] = "refresh" /\ pc[r] = "read"
    /\ epoch' = [epoch EXCEPT ![r] = mirror]
    /\ Goto(r, IF checkTokenEpochRedis(tok[r]) THEN "rotate" ELSE "mirror")
    /\ UNCHANGED <<pgVars, redisVars, pairVars, todo>>

(* userEpochAndDeleted and the durable checks on its result.                 *)
RefreshRead(r) ==
    /\ kind[r] = "refresh" /\ pc[r] = "read"
    /\ \/ /\ deleted
          /\ Return(r)
       \/ /\ ~deleted
          /\ epoch' = [epoch EXCEPT ![r] = dbEpoch]
          /\ Goto(r, IF epochOf[tok[r]] < dbEpoch THEN "mirror" ELSE "rotate")
          /\ UNCHANGED todo
    /\ UNCHANGED <<pgVars, redisVars, pairVars>>

(* The Lua script: check and revoke in one Redis step.                       *)
AtomicRevoke(r) ==
    /\ revoked' = revoked \cup {Refresh(tok[r])}
    /\ userTokens' = IF Refresh(tok[r]) \in revoked THEN userTokens
                     ELSE userTokens \ {Refresh(tok[r])}

(* Slip: the result of the check is ignored.                                 *)
RefreshRotateUnchecked(r) ==
    /\ kind[r] = "refresh" /\ pc[r] = "rotate"
    /\ AtomicRevoke(r)
    /\ Goto(r, "mint")
    /\ UNCHANGED <<pgVars, mirror, events, pairVars, epoch, todo>>

RefreshRotate(r) ==
    /\ kind[r] = "refresh" /\ pc[r] = "rotate"
    /\ AtomicRevoke(r)
    /\ Goto(r, IF Refresh(tok[r]) \in revoked THEN "list" ELSE "mint")
    /\ UNCHANGED <<pgVars, mirror, events, pairVars, epoch, todo>>

(* The script call fails; it may have run before the reply was lost.         *)
RefreshRotateFails(r) ==
    /\ Lossy
    /\ kind[r] = "refresh" /\ pc[r] = "rotate"
    /\ AtomicRevoke(r) \/ UNCHANGED <<revoked, userTokens>>
    /\ Return(r)
    /\ UNCHANGED <<pgVars, mirror, events, pairVars>>

SAdd(j) ==
    \/ userTokens' = userTokens \cup {j}
    \/ Lossy /\ userTokens' = userTokens

(* Slip: the minted pair is not kept for its registration.                   *)
RefreshMintForgets(r) ==
    /\ kind[r] = "refresh" /\ pc[r] = "mint"
    /\ \E p \in Pairs :
          /\ GenerateTokenPairWithEpoch(p, epoch[r], familyOf[tok[r]], tok[r], "minted")
          /\ SAdd(Access(p))
    /\ Goto(r, "register")
    /\ UNCHANGED <<pgVars, mirror, revoked, events, epoch, todo>>

(* Slip: the epoch is read again when the pair is minted.                    *)
RefreshMintRereads(r) ==
    /\ kind[r] = "refresh" /\ pc[r] = "mint"
    /\ \E p \in Pairs :
          /\ GenerateTokenPairWithEpoch(p, dbEpoch, familyOf[tok[r]], tok[r], "minted")
          /\ SAdd(Access(p))
          /\ child' = [child EXCEPT ![r] = p]
    /\ pc' = [pc EXCEPT ![r] = "register"]
    /\ UNCHANGED <<pgVars, mirror, revoked, events, kind, tok, epoch, todo, begunVars>>

RefreshMint(r) ==
    /\ kind[r] = "refresh" /\ pc[r] = "mint"
    /\ \E p \in Pairs :
          /\ GenerateTokenPairWithEpoch(p, epoch[r], familyOf[tok[r]], tok[r], "minted")
          /\ SAdd(Access(p))
          /\ child' = [child EXCEPT ![r] = p]
    /\ pc' = [pc EXCEPT ![r] = "register"]
    /\ UNCHANGED <<pgVars, mirror, revoked, events, kind, tok, epoch, todo, begunVars>>

RefreshRegister(r) ==
    /\ kind[r] = "refresh" /\ pc[r] = "register"
    /\ SAdd(Refresh(child[r]))
    /\ status' = [status EXCEPT ![child[r]] = "held"]
    /\ Return(r)
    /\ UNCHANGED <<pgVars, mirror, revoked, events, epochOf, familyOf, parentOf>>

-----------------------------------------------------------------------------
(* Logout-everywhere and account deletion.  Logout is authorised by an       *)
(* honoured access token or by a refresh cookie whose signature verifies;    *)
(* deletion sits behind RequireAuth.  todo first holds the jtis the request  *)
(* itself carries.                                                           *)

Carried(p) == {{Access(p)}, {Refresh(p)}, {Access(p), Refresh(p)}}

BeginLogout(r) ==
    /\ BumpAllowed
    /\ \E p \in Held : \E jtis \in Carried(p) :
          /\ Refresh(p) \in jtis \/ Honoured(p)
          /\ Begin(r, "logout", "own", p, jtis)

BeginDelete(r) ==
    /\ BumpAllowed
    /\ \E p \in Held : \E jtis \in Carried(p) :
          /\ Access(p) \in jtis /\ Honoured(p)
          /\ Begin(r, "delete", "bump", p, jtis)

RevokeOwn(r) ==
    /\ pc[r] = "own"
    /\ \E S \in SUBSET todo[r] : (Lossy \/ S = todo[r]) /\ revoked' = revoked \cup S
    /\ todo' = [todo EXCEPT ![r] = {}]
    /\ Goto(r, "list")
    /\ UNCHANGED <<pgVars, mirror, userTokens, events, pairVars, epoch>>

(* Slip: logout as it was before F1, without the increment.                  *)
BumpOnlyOnDelete(r) ==
    /\ pc[r] = "bump"
    /\ deleted' = (deleted \/ kind[r] = "delete")
    /\ dbEpoch' = IF deleted' THEN dbEpoch + 1 ELSE dbEpoch
    /\ epoch' = [epoch EXCEPT ![r] = dbEpoch']
    /\ Goto(r, "mirror")
    /\ UNCHANGED <<redisVars, pairVars, todo>>

(* The durable increment.  A failed UPDATE is logged by logout, which still  *)
(* answers success; a failed deletion rolls back and returns 500.            *)
BumpUserTokenEpoch(r) ==
    /\ pc[r] = "bump"
    /\ dbEpoch' = dbEpoch + 1
    /\ deleted' = (deleted \/ kind[r] = "delete")
    /\ epoch' = [epoch EXCEPT ![r] = dbEpoch + 1]
    /\ Goto(r, "mirror")
    /\ UNCHANGED <<redisVars, pairVars, todo>>

(* A PostgreSQL call that returns an error ends its handler.                 *)
DbError(r) ==
    /\ DbFaults
    /\ pc[r] \in {"read", "bump"}
    /\ Return(r)
    /\ UNCHANGED <<pgVars, redisVars, pairVars>>

-----------------------------------------------------------------------------
(* Shared by several handlers.                                               *)

(* Slip: INCR instead of SET.                                                *)
incrEpochMirror(r) ==
    \/ mirror' = mirror + 1
    \/ Lossy /\ mirror' = mirror

(* setEpochMirror: best-effort SET of the epoch the handler read or wrote.   *)
setEpochMirror(r) ==
    \/ mirror' = epoch[r]
    \/ Lossy /\ mirror' = mirror

WriteMirror(r) ==
    /\ pc[r] = "mirror"
    /\ setEpochMirror(r)
    /\ \/ kind[r] = "login" /\ Goto(r, "issue") /\ UNCHANGED <<epoch, todo>>
       \/ kind[r] = "delete" /\ Goto(r, "own") /\ UNCHANGED <<epoch, todo>>
       \/ kind[r] \in {"refresh", "logout"} /\ Return(r)
    /\ UNCHANGED <<pgVars, revoked, userTokens, events, pairVars>>

(* SMEMBERS user_tokens:<user>.                                              *)
ListTokens(r) ==
    /\ pc[r] = "list"
    /\ todo' = [todo EXCEPT ![r] = userTokens]
    /\ Goto(r, "revoke")
    /\ UNCHANGED <<pgVars, redisVars, pairVars, epoch>>

ListTokensFails(r) ==
    /\ Lossy
    /\ pc[r] = "list"
    /\ \/ kind[r] = "logout" /\ Goto(r, "bump") /\ UNCHANGED <<epoch, todo>>
       \/ kind[r] # "logout" /\ Return(r)
    /\ UNCHANGED <<pgVars, redisVars, pairVars>>

RevokeOne(r) ==
    /\ pc[r] = "revoke"
    /\ \E j \in todo[r] :
          /\ \/ revoked' = revoked \cup {j}
             \/ Lossy /\ revoked' = revoked
          /\ todo' = [todo EXCEPT ![r] = @ \ {j}]
    /\ Goto(r, "revoke")
    /\ UNCHANGED <<pgVars, mirror, userTokens, events, pairVars, epoch>>

DropTokens ==
    \/ userTokens' = {}
    \/ Lossy /\ userTokens' = userTokens

(* Reuse detection records the event; the other two drop the set.            *)
RevokeDone(r) ==
    /\ pc[r] = "revoke" /\ todo[r] = {}
    /\ \/ /\ kind[r] = "refresh"
          /\ \/ events' = events \cup {familyOf[tok[r]]}
             \/ Lossy /\ events' = events
          /\ Return(r)
          /\ UNCHANGED userTokens
       \/ /\ kind[r] = "logout"
          /\ DropTokens
          /\ Goto(r, "bump")
          /\ UNCHANGED <<events, epoch, todo>>
       \/ /\ kind[r] = "delete"
          /\ DropTokens
          /\ Return(r)
          /\ UNCHANGED events
    /\ UNCHANGED <<pgVars, mirror, revoked, pairVars>>

(* Redis loses everything: a restart without persistence, FLUSHALL, or the   *)
(* eviction of the keys.                                                     *)
RedisFlush ==
    /\ mirror' = 0 /\ revoked' = {} /\ userTokens' = {} /\ events' = {}
    /\ UNCHANGED <<pgVars, pairVars, reqVars>>

-----------------------------------------------------------------------------
Arrive(r) == BeginLogin(r) \/ BeginRefresh(r) \/ BeginLogout(r) \/ BeginDelete(r)

Step(r) ==
    \/ LoginReadEpoch(r) \/ LoginIssue(r)
    \/ RefreshRead(r) \/ RefreshRotate(r) \/ RefreshRotateFails(r)
    \/ RefreshMint(r) \/ RefreshRegister(r)
    \/ RevokeOwn(r) \/ BumpUserTokenEpoch(r) \/ DbError(r)
    \/ WriteMirror(r) \/ ListTokens(r) \/ ListTokensFails(r)
    \/ RevokeOne(r) \/ RevokeDone(r)

Next == \E r \in Reqs : Arrive(r) \/ Step(r)
NextFlush == Next \/ RedisFlush

Spec == Init /\ [][Next]_vars
SpecFlush == Init /\ [][NextFlush]_vars

(* A handler that has begun keeps running: its goroutine is scheduled and    *)
(* every call it makes has a deadline.                                       *)
FairSpec == Spec /\ \A r \in Reqs : WF_vars(Step(r))

-----------------------------------------------------------------------------
(* A refresh that minted has a token no older than the epoch, and an account *)
(* not deleted, when it began: jwt.go promises that the path re-minting      *)
(* 30-day sessions refuses every token of a logged-out or deleted account    *)
(* "without depending on Redis".  Checked and proved under RedisFlush.       *)
DurableCutOff ==
    \A r \in Reqs : kind[r] = "refresh" /\ pc[r] \in {"rotate", "mint", "register"} =>
        ~begunDeleted[r] /\ epochOf[tok[r]] >= begunEpoch[r]

(* A refresh token is rotated at most once: of the requests presenting it at *)
(* most one mints or gets as far as minting, whatever the interleaving (the  *)
(* atomic script of jwt.go).                                                 *)
Minting(r) == kind[r] = "refresh" /\ pc[r] = "mint"

RefreshSingleUse ==
    /\ \A p, q \in Issued : parentOf[p] # None /\ parentOf[p] = parentOf[q] => p = q
    /\ \A r \in Reqs : Minting(r) =>
          /\ \A p \in Issued : parentOf[p] # tok[r]
          /\ \A s \in Reqs : Minting(s) /\ tok[s] = tok[r] => s = r

(* The mirror never runs ahead of the column, although handlers write back   *)
(* epochs they read long before: the hot path never rejects a token the      *)
(* durable store still accepts.                                              *)
MirrorNotAhead ==
    mirror <= dbEpoch /\ \A p \in Issued : epochOf[p] <= dbEpoch

(* With Redis and PostgreSQL answering, a refresh token that could still be  *)
(* rotated is either tracked in user_tokens, about to be revoked, or about   *)
(* to be outdated by a logout between its DEL and its UPDATE: the SMEMBERS / *)
(* DEL pair of logout and deletion never lets a session escape bulk          *)
(* revocation.                                                               *)
NoUntrackedSession ==
    \A p \in Held :
        \/ deleted \/ epochOf[p] < dbEpoch
        \/ Refresh(p) \in userTokens \cup revoked
        \/ \E r \in Reqs : Refresh(p) \in todo[r] \/ (kind[r] = "logout" /\ pc[r] = "bump")

(* A family never outlives an increment of the epoch: every pair of a chain  *)
(* of rotations carries the epoch of the login that started it, so after a   *)
(* logout or a deletion a session needs a new login.  Rotation reads the     *)
(* epoch, waits for Redis and mints later, and Redis may be flushed between. *)
FamilyKeepsEpoch ==
    \A p \in Issued : epochOf[p] = epochOf[familyOf[p]]

(* Tokens that were rotated, and tokens past the durable check whose         *)
(* rotation is not answered or refused yet.                                  *)
Spent == {p \in Pairs : \E q \in Issued : parentOf[q] = p}
Rotating(r) == kind[r] = "refresh" /\ pc[r] \in {"rotate", "mint"}
Admitted == {p \in Pairs : \E r \in Reqs : Rotating(r) /\ tok[r] = p}

(* However many refreshes race for the tokens of one login, the session has  *)
(* never more than one refresh token that was not rotated.                   *)
OneTokenPerSession ==
    \A p, q \in Issued \ Spent : familyOf[p] = familyOf[q] => p = q

(* Handlers that interleave between their calls to two stores do nothing a   *)
(* registry with one atomic step per operation would not do: what a refresh  *)
(* read in PostgreSQL and used after its round trips to Redis is still what  *)
(* the registry allows.                                                      *)
Registry == INSTANCE SessionRegistry WITH
    Tokens <- Pairs, NoToken <- None, era <- dbEpoch, closed <- deleted,
    issued <- Issued, spent <- Spent, eraOf <- epochOf, sessionOf <- familyOf,
    admitted <- Admitted
ImplementsRegistry ==
    Registry!RegistryInit /\ [][Registry!RegistryNext]_(Registry!registryVars)

(* A logout that has begun ends every session held before its UPDATE: the    *)
(* epoch leaves the pair behind, whatever else runs meanwhile.               *)
LogoutEndsSessions ==
    \A r \in Reqs, p \in Pairs :
        (kind[r] = "logout" /\ pc[r] # "mirror" /\ status[p] = "held")
            ~> (epochOf[p] < dbEpoch)

-----------------------------------------------------------------------------
(* What comments of the code say and the code does not do.                   *)

Quiet == \A r \in Reqs : pc[r] = "idle"

(* token_epoch.go: a token is only honoured while its epoch matches the      *)
(* user's current epoch.  Stated at rest: no handler is running.             *)
HonouredOnlyAtCurrentEpoch ==
    Quiet => \A p \in Pairs : Honoured(p) => epochOf[p] = dbEpoch

(* account.go: the bump in the deletion's transaction invalidates every      *)
(* token of the account, which can no longer mint sessions.                  *)
DeletedAccountHasNoCurrentToken ==
    deleted => \A p \in Held : epochOf[p] < dbEpoch

(* jwt.go: on concurrent reuse the entire token family is revoked.           *)
ReuseRevokesFamily ==
    \A p \in Held : familyOf[p] \in events => Refresh(p) \in revoked
=============================================================================
