----------------------------- MODULE SigningKeys -----------------------------
(***************************************************************************)
(* JWT signing keys and their rotation over the instances of the API server  *)
(* (usbvault-server/internal/auth/key_rotation.go and the key handling of    *)
(* jwt.go).  The table jwt_signing_keys is shared; each instance keeps in    *)
(* memory its active key, a cache of verification keys that is filled at     *)
(* start-up and by its own rotations only, and the global private key that   *)
(* minting copies before it asks for the kid.                                *)
(*                                                                          *)
(* Keys are numbered in the order of their INSERT, so the newest active key  *)
(* is the largest.  Time is counted in months: a refresh token lives         *)
(* TokenLife months and CleanupExpiredKeys deletes keys rotated KeepMonths   *)
(* ago.  RotateKey holds the service's lock throughout; GetActiveKID and     *)
(* GetVerificationKey wait for it.  RevokeKey has no caller and is left out. *)
(***************************************************************************)
EXTENDS Naturals, FiniteSets

CONSTANTS
    Insts,        \* server instances
    MaxKeys,      \* bound on the keys ever generated
    MaxMonth,     \* bound on time
    TokenLife,    \* refreshTokenTTL, in months
    KeepMonths,   \* retention of rotated keys, in months
    TickMonths,   \* interval of StartAutoRotation, in months
    MaxFaults     \* bound on the statements of rotations and cleanups that fail

ASSUME InstsAssumption == IsFiniteSet(Insts)
ASSUME BoundsAssumption ==
    {MaxKeys, MaxMonth, TokenLife, KeepMonths, TickMonths, MaxFaults} \subseteq Nat

(* A refresh token expires before the cleanup takes its key, and before the  *)
(* next tick.                                                                *)
ASSUME LifetimesAssumption == TokenLife < KeepMonths /\ TokenLife < TickMonths

KeyIds == 1..MaxKeys
NoKey == 0

VARIABLES
    keyStatus,   \* jwt_signing_keys.status; "none" before, "gone" after the row
    rotatedAt,   \* jwt_signing_keys.rotated_at, in months
    month,       \* the clock
    up,          \* control state of each instance's service
    lastTick,    \* month of the start, or of the ticker's last tick
    sweep,       \* the ticker still has to run CleanupExpiredKeys
    activeKey,   \* activeKey of each instance
    keyCache,    \* keyCache of each instance: the kids it can verify
    privKey,     \* jwtPrivateKey of each instance
    mint,        \* control state of the instance's minting request
    copied,      \* the private key the minting request copied
    tokens,      \* tokens: the key named by kid, the key that signed, the month
    faults       \* failed statements so far

dbVars == <<keyStatus, rotatedAt>>
mintVars == <<mint, copied>>
ticker == <<lastTick, sweep>>
signingVars == <<dbVars, month, up, ticker, activeKey, keyCache, privKey, mintVars, tokens, faults>>

Tokens == [kid : KeyIds, signed : KeyIds, at : 0..MaxMonth]

(* The type invariant.                                                       *)
SigningTypeOK ==
    /\ keyStatus \in [KeyIds -> {"none", "active", "rotated", "gone"}]
    /\ rotatedAt \in [KeyIds -> 0..MaxMonth]
    /\ month \in 0..MaxMonth
    /\ up \in [Insts -> {"down", "loading", "running", "rotating"}]
    /\ lastTick \in [Insts -> 0..MaxMonth] /\ sweep \in [Insts -> BOOLEAN]
    /\ activeKey \in [Insts -> KeyIds \cup {NoKey}]
    /\ keyCache \in [Insts -> SUBSET KeyIds]
    /\ privKey \in [Insts -> KeyIds \cup {NoKey}]
    /\ mint \in [Insts -> {"idle", "access", "refresh"}]
    /\ copied \in [Insts -> KeyIds \cup {NoKey}]
    /\ tokens \subseteq Tokens
    /\ faults \in 0..MaxFaults

(* The table is empty, or an earlier deployment left an active key.          *)
SigningInit ==
    /\ \E s \in {"none", "active"} :
          keyStatus = [k \in KeyIds |-> IF k = 1 THEN s ELSE "none"]
    /\ rotatedAt = [k \in KeyIds |-> 0]
    /\ month = 0
    /\ up = [i \in Insts |-> "down"]
    /\ lastTick = [i \in Insts |-> 0] /\ sweep = [i \in Insts |-> FALSE]
    /\ activeKey = [i \in Insts |-> NoKey]
    /\ keyCache = [i \in Insts |-> {}]
    /\ privKey = [i \in Insts |-> NoKey]
    /\ mint = [i \in Insts |-> "idle"]
    /\ copied = [i \in Insts |-> NoKey]
    /\ tokens = {}
    /\ faults = 0

-----------------------------------------------------------------------------
With(s) == {k \in KeyIds : keyStatus[k] = s}
Newest(S) == CHOOSE k \in S : \A j \in S : j <= k
Fault == faults < MaxFaults /\ faults' = faults + 1
NextKey == CHOOSE k \in With("none") : \A j \in With("none") : k <= j

(* A rotation begins only if a number is left for its key, and for those of  *)
(* the rotations and start-ups under way.                                    *)
KeyLeft ==
    Cardinality(With("none")) > Cardinality({i \in Insts : up[i] \in {"loading", "rotating"}})

(* generateAndStoreKey: INSERT, then the active key, the cache and, under    *)
(* jwtKeyMu, the globals.                                                    *)
generateAndStoreKey(i) ==
    LET k == NextKey IN
    /\ keyStatus' = [keyStatus EXCEPT ![k] = "active"]
    /\ activeKey' = [activeKey EXCEPT ![i] = k]
    /\ keyCache' = [keyCache EXCEPT ![i] = @ \cup {k}]
    /\ privKey' = [privKey EXCEPT ![i] = k]
    /\ up' = [up EXCEPT ![i] = "running"]
    /\ UNCHANGED <<rotatedAt, month, ticker, mintVars, tokens, faults>>

(* Slip: start-up loads the active keys only.                                *)
InitializeActiveOnly(i) ==
    /\ up[i] = "down"
    /\ lastTick' = [lastTick EXCEPT ![i] = month]
    /\ keyCache' = [keyCache EXCEPT ![i] = With("active")]
    /\ \/ /\ With("active") # {}
          /\ activeKey' = [activeKey EXCEPT ![i] = Newest(With("active"))]
          /\ privKey' = [privKey EXCEPT ![i] = Newest(With("active"))]
          /\ up' = [up EXCEPT ![i] = "running"]
       \/ /\ With("active") = {} /\ KeyLeft
          /\ up' = [up EXCEPT ![i] = "loading"]
          /\ UNCHANGED <<activeKey, privKey>>
    /\ UNCHANGED <<dbVars, month, sweep, mintVars, tokens, faults>>

(* Initialize: load the active and rotated keys; the newest active one signs. *)
Initialize(i) ==
    /\ up[i] = "down"
    /\ lastTick' = [lastTick EXCEPT ![i] = month]
    /\ keyCache' = [keyCache EXCEPT ![i] = With("active") \cup With("rotated")]
    /\ \/ /\ With("active") # {}
          /\ activeKey' = [activeKey EXCEPT ![i] = Newest(With("active"))]
          /\ privKey' = [privKey EXCEPT ![i] = Newest(With("active"))]
          /\ up' = [up EXCEPT ![i] = "running"]
       \/ /\ With("active") = {} /\ KeyLeft
          /\ up' = [up EXCEPT ![i] = "loading"]
          /\ UNCHANGED <<activeKey, privKey>>
    /\ UNCHANGED <<dbVars, month, sweep, mintVars, tokens, faults>>

(* ... and without an active key a first one is generated.                   *)
InitializeGenerate(i) ==
    /\ up[i] = "loading"
    /\ generateAndStoreKey(i)

(* Slip: the key is marked rotated in memory, its row stays active.          *)
RotateMarkInMemory(i) ==
    /\ up[i] = "running" /\ KeyLeft
    /\ up' = [up EXCEPT ![i] = "rotating"]
    /\ \/ UNCHANGED ticker
       \/ /\ month - lastTick[i] >= TickMonths
          /\ lastTick' = [lastTick EXCEPT ![i] = month]
          /\ sweep' = [sweep EXCEPT ![i] = TRUE]
    /\ UNCHANGED <<dbVars, month, activeKey, keyCache, privKey, mintVars, tokens, faults>>

(* RotateKey, by the ticker or the admin route: first the old row is marked. *)
(* The ticker's goroutine runs the cleanup after it, rotated or not.         *)
RotateMark(i) ==
    /\ up[i] = "running" /\ KeyLeft
    /\ keyStatus' = [keyStatus EXCEPT ![activeKey[i]] = IF @ = "gone" THEN @ ELSE "rotated"]
    /\ rotatedAt' = [rotatedAt EXCEPT ![activeKey[i]] = month]
    /\ up' = [up EXCEPT ![i] = "rotating"]
    /\ \/ UNCHANGED ticker
       \/ /\ month - lastTick[i] >= TickMonths
          /\ lastTick' = [lastTick EXCEPT ![i] = month]
          /\ sweep' = [sweep EXCEPT ![i] = TRUE]
    /\ UNCHANGED <<month, activeKey, keyCache, privKey, mintVars, tokens, faults>>

(* The UPDATE fails: RotateKey returns its error, the ticker goes on.        *)
RotateMarkFails(i) ==
    /\ Fault
    /\ up[i] = "running" /\ month - lastTick[i] >= TickMonths
    /\ lastTick' = [lastTick EXCEPT ![i] = month]
    /\ sweep' = [sweep EXCEPT ![i] = TRUE]
    /\ UNCHANGED <<dbVars, month, up, activeKey, keyCache, privKey, mintVars, tokens>>

RotateStore(i) ==
    /\ up[i] = "rotating"
    /\ generateAndStoreKey(i)

(* The INSERT fails: the rotated key stays the active key in memory.         *)
RotateStoreFails(i) ==
    /\ Fault
    /\ up[i] = "rotating"
    /\ up' = [up EXCEPT ![i] = "running"]
    /\ UNCHANGED <<dbVars, month, ticker, activeKey, keyCache, privKey, mintVars, tokens>>

Due(k) == keyStatus[k] = "rotated" /\ month - rotatedAt[k] >= KeepMonths

(* Slip: rotated keys go at once, whatever their age.                        *)
CleanupTooEarly(i) ==
    /\ up[i] = "running" /\ sweep[i]
    /\ keyStatus' = [k \in KeyIds |-> IF keyStatus[k] = "rotated" THEN "gone" ELSE keyStatus[k]]
    /\ sweep' = [sweep EXCEPT ![i] = FALSE]
    /\ UNCHANGED <<rotatedAt, month, up, lastTick, activeKey, keyCache, privKey, mintVars, tokens, faults>>

(* CleanupExpiredKeys deletes rows, or fails; the caches keep their entries. *)
CleanupExpiredKeys(i) ==
    /\ up[i] = "running" /\ sweep[i]
    /\ \/ /\ keyStatus' = [k \in KeyIds |-> IF Due(k) THEN "gone" ELSE keyStatus[k]]
          /\ UNCHANGED faults
       \/ Fault /\ UNCHANGED keyStatus
    /\ sweep' = [sweep EXCEPT ![i] = FALSE]
    /\ UNCHANGED <<rotatedAt, month, up, lastTick, activeKey, keyCache, privKey, mintVars, tokens>>

-----------------------------------------------------------------------------
(* GenerateTokenPairWithEpoch: copy the private key under jwtKeyMu, then     *)
(* read the active kid for each of the two tokens.                           *)

MintCopy(i) ==
    /\ up[i] \in {"running", "rotating"} /\ mint[i] = "idle"
    /\ copied' = [copied EXCEPT ![i] = privKey[i]]
    /\ mint' = [mint EXCEPT ![i] = "access"]
    /\ UNCHANGED <<dbVars, month, up, ticker, activeKey, keyCache, privKey, tokens, faults>>

MintSign(i) ==
    /\ up[i] = "running" /\ mint[i] # "idle"
    /\ tokens' = tokens \cup {[kid |-> activeKey[i], signed |-> copied[i], at |-> month]}
    /\ \/ mint[i] = "access" /\ mint' = [mint EXCEPT ![i] = "refresh"] /\ UNCHANGED copied
       \/ mint[i] = "refresh" /\ mint' = [mint EXCEPT ![i] = "idle"]
          /\ copied' = [copied EXCEPT ![i] = NoKey]
    /\ UNCHANGED <<dbVars, month, up, ticker, activeKey, keyCache, privKey, faults>>

-----------------------------------------------------------------------------
Expired(t, now) == now - t.at > TokenLife

(* A month passes; handlers under way do not last that long, and a tick that *)
(* is due is not missed.  Expired tokens are forgotten.                      *)
Tick ==
    /\ month < MaxMonth
    /\ \A i \in Insts :
          /\ mint[i] = "idle" /\ up[i] \in {"running", "down"} /\ ~sweep[i]
          /\ up[i] = "running" => month - lastTick[i] < TickMonths
    /\ month' = month + 1
    /\ tokens' = {t \in tokens : ~Expired(t, month + 1)}
    /\ UNCHANGED <<dbVars, up, ticker, activeKey, keyCache, privKey, mintVars, faults>>

(* The process dies, also in the middle of a rotation or of minting.         *)
Crash(i) ==
    /\ up[i] # "down"
    /\ up' = [up EXCEPT ![i] = "down"]
    /\ sweep' = [sweep EXCEPT ![i] = FALSE]
    /\ activeKey' = [activeKey EXCEPT ![i] = NoKey]
    /\ keyCache' = [keyCache EXCEPT ![i] = {}]
    /\ privKey' = [privKey EXCEPT ![i] = NoKey]
    /\ mint' = [mint EXCEPT ![i] = "idle"]
    /\ copied' = [copied EXCEPT ![i] = NoKey]
    /\ UNCHANGED <<dbVars, month, lastTick, tokens, faults>>

SigningNext ==
    \/ \E i \in Insts :
          \/ Initialize(i) \/ InitializeGenerate(i)
          \/ RotateMark(i) \/ RotateMarkFails(i)
          \/ RotateStore(i) \/ RotateStoreFails(i)
          \/ CleanupExpiredKeys(i)
          \/ MintCopy(i) \/ MintSign(i)
          \/ Crash(i)
    \/ Tick

SigningSpec == SigningInit /\ [][SigningNext]_signingVars

-----------------------------------------------------------------------------
(* ValidateToken on instance i, up to the kid lookup.                        *)
Verifies(i, t) == t.kid \in keyCache[i] /\ t.kid = t.signed

Sound(t) == t.kid = t.signed

(* key_rotation.go: rotated keys remain in the database for verification.    *)
(* The row of a key is deleted only when every token it signed has expired,  *)
(* although the key signs until its rotation completes, and on when the      *)
(* INSERT fails.  One failed statement is tolerated; a failed INSERT and, a  *)
(* tick later, a failed UPDATE let the cleanup delete a key still in use.    *)
KeyOutlivesTokens ==
    \A t \in tokens : Sound(t) => keyStatus[t.kid] \in {"active", "rotated"}

(* A running instance verifies every unexpired token, whatever rotations,    *)
(* crashes between the two statements of a rotation, and restarts preceded.  *)
RestartVerifies ==
    \A i \in Insts : up[i] = "running" => \A t \in tokens : Sound(t) => Verifies(i, t)

(* SECURITY.md: rotation is transparent, new tokens are issued with the new  *)
(* kid and refresh tokens work as expected, on every replica.                *)
RotationTransparent == RestartVerifies

(* jwt.go: the mutex protects the keys during rotation.  A token is signed   *)
(* by the key its kid names.                                                 *)
KidNamesSigner == \A t \in tokens : t.kid = t.signed

(* What is left of that promise: only a request that was under way when a    *)
(* rotation ended misnames its key.  The signer of such a token has been     *)
(* retired by then and the kid is that of a later key, so the key in use     *)
(* signs nothing under another name; and the next request of a running       *)
(* instance copies the key whose kid it will read.                           *)
WrongKidIsRetired ==
    /\ \A t \in tokens : t.kid # t.signed =>
          t.signed < t.kid /\ keyStatus[t.signed] \in {"rotated", "gone"}
    /\ \A i \in Insts : up[i] = "running" => privKey[i] = activeKey[i]
=============================================================================
