------------------------------- MODULE SrpLogin -------------------------------
(***************************************************************************)
(* The SRP handshake and the account lockout of the API server              *)
(* (usbvault-server/internal/auth: srp.go, lockout.go), for one bucket, that *)
(* is one (email hash, client IP) pair: the lockout record is keyed by it.   *)
(*                                                                          *)
(* /srp/init reads the lockout record, sleeps the progressive delay inside   *)
(* its request context, looks the account up and stores a handshake session *)
(* (a decoy when the lookup fails).  /srp/verify reads the session, deletes  *)
(* it, reads the lockout record, checks the proof and records a failure or   *)
(* clears the record.  Each of these is a round trip of its own.  The group  *)
(* arithmetic is abstracted to whether the client's proof is right.  Minting *)
(* is TokenSessions' login.                                                 *)
(***************************************************************************)
EXTENDS Naturals, FiniteSets

CONSTANTS
    SrpReqs,         \* request slots
    Ids,          \* names for handshake sessions (random UUIDs)
    MaxAttempts,  \* maxAttempts of AccountLockoutService
    CtxTimeout,   \* srpContextTimeout, in seconds
    MaxDelay,     \* cap of the progressive delay, in seconds
    MaxRecorded,  \* bound on the recorded attempts
    Lossy,        \* TRUE: a call to Redis may fail; several errors are ignored
    NoSession          \* no session

ASSUME SrpNamesAssumption == NoSession \notin Ids /\ Lossy \in BOOLEAN
ASSUME SrpReqsAssumption == IsFiniteSet(SrpReqs) /\ SrpReqs # {}
ASSUME NumbersAssumption ==
    {MaxAttempts, CtxTimeout, MaxDelay, MaxRecorded} \subseteq Nat

VARIABLES
    account,    \* the row found by email hash: "absent", "active" or "rereg"
    attempts,   \* attempts of lockout:<email>:<ip>; 0 when there is no record
    locked,     \* locked_until lies in the future
    sessions,   \* srp:<id> entries: function from stored ids to "real" / "decoy"
    srpPc, sess,   \* control state of each request and the session it holds
    seen,       \* the kind of session it read
    late,       \* the context expired while the handler slept
    answered,   \* history: what /srp/init last answered to the request
    guesses,    \* history: proofs checked per session since it was stored, up to 2
    lateFails   \* history: proofs that failed since the bucket became locked

srpVars == <<account, attempts, locked, sessions, srpPc, sess, seen, late, answered, guesses, lateFails>>

SrpIdle(r) == srpPc[r] = "idle"
Stored == DOMAIN sessions
Fresh == {s \in Ids \ Stored : \A r \in SrpReqs : sess[r] # s}

(* The type invariant.                                                       *)
SrpTypeOK ==
    /\ account \in {"absent", "active", "rereg"}
    /\ attempts \in 0..MaxRecorded
    /\ locked \in BOOLEAN
    /\ Stored \subseteq Ids /\ \A s \in Stored : sessions[s] \in {"real", "decoy"}
    /\ srpPc \in [SrpReqs -> {"idle", "query", "delete", "check", "prove", "reset"}]
    /\ sess \in [SrpReqs -> Ids \cup {NoSession}]
    /\ seen \in [SrpReqs -> {"none", "real", "decoy"}]
    /\ late \in [SrpReqs -> BOOLEAN]
    /\ answered \in [SrpReqs -> {"none", "real", "decoy"}]
    /\ guesses \in [Ids -> 0..2]
    /\ lateFails \in Nat

SrpInit ==
    /\ account \in {"absent", "active", "rereg"}
    /\ attempts = 0 /\ locked = FALSE
    /\ sessions = <<>>
    /\ srpPc = [r \in SrpReqs |-> "idle"]
    /\ sess = [r \in SrpReqs |-> NoSession]
    /\ seen = [r \in SrpReqs |-> "none"]
    /\ late = [r \in SrpReqs |-> FALSE]
    /\ answered = [r \in SrpReqs |-> "none"]
    /\ guesses = [s \in Ids |-> 0]
    /\ lateFails = 0

-----------------------------------------------------------------------------
(* min(2^(n-1), 32) seconds after n failures.                                *)
GetProgressiveDelay(n) ==
    IF n = 0 THEN 0
    ELSE IF 2^(n - 1) > MaxDelay THEN MaxDelay ELSE 2^(n - 1)

(* SET and DEL of srp:<id>; neither result is looked at.                     *)
Store(s, k) ==
    \/ sessions' = [x \in Stored \cup {s} |-> IF x = s THEN k ELSE sessions[x]]
    \/ Lossy /\ sessions' = sessions

Drop(s) == sessions' = [x \in Stored \ {s} |-> sessions[x]]

Guessed(s) == guesses' = [guesses EXCEPT ![s] = IF @ < 2 THEN @ + 1 ELSE @]

SrpFinish(r) ==
    /\ srpPc' = [srpPc EXCEPT ![r] = "idle"]
    /\ sess' = [sess EXCEPT ![r] = NoSession]
    /\ seen' = [seen EXCEPT ![r] = "none"]
    /\ late' = [late EXCEPT ![r] = FALSE]

-----------------------------------------------------------------------------
(* HandleSRPInit.                                                            *)

(* CheckLockout: a locked bucket is answered 429; otherwise the handler      *)
(* sleeps, and its context runs meanwhile.                                   *)
InitCheck(r) ==
    /\ SrpIdle(r)
    /\ ~locked
    /\ srpPc' = [srpPc EXCEPT ![r] = "query"]
    /\ late' = [late EXCEPT ![r] = GetProgressiveDelay(attempts) >= CtxTimeout]
    /\ answered' = [answered EXCEPT ![r] = "none"]
    /\ UNCHANGED <<account, attempts, locked, sessions, sess, seen, guesses, lateFails>>

(* The row is found: a real session is stored, unless the account must       *)
(* register again (409).                                                     *)
InitFound(r) ==
    /\ srpPc[r] = "query" /\ ~late[r]
    /\ account # "absent"
    /\ \/ account = "rereg" /\ UNCHANGED <<sessions, guesses, answered>>
       \/ /\ account = "active"
          /\ \E s \in Fresh :
                Store(s, "real") /\ guesses' = [guesses EXCEPT ![s] = 0]
          /\ answered' = [answered EXCEPT ![r] = "real"]
    /\ SrpFinish(r)
    /\ UNCHANGED <<account, attempts, locked, lateFails>>

(* The SELECT returns an error.  Without a row the decoy is stored; with an  *)
(* expired context the SELECT fails whatever the row, and so does the SET.   *)
InitDecoy(r) ==
    /\ srpPc[r] = "query"
    /\ late[r] \/ account = "absent"
    /\ \/ late[r] /\ UNCHANGED <<sessions, guesses>>
       \/ /\ ~late[r]
          /\ \E s \in Fresh :
                Store(s, "decoy") /\ guesses' = [guesses EXCEPT ![s] = 0]
    /\ answered' = [answered EXCEPT ![r] = "decoy"]
    /\ SrpFinish(r)
    /\ UNCHANGED <<account, attempts, locked, lateFails>>

-----------------------------------------------------------------------------
(* HandleSRPVerify.                                                          *)

(* GET srp:<id>.                                                             *)
VerifyGet(r) ==
    /\ SrpIdle(r)
    /\ \E s \in Stored :
          /\ sess' = [sess EXCEPT ![r] = s]
          /\ seen' = [seen EXCEPT ![r] = sessions[s]]
    /\ srpPc' = [srpPc EXCEPT ![r] = "delete"]
    /\ UNCHANGED <<account, attempts, locked, sessions, late, answered, guesses, lateFails>>

(* DEL srp:<id>; a decoy has no user id and is refused.                      *)
VerifyDelete(r) ==
    /\ srpPc[r] = "delete"
    /\ Drop(sess[r]) \/ (Lossy /\ UNCHANGED sessions)
    /\ \/ seen[r] = "real" /\ srpPc' = [srpPc EXCEPT ![r] = "check"] /\ UNCHANGED <<sess, seen, late>>
       \/ seen[r] = "decoy" /\ SrpFinish(r)
    /\ UNCHANGED <<account, attempts, locked, answered, guesses, lateFails>>

(* Slip: the F2 check is missing, so banked sessions pass a locked bucket.   *)
VerifyUnchecked(r) ==
    /\ srpPc[r] = "check"
    /\ srpPc' = [srpPc EXCEPT ![r] = "prove"]
    /\ UNCHANGED <<account, attempts, locked, sessions, sess, seen, late, answered, guesses, lateFails>>

(* F2: CheckLockout again, so that banked sessions do not pass the lock; an  *)
(* error of the check is answered 500.                                       *)
VerifyCheck(r) ==
    /\ srpPc[r] = "check"
    /\ \/ (locked \/ Lossy) /\ SrpFinish(r)
       \/ ~locked /\ srpPc' = [srpPc EXCEPT ![r] = "prove"] /\ UNCHANGED <<sess, seen, late>>
    /\ UNCHANGED <<account, attempts, locked, sessions, answered, guesses, lateFails>>

(* The atomic script: count, and lock from MaxAttempts on.                   *)
RecordFailedAttempt ==
    /\ attempts' = attempts + 1
    /\ locked' = (locked \/ attempts + 1 >= MaxAttempts)

VerifyFails(r) ==
    /\ srpPc[r] = "prove"
    /\ attempts < MaxRecorded
    /\ RecordFailedAttempt \/ (Lossy /\ UNCHANGED <<attempts, locked>>)
    /\ lateFails' = IF locked THEN lateFails + 1 ELSE 0
    /\ Guessed(sess[r])
    /\ SrpFinish(r)
    /\ UNCHANGED <<account, sessions, answered>>

(* The proof is right: tokens are minted, then the record is deleted.        *)
VerifySucceeds(r) ==
    /\ srpPc[r] = "prove"
    /\ Guessed(sess[r])
    /\ srpPc' = [srpPc EXCEPT ![r] = "reset"]
    /\ UNCHANGED <<account, attempts, locked, sessions, sess, seen, late, answered, lateFails>>

(* Slip: a success takes one failure off the count.                          *)
ResetAttemptsByOne(r) ==
    /\ srpPc[r] = "reset"
    /\ attempts' = attempts - 1 /\ locked' = FALSE /\ lateFails' = 0
    /\ SrpFinish(r)
    /\ UNCHANGED <<account, sessions, answered, guesses>>

(* DEL of the record; an error is logged, and a failed mint never gets here. *)
ResetAttempts(r) ==
    /\ srpPc[r] = "reset"
    /\ \/ attempts' = 0 /\ locked' = FALSE /\ lateFails' = 0
       \/ Lossy /\ UNCHANGED <<attempts, locked, lateFails>>
    /\ SrpFinish(r)
    /\ UNCHANGED <<account, sessions, answered, guesses>>

-----------------------------------------------------------------------------
(* Time: lock_duration passes; the record expires after twice that without a *)
(* failure; a session expires after srpSessionTTL.                           *)

LockExpires ==
    /\ locked
    /\ locked' = FALSE /\ lateFails' = 0
    /\ UNCHANGED <<account, attempts, sessions, srpPc, sess, seen, late, answered, guesses>>

RecordExpires ==
    /\ attempts > 0 /\ ~locked
    /\ attempts' = 0
    /\ UNCHANGED <<account, locked, sessions, srpPc, sess, seen, late, answered, guesses, lateFails>>

SessionExpires ==
    /\ \E s \in Stored : Drop(s)
    /\ UNCHANGED <<account, attempts, locked, srpPc, sess, seen, late, answered, guesses, lateFails>>

SrpHandle(r) ==
    \/ InitCheck(r) \/ InitFound(r) \/ InitDecoy(r)
    \/ VerifyGet(r) \/ VerifyDelete(r) \/ VerifyCheck(r)
    \/ VerifyFails(r) \/ VerifySucceeds(r) \/ ResetAttempts(r)

SrpNext == (\E r \in SrpReqs : SrpHandle(r)) \/ LockExpires \/ RecordExpires \/ SessionExpires

SrpSpec == SrpInit /\ [][SrpNext]_srpVars

-----------------------------------------------------------------------------
(* The lock bounds password guessing although check and record are separate  *)
(* round trips and sessions can be banked: once the bucket is locked, at     *)
(* most the requests that had already passed the check still get a proof     *)
(* evaluated, one each.                                                      *)
LockBoundsGuesses ==
    lateFails + Cardinality({r \in SrpReqs : locked /\ srpPc[r] = "prove"}) < Cardinality(SrpReqs)

(* srp.go: the session is deleted immediately to prevent replay.             *)
SessionUsedOnce == \A s \in Ids : guesses[s] <= 1

(* srp.go: the decoy answer stands for an account that does not exist.       *)
DecoyOnlyForMissingAccount ==
    \A r \in SrpReqs : answered[r] = "decoy" => account = "absent"
=============================================================================
