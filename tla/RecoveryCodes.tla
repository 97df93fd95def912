---------------------------- MODULE RecoveryCodes ----------------------------
(***************************************************************************)
(* Recovery codes of one account and the re-registration they authorise     *)
(* (usbvault-server/internal/recovery, internal/auth/reregistration.go and   *)
(* register.go).  The table holds at most one row per (user, index).        *)
(* Generation deletes the rows and inserts the new ones statement by         *)
(* statement, without a transaction; /recovery/verify selects the unused     *)
(* rows and marks the match in a second statement; re-registration consumes  *)
(* the match and swaps the SRP verifier in one transaction, whose UPDATE     *)
(* holds the row until it commits, so the consumption and the swap are one   *)
(* step.  A code is named by its batch and index; hashing is injective.      *)
(***************************************************************************)
EXTENDS Naturals, FiniteSets

CONSTANTS
    RecoveryReqs,      \* request slots
    Batches,   \* names for generated sets of codes
    NumCodes,  \* NumRecoveryCodes
    DbFaults,  \* TRUE: a statement may fail for want of the database
    NoBatch       \* no row, no batch, no code

ASSUME NumCodesAssumption == NumCodes \in Nat \ {0}
ASSUME RecoveryReqsAssumption == IsFiniteSet(RecoveryReqs)

Indices == 0..(NumCodes - 1)
Codes == Batches \X Indices

ASSUME RecoveryNamesAssumption == NoBatch \notin Batches \cup Codes /\ DbFaults \in BOOLEAN

VARIABLES
    rows,      \* recovery_codes: the code stored at each index
    used,      \* codes whose row has used_at set
    flagged,   \* users.srp_needs_reregistration
    verifier,  \* number of times the SRP verifier was replaced
    recoveryPc, batch, next, pick,  \* locals of each request
    started,   \* batches already drawn
    returned,  \* history: batch of the last generation answered 201
    acceptedCodes,  \* history: how often each code was answered valid
    burned     \* history: codes consumed by a re-registration

locals == <<recoveryPc, batch, next, pick>>
history == <<started, returned, acceptedCodes, burned>>
recoveryVars == <<rows, used, flagged, verifier, locals, history>>

(* The type invariant.                                                       *)
RecoveryTypeOK ==
    /\ rows \in [Indices -> Codes \cup {NoBatch}]
    /\ used \subseteq Codes
    /\ flagged \in BOOLEAN /\ verifier \in Nat
    /\ recoveryPc \in [RecoveryReqs -> {"idle", "insert", "mark", "consume"}]
    /\ batch \in [RecoveryReqs -> Batches \cup {NoBatch}]
    /\ next \in [RecoveryReqs -> Indices]
    /\ pick \in [RecoveryReqs -> Codes \cup {NoBatch}]
    /\ started \subseteq Batches /\ returned \in Batches \cup {NoBatch}
    /\ acceptedCodes \in [Codes -> Nat] /\ burned \subseteq Codes

RecoveryInit ==
    /\ rows = [i \in Indices |-> NoBatch]
    /\ used = {}
    /\ flagged \in BOOLEAN /\ verifier = 0
    /\ recoveryPc = [r \in RecoveryReqs |-> "idle"]
    /\ batch = [r \in RecoveryReqs |-> NoBatch]
    /\ next = [r \in RecoveryReqs |-> 0]
    /\ pick = [r \in RecoveryReqs |-> NoBatch]
    /\ started = {} /\ returned = NoBatch
    /\ acceptedCodes = [c \in Codes |-> 0]
    /\ burned = {}

Present(c) == rows[c[2]] = c
Unused == {c \in Codes : Present(c) /\ c \notin used}

RecoveryFinish(r) ==
    /\ recoveryPc' = [recoveryPc EXCEPT ![r] = "idle"]
    /\ batch' = [batch EXCEPT ![r] = NoBatch]
    /\ next' = [next EXCEPT ![r] = 0]
    /\ pick' = [pick EXCEPT ![r] = NoBatch]

Hold(r, c, l) ==
    /\ recoveryPc' = [recoveryPc EXCEPT ![r] = l]
    /\ pick' = [pick EXCEPT ![r] = c]
    /\ UNCHANGED <<batch, next>>

-----------------------------------------------------------------------------
(* HandleGenerateCodes: DELETE, then one INSERT per index.                   *)

GenerateDelete(r) ==
    /\ recoveryPc[r] = "idle"
    /\ rows' = [i \in Indices |-> NoBatch]
    /\ \E b \in Batches \ started :
          /\ batch' = [batch EXCEPT ![r] = b]
          /\ started' = started \cup {b}
    /\ recoveryPc' = [recoveryPc EXCEPT ![r] = "insert"]
    /\ UNCHANGED <<used, flagged, verifier, next, pick, returned, acceptedCodes, burned>>

GenerateInsert(r) ==
    /\ recoveryPc[r] = "insert"
    /\ rows[next[r]] = NoBatch
    /\ rows' = [rows EXCEPT ![next[r]] = <<batch[r], next[r]>>]
    /\ \/ next[r] < NumCodes - 1 /\ next' = [next EXCEPT ![r] = @ + 1]
          /\ UNCHANGED <<recoveryPc, batch, pick, returned>>
       \/ next[r] = NumCodes - 1 /\ returned' = batch[r] /\ RecoveryFinish(r)
    /\ UNCHANGED <<used, flagged, verifier, started, acceptedCodes, burned>>

(* The INSERT hits UNIQUE(user_id, code_index), or fails: the handler        *)
(* answers 500 and leaves the rows as they are.                              *)
GenerateFails(r) ==
    /\ recoveryPc[r] = "insert"
    /\ rows[next[r]] # NoBatch \/ DbFaults
    /\ RecoveryFinish(r)
    /\ UNCHANGED <<rows, used, flagged, verifier, history>>

-----------------------------------------------------------------------------
(* HandleVerifyCode: the match is marked by row id without a guard, and the  *)
(* answer does not depend on the number of rows the UPDATE touched.          *)
(* The UPDATE may fail, or the count of the codes left after it: 500.        *)

VerifySelect(r) ==
    /\ recoveryPc[r] = "idle"
    /\ \E c \in Unused : Hold(r, c, "mark")
    /\ UNCHANGED <<rows, used, flagged, verifier, history>>

(* Slip: the code is answered valid and its row is not marked.               *)
VerifyMarkForgets(r) ==
    /\ recoveryPc[r] = "mark"
    /\ \/ acceptedCodes' = [acceptedCodes EXCEPT ![pick[r]] = @ + 1]
       \/ DbFaults /\ UNCHANGED acceptedCodes
    /\ RecoveryFinish(r)
    /\ UNCHANGED <<rows, used, flagged, verifier, started, returned, burned>>

VerifyMark(r) ==
    /\ recoveryPc[r] = "mark"
    /\ \/ /\ used' = IF Present(pick[r]) THEN used \cup {pick[r]} ELSE used
          /\ \/ acceptedCodes' = [acceptedCodes EXCEPT ![pick[r]] = @ + 1]
             \/ DbFaults /\ UNCHANGED acceptedCodes
       \/ DbFaults /\ UNCHANGED <<used, acceptedCodes>>
    /\ RecoveryFinish(r)
    /\ UNCHANGED <<rows, flagged, verifier, started, returned, burned>>

-----------------------------------------------------------------------------
(* Re-registration of a flagged account: verifyAndConsumeRecoveryCode and    *)
(* the UPDATE of users, in one transaction.  The flag is read by a query of  *)
(* its own before the transaction; it is one step here with the SELECT of    *)
(* the codes, and the commit does not look at it again.                      *)

ReRegisterSelect(r) ==
    /\ recoveryPc[r] = "idle"
    /\ flagged
    /\ \E c \in Unused : Hold(r, c, "consume")
    /\ UNCHANGED <<rows, used, flagged, verifier, history>>

(* Slip: the UPDATE without "AND used_at IS NULL".                           *)
ConsumeUnguarded(r) == Present(pick[r])

(* The guarded UPDATE touches the row: it is still there and unused.         *)
Consumable(r) == Present(pick[r]) /\ pick[r] \notin used

ReRegisterCommit(r) ==
    /\ recoveryPc[r] = "consume"
    /\ Consumable(r)
    /\ used' = used \cup {pick[r]}
    /\ burned' = burned \cup {pick[r]}
    /\ acceptedCodes' = [acceptedCodes EXCEPT ![pick[r]] = @ + 1]
    /\ verifier' = verifier + 1
    /\ flagged' = FALSE
    /\ RecoveryFinish(r)
    /\ UNCHANGED <<rows, started, returned>>

(* RowsAffected is 0, or a statement fails: rollback, nothing consumed.      *)
ReRegisterReject(r) ==
    /\ recoveryPc[r] = "consume"
    /\ ~Consumable(r) \/ DbFaults
    /\ RecoveryFinish(r)
    /\ UNCHANGED <<rows, used, flagged, verifier, history>>

RecoveryHandle(r) ==
    \/ GenerateDelete(r) \/ GenerateInsert(r) \/ GenerateFails(r)
    \/ VerifySelect(r) \/ VerifyMark(r)
    \/ ReRegisterSelect(r) \/ ReRegisterCommit(r) \/ ReRegisterReject(r)

RecoveryNext == \E r \in RecoveryReqs : RecoveryHandle(r)

RecoverySpec == RecoveryInit /\ [][RecoveryNext]_recoveryVars

-----------------------------------------------------------------------------
(* register.go: a verifier is never reset without burning a code.  Each      *)
(* replacement of the verifier has consumed a code of its own, whatever      *)
(* verifications, generations and other re-registrations run beside it.      *)
OneCodePerReset == verifier = Cardinality(burned)

(* The requests that have selected a code as unused and not marked it yet.   *)
Holders(c) == {r \in RecoveryReqs : recoveryPc[r] \in {"mark", "consume"} /\ pick[r] = c}

(* The SELECT and the UPDATE of a verification are two statements, and one   *)
(* code may be accepted more than once; but only by requests that had        *)
(* selected it before it was first accepted.  With those still under way, a  *)
(* code is accepted at most as often as there are requests at a time,        *)
(* however codes are generated, deleted and inserted again meanwhile.        *)
ReuseBounded ==
    \A c \in Codes :
        acceptedCodes[c] + Cardinality(Holders(c)) <= Cardinality(RecoveryReqs)

(* service.go: a code is answered valid only if valid and unused, so once.   *)
CodeAcceptedOnce == \A c \in Codes : acceptedCodes[c] <= 1

RecoveryQuiet == \A r \in RecoveryReqs : recoveryPc[r] = "idle"

(* handlers.go: old codes are deleted and replaced with the new ones the     *)
(* response returns.  At rest the table holds the last returned set.         *)
ReturnedCodesStored ==
    RecoveryQuiet /\ returned # NoBatch => \A i \in Indices : rows[i] = <<returned, i>>
=============================================================================
