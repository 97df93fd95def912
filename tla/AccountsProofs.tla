---------------------------- MODULE AccountsProofs ----------------------------
(***************************************************************************)
(* Proofs about the components of MCAccounts: SrpLogin, RecoveryCodes and    *)
(* SigningKeys, for any sets of requests, names and instances.              *)
(***************************************************************************)
EXTENDS MCAccounts, FiniteSetTheorems, WellFoundedInduction, TLAPS

-----------------------------------------------------------------------------
(* RecoveryCodes.                                                            *)

(* A handler between its statements holds what the first one gave it.        *)
HoldsOK ==
    \A r \in RecoveryReqs :
        /\ recoveryPc[r] = "insert" => batch[r] \in Batches
        /\ recoveryPc[r] \in {"mark", "consume"} => pick[r] \in Codes

(* Rows are never unmarked, so a burned code cannot be consumed again.       *)
BurnedOnce == IsFiniteSet(burned) /\ burned \subseteq used /\ OneCodePerReset

RecoveryInv == RecoveryTypeOK /\ HoldsOK /\ BurnedOnce

(* No row, no request and no burned code at the start.                       *)
LEMMA RecoveryInvInit == RecoveryInit => RecoveryInv
<1> SUFFICES ASSUME RecoveryInit PROVE RecoveryInv
  OBVIOUS
<1>1. 0 \in Indices
  BY NumCodesAssumption DEF Indices
<1>2. RecoveryTypeOK
  BY <1>1 DEF RecoveryInit, RecoveryTypeOK
<1>3. HoldsOK
  BY DEF RecoveryInit, HoldsOK
<1>4. BurnedOnce
  BY FS_EmptySet DEF RecoveryInit, BurnedOnce, OneCodePerReset
<1> QED BY <1>2, <1>3, <1>4 DEF RecoveryInv

(* The end of a handler clears its locals.                                   *)
LEMMA RecoveryFinishOK ==
  ASSUME RecoveryInv, NEW r \in RecoveryReqs, RecoveryFinish(r)
  PROVE  /\ recoveryPc' \in [RecoveryReqs -> {"idle", "insert", "mark", "consume"}]
         /\ batch' \in [RecoveryReqs -> Batches \cup {NoBatch}]
         /\ next' \in [RecoveryReqs -> Indices]
         /\ pick' \in [RecoveryReqs -> Codes \cup {NoBatch}]
         /\ HoldsOK'
<1>1. 0 \in Indices
  BY NumCodesAssumption DEF Indices
<1> QED BY <1>1 DEF RecoveryInv, RecoveryTypeOK, HoldsOK, RecoveryFinish

(* Every statement of every handler preserves the invariant.                 *)
LEMMA RecoveryInvStep ==
  ASSUME RecoveryInv, NEW r \in RecoveryReqs, RecoveryHandle(r)
  PROVE  RecoveryInv'
<1> USE DEF RecoveryInv, locals, history
<1>1. CASE GenerateDelete(r)
  <2> USE <1>1 DEF GenerateDelete
  <2>1. RecoveryTypeOK'
    BY DEF RecoveryTypeOK
  <2>2. HoldsOK'
    BY DEF RecoveryTypeOK, HoldsOK
  <2>3. BurnedOnce'
    BY DEF BurnedOnce, OneCodePerReset
  <2> QED BY <2>1, <2>2, <2>3
<1>2. CASE GenerateInsert(r)
  <2> USE <1>2 DEF GenerateInsert
  <2>1. rows' \in [Indices -> Codes \cup {NoBatch}] /\ returned' \in Batches \cup {NoBatch}
    BY DEF RecoveryTypeOK, HoldsOK, Codes
  <2>2. BurnedOnce'
    BY DEF BurnedOnce, OneCodePerReset
  <2>3. CASE RecoveryFinish(r)
    BY <2>1, <2>2, <2>3, RecoveryFinishOK DEF RecoveryTypeOK
  <2>4. CASE next[r] < NumCodes - 1 /\ next' = [next EXCEPT ![r] = @ + 1]
             /\ UNCHANGED <<recoveryPc, batch, pick, returned>>
    <3>1. next' \in [RecoveryReqs -> Indices]
      BY <2>4, NumCodesAssumption DEF RecoveryTypeOK, Indices
    <3> QED BY <2>1, <2>2, <2>4, <3>1 DEF RecoveryTypeOK, HoldsOK
  <2> QED BY <2>3, <2>4
<1>3. CASE GenerateFails(r)
  BY <1>3, RecoveryFinishOK DEF GenerateFails, RecoveryTypeOK, BurnedOnce, OneCodePerReset
<1>4. ASSUME NEW c \in Unused, NEW l \in {"mark", "consume"}, Hold(r, c, l),
             UNCHANGED <<rows, used, flagged, verifier, history>>
      PROVE  RecoveryInv'
  BY <1>4 DEF Hold, Unused, RecoveryTypeOK, HoldsOK, BurnedOnce, OneCodePerReset
<1>5. CASE VerifySelect(r)
  BY <1>4, <1>5 DEF VerifySelect
<1>6. CASE ReRegisterSelect(r)
  BY <1>4, <1>6 DEF ReRegisterSelect
<1>7. CASE VerifyMark(r)
  <2> USE <1>7 DEF VerifyMark
  <2>1. pick[r] \in Codes
    BY DEF HoldsOK
  <2>2. used \subseteq used' /\ used' \subseteq Codes
    BY <2>1 DEF RecoveryTypeOK
  <2>3. acceptedCodes' \in [Codes -> Nat]
    BY <2>1 DEF RecoveryTypeOK
  <2>4. BurnedOnce'
    BY <2>2 DEF BurnedOnce, OneCodePerReset
  <2> QED BY <2>2, <2>3, <2>4, RecoveryFinishOK DEF RecoveryTypeOK
<1>8. CASE ReRegisterCommit(r)
  <2> USE <1>8 DEF ReRegisterCommit
  <2>1. pick[r] \in Codes
    BY DEF HoldsOK
  <2>2. pick[r] \notin burned
    BY DEF Consumable, BurnedOnce
  <2>3. BurnedOnce'
    BY <2>2, FS_AddElement DEF BurnedOnce, OneCodePerReset
  <2>4. /\ acceptedCodes' \in [Codes -> Nat]
        /\ verifier' \in Nat /\ used' \subseteq Codes /\ burned' \subseteq Codes
    BY <2>1 DEF RecoveryTypeOK
  <2>5. RecoveryTypeOK'
    BY <2>4, RecoveryFinishOK DEF RecoveryTypeOK
  <2> QED BY <2>3, <2>5, RecoveryFinishOK
<1>9. CASE ReRegisterReject(r)
  BY <1>9, RecoveryFinishOK DEF ReRegisterReject, RecoveryTypeOK, BurnedOnce, OneCodePerReset
<1> QED BY <1>1, <1>2, <1>3, <1>5, <1>6, <1>7, <1>8, <1>9 DEF RecoveryHandle

(* The same for a step of the specification, stuttering included.            *)
LEMMA RecoveryInvNext == RecoveryInv /\ [RecoveryNext]_recoveryVars => RecoveryInv'
<1>1. ASSUME RecoveryInv, UNCHANGED recoveryVars PROVE RecoveryInv'
  BY <1>1 DEF recoveryVars, locals, history, RecoveryInv, RecoveryTypeOK, HoldsOK,
              BurnedOnce, OneCodePerReset
<1> QED BY <1>1, RecoveryInvStep DEF RecoveryNext

(* A verifier is never reset without burning a code of its own: register.go's *)
(* claim, for any number of concurrent verifications, generations and        *)
(* re-registrations, any number of codes, and statements that fail.          *)
THEOREM ResetBurnsOneCode == RecoverySpec => []OneCodePerReset
<1>1. RecoveryInv => OneCodePerReset
  BY DEF RecoveryInv, BurnedOnce
<1> QED BY <1>1, RecoveryInvInit, RecoveryInvNext, PTL DEF RecoverySpec

-----------------------------------------------------------------------------
(* How often a code is accepted.                                             *)

(* The code's row was inserted, and its generation is past it: once deleted  *)
(* it does not come back.                                                    *)
RowWritten(c) ==
    /\ c[1] \in started
    /\ \A x \in RecoveryReqs : recoveryPc[x] = "insert" /\ batch[x] = c[1] => next[x] > c[2]

(* A batch is inserted by the one handler that drew it.                      *)
InsertersOK ==
    \A r \in RecoveryReqs : recoveryPc[r] = "insert" =>
        /\ batch[r] \in started
        /\ \A x \in RecoveryReqs : recoveryPc[x] = "insert" /\ batch[x] = batch[r] => x = r

(* A code that was accepted is marked or gone for good.                      *)
CodesOK ==
    /\ \A c \in Codes : Present(c) \/ Holders(c) # {} \/ acceptedCodes[c] > 0 => RowWritten(c)
    /\ \A c \in Codes : acceptedCodes[c] > 0 => c \notin Unused

ReuseInv == RecoveryInv /\ InsertersOK /\ CodesOK /\ ReuseBounded

(* What ReuseBounded says of one code.                                       *)
BoundAt(c) == acceptedCodes[c] + Cardinality(Holders(c)) <= Cardinality(RecoveryReqs)

(* The requests that hold a code are some of all.                            *)
LEMMA HoldersCount ==
  ASSUME NEW c
  PROVE  /\ IsFiniteSet(Holders(c)) /\ Cardinality(Holders(c)) \in Nat
         /\ Cardinality(RecoveryReqs) \in Nat
         /\ Cardinality(Holders(c)) <= Cardinality(RecoveryReqs)
<1>1. Holders(c) \in SUBSET RecoveryReqs
  BY DEF Holders
<1> QED BY <1>1, RecoveryReqsAssumption, FS_Subset, FS_CardinalityType

(* The same after a step.                                                    *)
LEMMA HoldersCountAfter ==
  ASSUME NEW c
  PROVE  /\ IsFiniteSet(Holders(c)') /\ Cardinality(Holders(c)') \in Nat
         /\ Cardinality(Holders(c)') <= Cardinality(RecoveryReqs)
<1>1. Holders(c)' \in SUBSET RecoveryReqs
  BY DEF Holders
<1> QED BY <1>1, RecoveryReqsAssumption, FS_Subset, FS_CardinalityType

(* No code is held or accepted at the start.                                 *)
LEMMA ReuseInit == RecoveryInit => ReuseInv
<1> SUFFICES ASSUME RecoveryInit PROVE ReuseInv
  OBVIOUS
<1>1. ASSUME NEW c \in Codes PROVE Holders(c) = {} /\ acceptedCodes[c] = 0 /\ ~Present(c)
  <2>1. c[2] \in Indices /\ c # NoBatch
    BY RecoveryNamesAssumption DEF Codes
  <2> QED BY <2>1 DEF RecoveryInit, Holders, Present
<1>2. InsertersOK
  BY DEF InsertersOK, RecoveryInit
<1>3. CodesOK
  BY <1>1 DEF CodesOK
<1>4. ASSUME NEW c \in Codes PROVE BoundAt(c)
  BY <1>1, HoldersCount, FS_EmptySet DEF BoundAt
<1> QED BY <1>2, <1>3, <1>4, RecoveryInvInit DEF ReuseInv, ReuseBounded, BoundAt

(* A step after which no handler inserts that did not, and none goes back,   *)
(* keeps the inserters and the codes whose generation is past them.          *)
LEMMA InsertersKept ==
  ASSUME ReuseInv, RecoveryInv',
         started \subseteq started',
         \A x \in RecoveryReqs : recoveryPc'[x] = "insert" =>
            recoveryPc[x] = "insert" /\ batch'[x] = batch[x] /\ next'[x] >= next[x]
  PROVE  InsertersOK' /\ \A c \in Codes : RowWritten(c) => RowWritten(c)'
<1>1. InsertersOK'
  BY DEF ReuseInv, InsertersOK
<1>2. ASSUME NEW c \in Codes, RowWritten(c) PROVE RowWritten(c)'
  <2>1. c[2] \in Int /\ \A x \in RecoveryReqs : next[x] \in Int /\ next'[x] \in Int
    BY NumCodesAssumption DEF Codes, Indices, ReuseInv, RecoveryInv, RecoveryTypeOK
  <2> QED BY <1>2, <2>1 DEF RowWritten
<1> QED BY <1>1, <1>2

(* A request that ends without accepting anything.                           *)
LEMMA HoldersEnd ==
  ASSUME NEW c \in Codes, BoundAt(c), acceptedCodes \in [Codes -> Nat],
         acceptedCodes'[c] = acceptedCodes[c], Holders(c)' \subseteq Holders(c)
  PROVE  BoundAt(c)'
<1>1. Cardinality(Holders(c)') <= Cardinality(Holders(c))
  BY HoldersCount, FS_Subset
<1>2. acceptedCodes[c] \in Nat
  OBVIOUS
<1> QED BY <1>1, <1>2, HoldersCount, HoldersCountAfter DEF BoundAt

(* Generation: the rows are deleted, and inserted one by one.                *)
LEMMA ReuseGenerates ==
  ASSUME ReuseInv, RecoveryInv', NEW r \in RecoveryReqs,
         GenerateDelete(r) \/ GenerateInsert(r) \/ GenerateFails(r)
  PROVE  ReuseInv'
<1>t. /\ RecoveryTypeOK /\ RecoveryTypeOK' /\ acceptedCodes \in [Codes -> Nat]
      /\ recoveryPc \in [RecoveryReqs -> {"idle", "insert", "mark", "consume"}]
  BY DEF ReuseInv, RecoveryInv, RecoveryTypeOK
<1>1. UNCHANGED <<used, acceptedCodes>> /\ started \subseteq started'
  BY DEF GenerateDelete, GenerateInsert, GenerateFails, history
<1>2. ASSUME NEW c \in Codes PROVE Holders(c)' \subseteq Holders(c)
  BY <1>t DEF Holders, GenerateDelete, GenerateInsert, GenerateFails, RecoveryFinish, RecoveryTypeOK
<1>3. ReuseBounded'
  <2>1. ASSUME NEW c \in Codes PROVE BoundAt(c)'
    BY <1>t, <1>1, <1>2, HoldersEnd DEF ReuseInv, ReuseBounded, BoundAt
  <2> QED BY <2>1 DEF ReuseBounded, BoundAt
<1>4. CASE GenerateDelete(r)
  <2>1. PICK b \in Batches \ started : /\ batch' = [batch EXCEPT ![r] = b]
                                       /\ started' = started \cup {b}
    BY <1>4 DEF GenerateDelete
  <2>2. /\ recoveryPc[r] = "idle" /\ recoveryPc'[r] = "insert" /\ batch'[r] = b /\ next' = next
        /\ \A x \in RecoveryReqs \ {r} : recoveryPc'[x] = recoveryPc[x] /\ batch'[x] = batch[x]
    BY <1>t, <1>4, <2>1 DEF GenerateDelete, RecoveryTypeOK
  <2>3. InsertersOK'
    BY <2>1, <2>2 DEF ReuseInv, InsertersOK
  <2>4. \A c \in Codes : RowWritten(c) => RowWritten(c)'
    BY <2>1, <2>2 DEF RowWritten
  <2>5. ASSUME NEW c \in Codes PROVE ~Present(c)'
    <3>1. c[2] \in Indices /\ c # NoBatch
      BY RecoveryNamesAssumption DEF Codes
    <3> QED BY <1>4, <3>1 DEF GenerateDelete, Present
  <2>6. CodesOK'
    BY <1>1, <1>2, <2>4, <2>5 DEF CodesOK, ReuseInv, Unused
  <2> QED BY <1>3, <2>3, <2>6 DEF ReuseInv
<1>5. CASE GenerateFails(r)
  <2>1. \A x \in RecoveryReqs : recoveryPc'[x] = "insert" =>
           recoveryPc[x] = "insert" /\ batch'[x] = batch[x] /\ next'[x] = next[x]
    BY <1>t, <1>5 DEF GenerateFails, RecoveryFinish, RecoveryTypeOK
  <2>2. \A x \in RecoveryReqs : next[x] \in Int
    BY <1>t, NumCodesAssumption DEF RecoveryTypeOK, Indices
  <2>3. InsertersOK' /\ \A c \in Codes : RowWritten(c) => RowWritten(c)'
    BY <1>1, <2>1, <2>2, InsertersKept
  <2>4. rows' = rows
    BY <1>5 DEF GenerateFails
  <2>5. CodesOK'
    BY <1>1, <1>2, <2>3, <2>4 DEF CodesOK, ReuseInv, Unused, Present
  <2> QED BY <1>3, <2>3, <2>5 DEF ReuseInv
<1>6. CASE GenerateInsert(r)
  <2>0. /\ recoveryPc[r] = "insert" /\ rows' = [rows EXCEPT ![next[r]] = <<batch[r], next[r]>>]
        /\ next[r] \in Indices /\ batch[r] \in Batches
    BY <1>t, <1>6 DEF GenerateInsert, ReuseInv, RecoveryInv, HoldsOK, RecoveryTypeOK
  <2>1. PICK k \in Codes : /\ k[1] = batch[r] /\ k[2] = next[r]
                           /\ recoveryPc[r] = "insert" /\ rows' = [rows EXCEPT ![next[r]] = k]
    BY <2>0 DEF Codes
  <2>2. next[r] \in Int /\ \A x \in RecoveryReqs : next[x] \in Int
    BY <1>t, NumCodesAssumption DEF RecoveryTypeOK, Indices
  <2>3. /\ \A x \in RecoveryReqs \ {r} : /\ recoveryPc'[x] = recoveryPc[x] /\ batch'[x] = batch[x]
                                         /\ next'[x] = next[x]
        /\ recoveryPc'[r] = "insert" => batch'[r] = batch[r] /\ next'[r] = next[r] + 1
    BY <1>t, <1>6 DEF GenerateInsert, RecoveryFinish, RecoveryTypeOK
  <2>4. \A x \in RecoveryReqs : recoveryPc'[x] = "insert" =>
           recoveryPc[x] = "insert" /\ batch'[x] = batch[x] /\ next'[x] >= next[x]
    BY <2>1, <2>2, <2>3
  <2>5. InsertersOK' /\ \A c \in Codes : RowWritten(c) => RowWritten(c)'
    BY <1>1, <2>4, InsertersKept
  <2>6. ~RowWritten(k)
    BY <2>1, <2>2 DEF RowWritten
  <2>7. RowWritten(k)'
    <3>1. batch[r] \in started'
      BY <1>1, <2>1 DEF ReuseInv, InsertersOK
    <3>2. ASSUME NEW x \in RecoveryReqs, recoveryPc'[x] = "insert", batch'[x] = batch[r]
          PROVE  next'[x] > next[r]
      <4>1. x = r
        BY <2>1, <2>3, <3>2 DEF ReuseInv, InsertersOK
      <4> QED BY <2>2, <2>3, <3>2, <4>1
    <3> QED BY <2>1, <3>1, <3>2 DEF RowWritten
  <2>8. ASSUME NEW c \in Codes, c # k, Present(c)' PROVE Present(c)
    <3>1. c[2] \in Indices
      BY DEF Codes
    <3>2. rows \in [Indices -> Codes \cup {NoBatch}]
      BY <1>t DEF RecoveryTypeOK
    <3> QED BY <2>1, <2>8, <3>1, <3>2 DEF Present
  <2>9. acceptedCodes[k] = 0
    BY <1>t, <2>1, <2>6 DEF ReuseInv, CodesOK
  <2>10. CodesOK'
    <3>1. ASSUME NEW c \in Codes, Present(c)' \/ Holders(c)' # {} \/ acceptedCodes'[c] > 0
          PROVE  RowWritten(c)'
      <4>1. CASE c = k
        BY <2>7, <4>1
      <4>2. CASE c # k
        BY <1>1, <1>2, <2>5, <2>8, <3>1, <4>2 DEF ReuseInv, CodesOK
      <4> QED BY <4>1, <4>2
    <3>2. ASSUME NEW c \in Codes, acceptedCodes'[c] > 0 PROVE c \notin Unused'
      <4>1. c # k
        BY <1>1, <2>9, <3>2
      <4> QED BY <1>1, <2>8, <3>2, <4>1 DEF ReuseInv, CodesOK, Unused
    <3> QED BY <3>1, <3>2 DEF CodesOK
  <2> QED BY <1>3, <2>5, <2>10 DEF ReuseInv
<1> QED BY <1>4, <1>5, <1>6

(* A code is selected while it is unused: it was not accepted before.        *)
LEMMA ReuseSelects ==
  ASSUME ReuseInv, RecoveryInv', NEW r \in RecoveryReqs, VerifySelect(r) \/ ReRegisterSelect(r)
  PROVE  ReuseInv'
<1>t. RecoveryTypeOK /\ acceptedCodes \in [Codes -> Nat]
  BY DEF ReuseInv, RecoveryInv, RecoveryTypeOK
<1>1. PICK k \in Unused : Hold(r, k, "mark") \/ Hold(r, k, "consume")
  BY DEF VerifySelect, ReRegisterSelect
<1>2. UNCHANGED <<rows, used, acceptedCodes, started>> /\ recoveryPc[r] = "idle"
  BY DEF VerifySelect, ReRegisterSelect, history
<1>3. \A x \in RecoveryReqs : recoveryPc'[x] = "insert" =>
         recoveryPc[x] = "insert" /\ batch'[x] = batch[x] /\ next'[x] = next[x]
  BY <1>t, <1>1 DEF Hold, RecoveryTypeOK
<1>4. \A x \in RecoveryReqs : next[x] \in Int
  BY <1>t, NumCodesAssumption DEF RecoveryTypeOK, Indices
<1>5. InsertersOK' /\ \A c \in Codes : RowWritten(c) => RowWritten(c)'
  BY <1>2, <1>3, <1>4, InsertersKept
<1>6. k \in Codes /\ Present(k) /\ acceptedCodes[k] = 0
  BY <1>t DEF Unused, ReuseInv, CodesOK
<1>7. ASSUME NEW c \in Codes, c # k PROVE Holders(c)' \subseteq Holders(c)
  BY <1>t, <1>1, <1>7 DEF Holders, Hold, RecoveryTypeOK
<1>8. CodesOK'
  <2>1. Unused' = Unused /\ \A c \in Codes : Present(c)' = Present(c)
    BY <1>2 DEF Unused, Present
  <2> QED BY <1>2, <1>5, <1>6, <1>7, <2>1 DEF ReuseInv, CodesOK
<1>9. ASSUME NEW c \in Codes PROVE BoundAt(c)'
  <2>1. CASE c = k
    <3>1. acceptedCodes'[c] = 0
      BY <1>2, <1>6, <2>1
    <3> QED BY <3>1, HoldersCount, HoldersCountAfter DEF BoundAt
  <2>2. CASE c # k
    BY <1>t, <1>2, <1>7, <2>2, HoldersEnd DEF ReuseInv, ReuseBounded, BoundAt
  <2> QED BY <2>1, <2>2
<1> QED BY <1>5, <1>8, <1>9 DEF ReuseInv, ReuseBounded, BoundAt

(* A code is accepted by a request that held it, and holds it no more.       *)
LEMMA ReuseAnswers ==
  ASSUME ReuseInv, RecoveryInv', NEW r \in RecoveryReqs,
         VerifyMark(r) \/ ReRegisterCommit(r) \/ ReRegisterReject(r)
  PROVE  ReuseInv'
<1>t. RecoveryTypeOK /\ acceptedCodes \in [Codes -> Nat]
  BY DEF ReuseInv, RecoveryInv, RecoveryTypeOK
<1>1. PICK k \in Codes : k = pick[r] /\ r \in Holders(k)
  BY DEF VerifyMark, ReRegisterCommit, ReRegisterReject, ReuseInv, RecoveryInv, HoldsOK, Holders
<1>2. UNCHANGED <<rows, started>> /\ used \subseteq used' /\ RecoveryFinish(r)
  BY DEF VerifyMark, ReRegisterCommit, ReRegisterReject, history
<1>3. \/ UNCHANGED acceptedCodes
      \/ /\ acceptedCodes' = [acceptedCodes EXCEPT ![k] = @ + 1]
         /\ k \in used' \/ ~Present(k)
  BY <1>1 DEF VerifyMark, ReRegisterCommit, ReRegisterReject, history
<1>4. \A x \in RecoveryReqs : recoveryPc'[x] = "insert" =>
         recoveryPc[x] = "insert" /\ batch'[x] = batch[x] /\ next'[x] = next[x]
  BY <1>t, <1>2 DEF RecoveryFinish, RecoveryTypeOK
<1>5. \A x \in RecoveryReqs : next[x] \in Int
  BY <1>t, NumCodesAssumption DEF RecoveryTypeOK, Indices
<1>6. InsertersOK' /\ \A c \in Codes : RowWritten(c) => RowWritten(c)'
  BY <1>2, <1>4, <1>5, InsertersKept
<1>7. ASSUME NEW c \in Codes PROVE Holders(c)' = Holders(c) \ {r}
  BY <1>t, <1>2 DEF Holders, RecoveryFinish, RecoveryTypeOK
<1>8. ASSUME NEW c \in Codes PROVE acceptedCodes'[c] = acceptedCodes[c] \/ c = k
  BY <1>t, <1>3
<1>9. CodesOK'
  <2>1. \A c \in Codes : Present(c)' = Present(c)
    BY <1>2 DEF Present
  <2>2. Unused' \subseteq Unused
    BY <1>2, <2>1 DEF Unused
  <2>3. RowWritten(k)
    BY <1>1 DEF ReuseInv, CodesOK
  <2>4. acceptedCodes'[k] = acceptedCodes[k] \/ k \notin Unused'
    BY <1>3, <2>1 DEF Unused
  <2>5. \A c \in Codes : Present(c)' \/ Holders(c)' # {} \/ acceptedCodes'[c] > 0 => RowWritten(c)'
    BY <1>6, <1>7, <1>8, <2>1, <2>3 DEF ReuseInv, CodesOK
  <2>6. \A c \in Codes : acceptedCodes'[c] > 0 => c \notin Unused'
    BY <1>8, <2>2, <2>4 DEF ReuseInv, CodesOK
  <2> QED BY <2>5, <2>6 DEF CodesOK
<1>10. ASSUME NEW c \in Codes PROVE BoundAt(c)'
  <2>0. BoundAt(c)
    BY DEF ReuseInv, ReuseBounded, BoundAt
  <2>1. CASE acceptedCodes'[c] = acceptedCodes[c]
    BY <1>t, <1>7, <2>0, <2>1, HoldersEnd
  <2>2. CASE acceptedCodes'[c] # acceptedCodes[c]
    <3>1. c = k /\ acceptedCodes'[c] = acceptedCodes[c] + 1 /\ acceptedCodes[c] \in Nat
      BY <1>t, <1>3, <1>8, <2>2
    <3>2. Cardinality(Holders(c)') = Cardinality(Holders(c)) - 1
      BY <1>1, <1>7, <3>1, HoldersCount, FS_RemoveElement
    <3> QED BY <2>0, <3>1, <3>2, HoldersCount DEF BoundAt
  <2> QED BY <2>1, <2>2
<1> QED BY <1>6, <1>9, <1>10 DEF ReuseInv, ReuseBounded, BoundAt

(* One code is accepted more than once only by requests that selected it     *)
(* before it was first accepted: for any number of requests, codes and       *)
(* batches, with generations beside them and statements that fail.           *)
THEOREM CodeReuseBounded == RecoverySpec => []ReuseBounded
<1>1. ReuseInv /\ [RecoveryNext]_recoveryVars => ReuseInv'
  <2> SUFFICES ASSUME ReuseInv, [RecoveryNext]_recoveryVars PROVE ReuseInv'
    OBVIOUS
  <2>1. RecoveryInv'
    BY RecoveryInvNext DEF ReuseInv
  <2>2. ASSUME NEW r \in RecoveryReqs, RecoveryHandle(r) PROVE ReuseInv'
    BY <2>1, <2>2, ReuseGenerates, ReuseSelects, ReuseAnswers DEF RecoveryHandle
  <2>3. CASE UNCHANGED recoveryVars
    <3>1. UNCHANGED <<rows, used, recoveryPc, batch, next, pick, started, acceptedCodes>>
      BY <2>3 DEF recoveryVars, locals, history
    <3>2. InsertersOK'
      BY <3>1 DEF ReuseInv, InsertersOK
    <3>3. ASSUME NEW c \in Codes
          PROVE  /\ Holders(c)' = Holders(c) /\ Present(c)' = Present(c)
                 /\ RowWritten(c)' = RowWritten(c)
      BY <3>1 DEF Holders, Present, RowWritten
    <3>4. Unused' = Unused
      BY <3>1, <3>3 DEF Unused
    <3>5. CodesOK'
      BY <3>1, <3>3, <3>4 DEF ReuseInv, CodesOK
    <3>6. ReuseBounded'
      BY <3>1, <3>3 DEF ReuseInv, ReuseBounded
    <3> QED BY <2>1, <3>2, <3>5, <3>6 DEF ReuseInv
  <2> QED BY <2>2, <2>3 DEF RecoveryNext
<1>2. ReuseInv => ReuseBounded
  BY DEF ReuseInv
<1> QED BY <1>1, <1>2, ReuseInit, PTL DEF RecoverySpec

-----------------------------------------------------------------------------
(* SrpLogin.                                                                 *)

(* The requests that passed the check of a bucket that is locked by now.     *)
Proving == {r \in SrpReqs : locked /\ srpPc[r] = "prove"}

(* Failures are counted from the moment the bucket becomes locked.           *)
CountsFromLock == ~locked => lateFails = 0

SrpInv == SrpTypeOK /\ CountsFromLock /\ LockBoundsGuesses

(* What is counted is finite, and there is a request slot.                   *)
LEMMA ProvingFinite ==
  /\ IsFiniteSet(Proving) /\ Cardinality(Proving) \in Nat
  /\ Cardinality(SrpReqs) \in Nat /\ Cardinality(SrpReqs) > 0
<1>1. Proving \in SUBSET SrpReqs
  BY DEF Proving
<1>2. IsFiniteSet(Proving)
  BY <1>1, SrpReqsAssumption, FS_Subset
<1> QED BY <1>2, SrpReqsAssumption, FS_CardinalityType, FS_EmptySet

(* A step that lets no request past the check and counts no failure, and     *)
(* leaves the lock or lifts it, keeps the bound.                             *)
LEMMA BoundKept ==
  ASSUME SrpInv, SrpTypeOK', lateFails' = lateFails, CountsFromLock',
         locked' => locked,
         \A r \in SrpReqs : locked /\ srpPc'[r] = "prove" => srpPc[r] = "prove"
  PROVE  SrpInv'
<1>1. Proving' \in SUBSET Proving
  BY DEF Proving
<1>2. Cardinality(Proving') <= Cardinality(Proving)
  BY <1>1, ProvingFinite, FS_Subset
<1>3. Cardinality(Proving') \in Nat
  BY <1>1, ProvingFinite, FS_Subset, FS_CardinalityType
<1> QED BY <1>2, <1>3, ProvingFinite DEF SrpInv, SrpTypeOK, LockBoundsGuesses, Proving

(* With the bucket unlocked nothing is counted.                              *)
LEMMA UnlockedBound == ASSUME SrpTypeOK, ~locked, lateFails = 0 PROVE SrpInv
<1>1. Proving = {}
  BY DEF Proving
<1>2. Cardinality(Proving) = 0
  BY <1>1, FS_EmptySet
<1> QED BY <1>2, ProvingFinite DEF SrpInv, CountsFromLock, LockBoundsGuesses, Proving

(* The same after a step.                                                    *)
LEMMA UnlockedAfter == ASSUME SrpTypeOK', ~locked', lateFails' = 0 PROVE SrpInv'
<1>1. Proving' = {}
  BY DEF Proving
<1>2. Cardinality(Proving') = 0
  BY <1>1, FS_EmptySet
<1> QED BY <1>2, ProvingFinite DEF SrpInv, CountsFromLock, LockBoundsGuesses, Proving

(* The bound on the recorded attempts is a number.                           *)
LEMMA MaxRecordedNat == MaxRecorded \in Nat
  BY NumbersAssumption

(* No request has begun and the bucket is unlocked.                          *)
LEMMA SrpInvInit == SrpInit => SrpInv
<1> SUFFICES ASSUME SrpInit PROVE SrpInv
  OBVIOUS
<1>1. Stored = {}
  BY DEF SrpInit, Stored
<1>2. attempts \in 0..MaxRecorded /\ guesses \in [Ids -> 0..2] /\ lateFails \in Nat
  BY MaxRecordedNat DEF SrpInit
<1>3. SrpTypeOK
  BY <1>1, <1>2 DEF SrpInit, SrpTypeOK
<1> QED BY <1>3, UnlockedBound DEF SrpInit

(* The end of a handler keeps the types of its locals.                       *)
LEMMA SrpFinishTypes ==
  ASSUME SrpTypeOK, NEW r \in SrpReqs, SrpFinish(r)
  PROVE  /\ srpPc' \in [SrpReqs -> {"idle", "query", "delete", "check", "prove", "reset"}]
         /\ sess' \in [SrpReqs -> Ids \cup {NoSession}]
         /\ seen' \in [SrpReqs -> {"none", "real", "decoy"}]
         /\ late' \in [SrpReqs -> BOOLEAN]
         /\ \A q \in SrpReqs : srpPc'[q] = "prove" => srpPc[q] = "prove" /\ q # r
  BY DEF SrpTypeOK, SrpFinish

(* The SET and the DEL of a session keep its type.                           *)
LEMMA StoreTypesKept ==
  ASSUME SrpTypeOK,
         \/ UNCHANGED sessions
         \/ \E s \in Ids, k \in {"real", "decoy"} : Store(s, k)
         \/ \E s : Drop(s)
  PROVE  Stored' \subseteq Ids /\ \A x \in Stored' : sessions'[x] \in {"real", "decoy"}
  BY DEF SrpTypeOK, Stored, Store, Drop

(* A session's count of guesses stops at two.                                *)
LEMMA GuessedType ==
  ASSUME SrpTypeOK, NEW s, Guessed(s)
  PROVE  guesses' \in [Ids -> 0..2]
<1>1. \A x \in Ids : guesses[x] \in 0..2 /\ (guesses[x] < 2 => guesses[x] + 1 \in 0..2)
  BY DEF SrpTypeOK
<1> QED BY <1>1 DEF SrpTypeOK, Guessed

(* The steps of HandleSRPInit.                                               *)
LEMMA SrpInvBegin ==
  ASSUME SrpInv, NEW r \in SrpReqs, InitCheck(r) \/ InitFound(r) \/ InitDecoy(r)
  PROVE  SrpInv'
<1> USE NumbersAssumption DEF SrpInv
<1>1. UNCHANGED <<account, attempts, locked, lateFails>>
  BY DEF InitCheck, InitFound, InitDecoy
<1>2. CASE InitCheck(r)
  <2>1. SrpTypeOK'
    BY <1>2 DEF InitCheck, SrpTypeOK, Stored
  <2> QED BY <1>1, <1>2, <2>1, BoundKept DEF InitCheck, SrpTypeOK, CountsFromLock
<1>3. CASE InitFound(r)
  <2>1. Stored' \subseteq Ids /\ \A x \in Stored' : sessions'[x] \in {"real", "decoy"}
    BY <1>3, StoreTypesKept DEF InitFound, Fresh, SrpTypeOK, Stored
  <2>2. answered' \in [SrpReqs -> {"none", "real", "decoy"}] /\ guesses' \in [Ids -> 0..2]
    BY <1>3 DEF InitFound, SrpTypeOK
  <2>3. SrpTypeOK' /\ \A q \in SrpReqs : srpPc'[q] = "prove" => srpPc[q] = "prove"
    BY <1>1, <1>3, <2>1, <2>2, SrpFinishTypes DEF InitFound, SrpTypeOK
  <2> QED BY <1>1, <2>3, BoundKept DEF CountsFromLock
<1>4. CASE InitDecoy(r)
  <2>1. Stored' \subseteq Ids /\ \A x \in Stored' : sessions'[x] \in {"real", "decoy"}
    BY <1>4, StoreTypesKept DEF InitDecoy, Fresh, SrpTypeOK, Stored
  <2>2. answered' \in [SrpReqs -> {"none", "real", "decoy"}] /\ guesses' \in [Ids -> 0..2]
    BY <1>4 DEF InitDecoy, SrpTypeOK
  <2>3. SrpTypeOK' /\ \A q \in SrpReqs : srpPc'[q] = "prove" => srpPc[q] = "prove"
    BY <1>1, <1>4, <2>1, <2>2, SrpFinishTypes DEF InitDecoy, SrpTypeOK
  <2> QED BY <1>1, <2>3, BoundKept DEF CountsFromLock
<1> QED BY <1>2, <1>3, <1>4

(* A failed proof: a request of the locked bucket is counted and is no longer *)
(* proving; the failure that locks the bucket is over itself.                *)
LEMMA SrpInvFails == ASSUME SrpInv, NEW r \in SrpReqs, VerifyFails(r) PROVE SrpInv'
<1> USE NumbersAssumption DEF SrpInv
<1>1. /\ srpPc[r] = "prove" /\ attempts < MaxRecorded
      /\ locked => locked'
      /\ lateFails' = IF locked THEN lateFails + 1 ELSE 0
      /\ \A q \in SrpReqs : srpPc'[q] = "prove" => srpPc[q] = "prove" /\ q # r
  BY SrpFinishTypes DEF VerifyFails, RecordFailedAttempt, SrpTypeOK
<1>2. SrpTypeOK'
  <2>0. locked' \in BOOLEAN
    BY Zenon DEF VerifyFails, RecordFailedAttempt, SrpTypeOK
  <2>1. attempts' \in 0..MaxRecorded /\ lateFails' \in Nat
    BY MaxRecordedNat DEF VerifyFails, RecordFailedAttempt, SrpTypeOK
  <2>2. guesses' \in [Ids -> 0..2]
    BY GuessedType DEF VerifyFails
  <2> QED BY <2>0, <2>1, <2>2, SrpFinishTypes DEF VerifyFails, SrpTypeOK, Stored
<1>3. CASE locked
  <2>1. Proving' \in SUBSET (Proving \ {r}) /\ r \in Proving
    BY <1>1, <1>3 DEF Proving
  <2>2. /\ IsFiniteSet(Proving \ {r})
        /\ Cardinality(Proving \ {r}) = Cardinality(Proving) - 1
    BY <2>1, ProvingFinite, FS_RemoveElement
  <2>3. /\ Cardinality(Proving') \in Nat
        /\ Cardinality(Proving') <= Cardinality(Proving) - 1
    BY <2>1, <2>2, FS_Subset, FS_CardinalityType
  <2>4. lateFails' + Cardinality(Proving') < Cardinality(SrpReqs)
    BY <1>1, <1>3, <2>3, ProvingFinite DEF SrpTypeOK, LockBoundsGuesses, Proving
  <2> QED BY <1>1, <1>2, <1>3, <2>4 DEF CountsFromLock, LockBoundsGuesses, Proving
<1>4. CASE ~locked
  <2>1. Proving' \in SUBSET (SrpReqs \ {r})
    BY <1>1 DEF Proving
  <2>2. /\ IsFiniteSet(SrpReqs \ {r})
        /\ Cardinality(SrpReqs \ {r}) = Cardinality(SrpReqs) - 1
    BY SrpReqsAssumption, FS_RemoveElement
  <2>3. /\ Cardinality(Proving') \in Nat
        /\ Cardinality(Proving') <= Cardinality(SrpReqs) - 1
    BY <2>1, <2>2, FS_Subset, FS_CardinalityType
  <2>4. lateFails' + Cardinality(Proving') < Cardinality(SrpReqs)
    BY <1>1, <1>4, <2>3, ProvingFinite
  <2> QED BY <1>1, <1>2, <1>4, <2>4 DEF CountsFromLock, LockBoundsGuesses, Proving
<1> QED BY <1>3, <1>4 DEF SrpTypeOK

(* The other steps of HandleSRPVerify.  Only VerifyCheck lets a request go on *)
(* to its proof, and only while the bucket is unlocked.                      *)
LEMMA SrpInvVerify ==
  ASSUME SrpInv, NEW r \in SrpReqs,
         \/ VerifyGet(r) \/ VerifyDelete(r) \/ VerifyCheck(r)
         \/ VerifySucceeds(r) \/ ResetAttempts(r)
  PROVE  SrpInv'
<1> USE DEF SrpInv
<1>1. CASE VerifyGet(r)
  <2>1. SrpTypeOK'
    BY <1>1 DEF VerifyGet, SrpTypeOK, Stored
  <2> QED BY <1>1, <2>1, BoundKept DEF VerifyGet, SrpTypeOK, CountsFromLock
<1>2. CASE VerifyDelete(r)
  <2>1. Stored' \subseteq Ids /\ \A x \in Stored' : sessions'[x] \in {"real", "decoy"}
    BY <1>2, StoreTypesKept DEF VerifyDelete
  <2>2. SrpTypeOK' /\ \A q \in SrpReqs : srpPc'[q] = "prove" => srpPc[q] = "prove"
    <3>1. CASE SrpFinish(r)
      BY <1>2, <2>1, <3>1, SrpFinishTypes DEF VerifyDelete, SrpTypeOK
    <3>2. CASE srpPc' = [srpPc EXCEPT ![r] = "check"] /\ UNCHANGED <<sess, seen, late>>
      BY <1>2, <2>1, <3>2 DEF VerifyDelete, SrpTypeOK
    <3> QED BY <1>2, <3>1, <3>2 DEF VerifyDelete
  <2> QED BY <1>2, <2>2, BoundKept DEF VerifyDelete, CountsFromLock
<1>3. CASE VerifyCheck(r)
  <2>1. CASE SrpFinish(r)
    <3>1. SrpTypeOK' /\ \A q \in SrpReqs : srpPc'[q] = "prove" => srpPc[q] = "prove"
      BY <1>3, <2>1, SrpFinishTypes DEF VerifyCheck, SrpTypeOK, Stored
    <3> QED BY <1>3, <3>1, BoundKept DEF VerifyCheck, CountsFromLock
  <2>2. CASE ~locked /\ srpPc' = [srpPc EXCEPT ![r] = "prove"] /\ UNCHANGED <<sess, seen, late>>
    <3>1. SrpTypeOK'
      BY <1>3, <2>2 DEF VerifyCheck, SrpTypeOK, Stored
    <3> QED BY <1>3, <2>2, <3>1, BoundKept DEF VerifyCheck, CountsFromLock
  <2> QED BY <1>3, <2>1, <2>2 DEF VerifyCheck
<1>4. CASE VerifySucceeds(r)
  <2>1. SrpTypeOK'
    BY <1>4, GuessedType DEF VerifySucceeds, SrpTypeOK, Stored
  <2> QED BY <1>4, <2>1, BoundKept DEF VerifySucceeds, SrpTypeOK, CountsFromLock
<1>5. CASE ResetAttempts(r)
  <2>1. attempts' \in 0..MaxRecorded /\ locked' \in BOOLEAN /\ lateFails' \in Nat
    <3>1. CASE attempts' = 0 /\ locked' = FALSE /\ lateFails' = 0
      <4>1. 0 \in 0..MaxRecorded
        BY MaxRecordedNat
      <4> QED BY <3>1, <4>1
    <3>2. CASE UNCHANGED <<attempts, locked, lateFails>>
      BY <3>2 DEF SrpTypeOK
    <3> QED BY <1>5, <3>1, <3>2 DEF ResetAttempts
  <2>2. SrpTypeOK' /\ \A q \in SrpReqs : srpPc'[q] = "prove" => srpPc[q] = "prove"
    BY <1>5, <2>1, SrpFinishTypes DEF ResetAttempts, SrpTypeOK, Stored
  <2>3. CASE ~locked' /\ lateFails' = 0
    BY <2>2, <2>3, UnlockedAfter
  <2>4. CASE UNCHANGED <<locked, lateFails>>
    BY <2>2, <2>4, BoundKept DEF CountsFromLock
  <2> QED BY <1>5, <2>3, <2>4 DEF ResetAttempts
<1> QED BY <1>1, <1>2, <1>3, <1>4, <1>5

(* The passing of time: lifting the lock clears the count.                   *)
LEMMA SrpInvTime ==
  ASSUME SrpInv, LockExpires \/ RecordExpires \/ SessionExpires
  PROVE  SrpInv'
<1> USE DEF SrpInv
<1>1. CASE LockExpires
  <2>1. SrpTypeOK' /\ ~locked' /\ lateFails' = 0
    BY <1>1 DEF LockExpires, SrpTypeOK, Stored
  <2> QED BY <2>1, UnlockedAfter
<1>2. CASE RecordExpires
  <2>1. SrpTypeOK'
    BY <1>2, MaxRecordedNat DEF RecordExpires, SrpTypeOK, Stored
  <2> QED BY <1>2, <2>1, BoundKept DEF RecordExpires, CountsFromLock
<1>3. CASE SessionExpires
  <2>1. Stored' \subseteq Ids /\ \A x \in Stored' : sessions'[x] \in {"real", "decoy"}
    BY <1>3, StoreTypesKept DEF SessionExpires
  <2>2. SrpTypeOK'
    BY <1>3, <2>1 DEF SessionExpires, SrpTypeOK
  <2> QED BY <1>3, <2>2, BoundKept DEF SessionExpires, CountsFromLock
<1> QED BY <1>1, <1>2, <1>3

(* Every step of the specification preserves the invariant.                  *)
LEMMA SrpInvNext == SrpInv /\ [SrpNext]_srpVars => SrpInv'
<1>1. ASSUME SrpInv, UNCHANGED srpVars PROVE SrpInv'
  BY <1>1 DEF srpVars, SrpInv, SrpTypeOK, Stored, CountsFromLock, LockBoundsGuesses
<1> QED BY <1>1, SrpInvBegin, SrpInvVerify, SrpInvFails, SrpInvTime DEF SrpNext, SrpHandle

(* The lock bounds password guessing for any number of concurrent requests,   *)
(* any limit and calls to Redis that fail: of n requests, at most n - 1 get a *)
(* proof evaluated after the bucket is locked (srp.go's second check).       *)
THEOREM LockBounds == SrpSpec => []LockBoundsGuesses
<1>1. SrpInv => LockBoundsGuesses
  BY DEF SrpInv
<1> QED BY <1>1, SrpInvInit, SrpInvNext, PTL DEF SrpSpec

-----------------------------------------------------------------------------
(* SigningKeys, for one instance and at most one failed statement.  With two *)
(* instances a rotation is not seen by the other, with two faults the key in *)
(* use can be deleted (README, section 7): both theorems then fail.          *)

(* Tokens that are kept have not expired, and no stamp is in the future.     *)
TimesOK ==
    /\ \A t \in tokens : t.at <= month /\ month - t.at <= TokenLife
    /\ \A k \in KeyIds : rotatedAt[k] <= month

(* The key an instance signs with has its row and is in its cache.  Between  *)
(* the two statements of a rotation the row was marked this month; after a   *)
(* failed INSERT the marked key is still in use, which took a fault.         *)
SignerOK(i) ==
    /\ up[i] \in {"running", "rotating"} => activeKey[i] \in keyCache[i]
    /\ up[i] = "running" => keyStatus[activeKey[i]] \in {"active", "rotated"}
    /\ up[i] = "running" /\ keyStatus[activeKey[i]] = "rotated" => faults > 0
    /\ up[i] = "rotating" => keyStatus[activeKey[i]] = "rotated" /\ rotatedAt[activeKey[i]] = month
    /\ up[i] \in {"loading", "rotating"} => With("none") # {}

(* While the ticker has its cleanup to do, a marked key in use was marked    *)
(* this month.                                                               *)
SweepOK(i) ==
    sweep[i] => /\ up[i] \in {"running", "rotating"}
                /\ keyStatus[activeKey[i]] = "rotated" => rotatedAt[activeKey[i]] = month

(* A token may be younger than the mark of its key, after a failed INSERT.   *)
(* Its key is then in use, or the token is from before the instance's last   *)
(* start or tick, and no cleanup is due.                                     *)
Younger(t) == Sound(t) /\ keyStatus[t.kid] = "rotated" /\ t.at > rotatedAt[t.kid]

YoungerOK(i) ==
    \A t \in tokens : Younger(t) =>
        /\ faults > 0 /\ ~sweep[i]
        /\ \/ up[i] = "down"
           \/ up[i] = "running" /\ t.kid = activeKey[i]
           \/ t.at <= lastTick[i]

(* What is loaded or signed is in the cache.                                 *)
CacheOK(i) == up[i] # "down" => \A t \in tokens : Sound(t) => t.kid \in keyCache[i]

(* A minting request holds a key.                                            *)
MintOK(i) ==
    /\ mint[i] # "idle" => copied[i] \in KeyIds
    /\ up[i] \in {"running", "rotating"} => privKey[i] \in KeyIds

SigningInv(i) ==
    /\ SigningTypeOK /\ TimesOK /\ MintOK(i) /\ SignerOK(i) /\ SweepOK(i) /\ YoungerOK(i)
    /\ CacheOK(i) /\ KeyOutlivesTokens

(* A set of numbers has a least one.                                         *)
LEMMA NatMin == ASSUME NEW T \in SUBSET Nat, T # {} PROVE \E x \in T : \A y \in T : x <= y
<1>1. PICK x \in T : \A y \in T : ~(<<y, x>> \in OpToRel(<, Nat))
  BY NatLessThanWellFounded, WFMin
<1>2. \A y \in T : ~(y < x)
  BY <1>1 DEF OpToRel
<1> QED BY <1>2

(* A bounded set of numbers has a greatest one.                              *)
LEMMA NatMax ==
  ASSUME NEW n \in Nat, NEW T \in SUBSET (0..n), T # {}
  PROVE  \E x \in T : \A y \in T : y <= x
<1> DEFINE D == {d \in 0..n : n - d \in T}
<1>1. \A y \in T : n - y \in D /\ y \in 0..n
  <2> TAKE y \in T
  <2>1. n - y \in 0..n /\ n - (n - y) = y
    OBVIOUS
  <2> QED BY <2>1
<1>2. D \in SUBSET Nat /\ D # {}
  <2>1. D \in SUBSET Nat
    OBVIOUS
  <2>2. PICK z \in T : n - z \in D
    BY <1>1
  <2> QED BY <2>1, <2>2
<1>3. PICK d \in D : \A y \in D : d <= y
  BY <1>2, NatMin
<1>4. \A y \in T : y <= n - d
  BY <1>1, <1>3
<1> QED BY <1>3, <1>4

(* The keys that the INSERT and the start-up choose are keys of the table in *)
(* the status they are chosen by.                                            *)
LEMMA ChosenKeys ==
  /\ With("none") # {} => NextKey \in KeyIds /\ keyStatus[NextKey] = "none"
  /\ With("active") # {} => Newest(With("active")) \in KeyIds
                            /\ keyStatus[Newest(With("active"))] = "active"
<1>1. KeyIds \subseteq Nat /\ KeyIds \subseteq 0..MaxKeys /\ MaxKeys \in Nat
  BY BoundsAssumption DEF KeyIds
<1>2. With("none") # {} => \E x \in With("none") : \A y \in With("none") : x <= y
  BY <1>1, NatMin DEF With
<1>3. With("active") # {} => \E x \in With("active") : \A y \in With("active") : y <= x
  BY <1>1, NatMax DEF With
<1>4. With("none") # {} => NextKey \in With("none")
  BY <1>2 DEF NextKey
<1>5. With("active") # {} => Newest(With("active")) \in With("active")
  BY <1>3 DEF Newest
<1> QED BY <1>4, <1>5 DEF With

(* A rotation begins, or a start-up generates, only if a key is left.        *)
LEMMA KeyLeftSome == ASSUME NEW i, Insts = {i}, KeyLeft PROVE With("none") # {}
<1>1. IsFiniteSet(Insts)
  BY FS_Singleton
<1>2. {j \in Insts : up[j] \in {"loading", "rotating"}} \in SUBSET Insts
  OBVIOUS
<1>3. Cardinality({j \in Insts : up[j] \in {"loading", "rotating"}}) \in Nat
  BY <1>1, <1>2, FS_Subset, FS_CardinalityType
<1>4. Cardinality(With("none")) # 0
  <2>1. Cardinality(With("none")) > Cardinality({j \in Insts : up[j] \in {"loading", "rotating"}})
    BY DEF KeyLeft
  <2> QED BY <1>3, <2>1
<1> QED BY <1>4, FS_EmptySet

(* Nothing is signed or cached at the start.                                 *)
LEMMA SigningInvInit == ASSUME NEW i, Insts = {i}, SigningInit PROVE SigningInv(i)
<1> USE BoundsAssumption DEF SigningInit
<1>1. 0 \in 0..MaxMonth /\ 0 \in 0..MaxFaults
  OBVIOUS
<1>2. SigningTypeOK
  BY <1>1 DEF SigningTypeOK, NoKey
<1>3. TimesOK
  BY <1>1 DEF TimesOK
<1>4. MintOK(i) /\ SignerOK(i) /\ SweepOK(i) /\ YoungerOK(i) /\ CacheOK(i) /\ KeyOutlivesTokens
  BY DEF MintOK, SignerOK, SweepOK, YoungerOK, CacheOK, KeyOutlivesTokens
<1> QED BY <1>2, <1>3, <1>4 DEF SigningInv

(* A key is generated and stored, at start-up or by a rotation.              *)
LEMMA SigningInvStore ==
  ASSUME NEW i, Insts = {i}, MaxFaults <= 1, SigningInv(i), up[i] \in {"loading", "rotating"},
         generateAndStoreKey(i)
  PROVE  SigningInv(i)'
<1> USE BoundsAssumption, LifetimesAssumption DEF SigningInv, dbVars, ticker, mintVars, generateAndStoreKey
<1>0. NextKey \in KeyIds /\ keyStatus[NextKey] = "none"
  BY ChosenKeys DEF SignerOK
<1>1. SigningTypeOK'
  BY <1>0 DEF SigningTypeOK, SignerOK
<1>2. TimesOK'
  BY <1>0 DEF SigningTypeOK, TimesOK
<1>3. MintOK(i)' /\ SignerOK(i)'
  BY <1>0 DEF SigningTypeOK, MintOK, SignerOK, With
<1>4. SweepOK(i)'
  BY <1>0 DEF SigningTypeOK, SignerOK, SweepOK
<1>5. YoungerOK(i)'
  BY <1>0 DEF SigningTypeOK, TimesOK, SignerOK, SweepOK, YoungerOK, Younger, Sound, Tokens
<1>6. CacheOK(i)' /\ KeyOutlivesTokens'
  BY <1>0 DEF SigningTypeOK, SignerOK, CacheOK, KeyOutlivesTokens, Sound, With
<1> QED BY <1>1, <1>2, <1>3, <1>4, <1>5, <1>6

(* The start-up loads every row a token may need.                            *)
LEMMA SigningInvInitialize ==
  ASSUME NEW i, Insts = {i}, MaxFaults <= 1, SigningInv(i), Initialize(i)
  PROVE  SigningInv(i)'
<1> USE BoundsAssumption, LifetimesAssumption DEF SigningInv, dbVars, ticker, mintVars, Initialize
<1>0. /\ With("active") # {} => Newest(With("active")) \in KeyIds
                                /\ keyStatus[Newest(With("active"))] = "active"
      /\ KeyLeft => With("none") # {}
  BY ChosenKeys, KeyLeftSome
<1>1. SigningTypeOK'
  <2>1. keyCache' \in [Insts -> SUBSET KeyIds] /\ lastTick' \in [Insts -> 0..MaxMonth]
    BY DEF SigningTypeOK, With
  <2>2. /\ activeKey' \in [Insts -> KeyIds \cup {NoKey}]
        /\ privKey' \in [Insts -> KeyIds \cup {NoKey}]
        /\ up' \in [Insts -> {"down", "loading", "running", "rotating"}]
    BY <1>0 DEF SigningTypeOK
  <2> QED BY <2>1, <2>2 DEF SigningTypeOK
<1>2. TimesOK'
  BY <1>0 DEF SigningTypeOK, TimesOK
<1>3. MintOK(i)' /\ SignerOK(i)'
  BY <1>0 DEF SigningTypeOK, MintOK, SignerOK, With
<1>4. SweepOK(i)'
  BY <1>0 DEF SigningTypeOK, SignerOK, SweepOK
<1>5. YoungerOK(i)'
  BY <1>0 DEF SigningTypeOK, TimesOK, SignerOK, SweepOK, YoungerOK, Younger, Sound, Tokens
<1>6. CacheOK(i)' /\ KeyOutlivesTokens'
  <2>1. KeyOutlivesTokens'
    BY DEF KeyOutlivesTokens, Sound
  <2>2. \A t \in tokens : Sound(t) => t.kid \in With("active") \cup With("rotated")
    BY DEF KeyOutlivesTokens, With, SigningTypeOK, Tokens
  <2> QED BY <2>1, <2>2 DEF CacheOK, Sound, SigningTypeOK
<1> QED BY <1>1, <1>2, <1>3, <1>4, <1>5, <1>6

(* A rotation marks the key in use; a tick finds older exceptions expired.   *)
LEMMA SigningInvMark ==
  ASSUME NEW i, Insts = {i}, MaxFaults <= 1, SigningInv(i), RotateMark(i)
  PROVE  SigningInv(i)'
<1> USE BoundsAssumption, LifetimesAssumption DEF SigningInv, dbVars, ticker, mintVars, RotateMark
<1>0. With("none") # {} /\ activeKey[i] \in KeyIds
  BY KeyLeftSome DEF SignerOK, SigningTypeOK
<1>1. SigningTypeOK'
  <2>1. keyStatus' \in [KeyIds -> {"none", "active", "rotated", "gone"}]
    BY <1>0 DEF SigningTypeOK
  <2>2. rotatedAt' \in [KeyIds -> 0..MaxMonth]
    BY <1>0 DEF SigningTypeOK
  <2>3. lastTick' \in [Insts -> 0..MaxMonth] /\ sweep' \in [Insts -> BOOLEAN]
    <3>1. CASE UNCHANGED <<lastTick, sweep>>
      BY <3>1 DEF SigningTypeOK
    <3>2. CASE /\ lastTick' = [lastTick EXCEPT ![i] = month]
               /\ sweep' = [sweep EXCEPT ![i] = TRUE]
      BY <3>2 DEF SigningTypeOK
    <3> QED BY <3>1, <3>2
  <2> QED BY <2>1, <2>2, <2>3 DEF SigningTypeOK
<1>2. TimesOK'
  BY <1>0 DEF SigningTypeOK, TimesOK
<1>3. MintOK(i)' /\ SignerOK(i)'
  BY <1>0 DEF SigningTypeOK, MintOK, SignerOK, With
<1>4. SweepOK(i)'
  BY <1>0 DEF SigningTypeOK, SignerOK, SweepOK
<1>5. YoungerOK(i)'
  BY <1>0 DEF SigningTypeOK, TimesOK, SignerOK, SweepOK, YoungerOK, Younger, Sound, Tokens
<1>6. CacheOK(i)' /\ KeyOutlivesTokens'
  BY <1>0 DEF SigningTypeOK, SignerOK, CacheOK, KeyOutlivesTokens, Sound, With
<1> QED BY <1>1, <1>2, <1>3, <1>4, <1>5, <1>6

(* The one fault: the key in use was not marked before.                      *)
LEMMA SigningInvMarkFails ==
  ASSUME NEW i, Insts = {i}, MaxFaults <= 1, SigningInv(i), RotateMarkFails(i)
  PROVE  SigningInv(i)'
<1> USE BoundsAssumption, LifetimesAssumption DEF SigningInv, dbVars, ticker, mintVars, RotateMarkFails, Fault
<1>1. SigningTypeOK'
  BY DEF SigningTypeOK, SignerOK
<1>2. TimesOK'
  BY DEF SigningTypeOK, TimesOK
<1>3. MintOK(i)' /\ SignerOK(i)'
  BY DEF SigningTypeOK, MintOK, SignerOK, With
<1>4. SweepOK(i)'
  BY DEF SigningTypeOK, SignerOK, SweepOK
<1>5. YoungerOK(i)'
  BY DEF SigningTypeOK, TimesOK, SignerOK, SweepOK, YoungerOK, Younger, Sound, Tokens
<1>6. CacheOK(i)' /\ KeyOutlivesTokens'
  BY DEF SigningTypeOK, SignerOK, CacheOK, KeyOutlivesTokens, Sound, With
<1> QED BY <1>1, <1>2, <1>3, <1>4, <1>5, <1>6

(* The INSERT fails: the marked key stays in use.                            *)
LEMMA SigningInvStoreFails ==
  ASSUME NEW i, Insts = {i}, MaxFaults <= 1, SigningInv(i), RotateStoreFails(i)
  PROVE  SigningInv(i)'
<1> USE BoundsAssumption, LifetimesAssumption DEF SigningInv, dbVars, ticker, mintVars, RotateStoreFails, Fault
<1>1. SigningTypeOK'
  BY DEF SigningTypeOK, SignerOK
<1>2. TimesOK'
  BY DEF SigningTypeOK, TimesOK
<1>3. MintOK(i)' /\ SignerOK(i)'
  BY DEF SigningTypeOK, MintOK, SignerOK, With
<1>4. SweepOK(i)'
  BY DEF SigningTypeOK, SignerOK, SweepOK
<1>5. YoungerOK(i)'
  BY DEF SigningTypeOK, TimesOK, SignerOK, SweepOK, YoungerOK, Younger, Sound, Tokens
<1>6. CacheOK(i)' /\ KeyOutlivesTokens'
  BY DEF SigningTypeOK, SignerOK, CacheOK, KeyOutlivesTokens, Sound, With
<1> QED BY <1>1, <1>2, <1>3, <1>4, <1>5, <1>6

(* The cleanup deletes keys whose tokens have expired.                       *)
LEMMA SigningInvCleanup ==
  ASSUME NEW i, Insts = {i}, MaxFaults <= 1, SigningInv(i), CleanupExpiredKeys(i)
  PROVE  SigningInv(i)'
<1> USE BoundsAssumption, LifetimesAssumption DEF SigningInv, dbVars, ticker, mintVars, CleanupExpiredKeys, Fault, Due
<1>0. /\ ~Due(activeKey[i])
      /\ \A t \in tokens : Sound(t) => ~Due(t.kid)
  <2>1. ~Due(activeKey[i])
    BY DEF SigningTypeOK, SweepOK
  <2>2. ASSUME NEW t \in tokens, Sound(t), Due(t.kid) PROVE FALSE
    <3>1. ~Younger(t)
      BY DEF YoungerOK
    <3>2. t.at <= rotatedAt[t.kid]
      BY <2>2, <3>1 DEF Younger, SigningTypeOK, Tokens
    <3> QED BY <2>2, <3>2 DEF SigningTypeOK, TimesOK, Tokens
  <2> QED BY <2>1, <2>2
<1>1. SigningTypeOK'
  BY DEF SigningTypeOK, SignerOK
<1>2. TimesOK'
  BY DEF SigningTypeOK, TimesOK
<1>3. MintOK(i)' /\ SignerOK(i)'
  BY <1>0 DEF SigningTypeOK, MintOK, SignerOK, With
<1>4. SweepOK(i)'
  BY DEF SigningTypeOK, SignerOK, SweepOK
<1>5. YoungerOK(i)'
  BY DEF SigningTypeOK, TimesOK, SignerOK, SweepOK, YoungerOK, Younger, Sound, Tokens
<1>6. CacheOK(i)' /\ KeyOutlivesTokens'
  BY <1>0 DEF SigningTypeOK, Tokens, SignerOK, CacheOK, KeyOutlivesTokens, Sound, With
<1> QED BY <1>1, <1>2, <1>3, <1>4, <1>5, <1>6

(* Minting copies the private key.                                           *)
LEMMA SigningInvCopy ==
  ASSUME NEW i, Insts = {i}, MaxFaults <= 1, SigningInv(i), MintCopy(i)
  PROVE  SigningInv(i)'
<1> USE BoundsAssumption, LifetimesAssumption DEF SigningInv, dbVars, ticker, mintVars, MintCopy
<1>1. SigningTypeOK'
  BY DEF SigningTypeOK, SignerOK
<1>2. TimesOK'
  BY DEF SigningTypeOK, TimesOK
<1>3. MintOK(i)' /\ SignerOK(i)'
  BY DEF SigningTypeOK, MintOK, SignerOK, With
<1>4. SweepOK(i)'
  BY DEF SigningTypeOK, SignerOK, SweepOK
<1>5. YoungerOK(i)'
  BY DEF SigningTypeOK, TimesOK, SignerOK, SweepOK, YoungerOK, Younger, Sound, Tokens
<1>6. CacheOK(i)' /\ KeyOutlivesTokens'
  BY DEF SigningTypeOK, SignerOK, CacheOK, KeyOutlivesTokens, Sound, With
<1> QED BY <1>1, <1>2, <1>3, <1>4, <1>5, <1>6

(* A token is signed with the key in use.                                    *)
LEMMA SigningInvSign ==
  ASSUME NEW i, Insts = {i}, MaxFaults <= 1, SigningInv(i), MintSign(i)
  PROVE  SigningInv(i)'
<1> USE BoundsAssumption, LifetimesAssumption DEF SigningInv, dbVars, ticker, mintVars, MintSign
<1>0. [kid |-> activeKey[i], signed |-> copied[i], at |-> month] \in Tokens
  BY DEF SigningTypeOK, SignerOK, MintOK, Tokens
<1>1. SigningTypeOK'
  <2>1. tokens' \subseteq Tokens
    BY <1>0 DEF SigningTypeOK
  <2>2. mint' \in [Insts -> {"idle", "access", "refresh"}] /\ copied' \in [Insts -> KeyIds \cup {NoKey}]
    BY DEF SigningTypeOK
  <2> QED BY <2>1, <2>2 DEF SigningTypeOK
<1>2. TimesOK'
  BY DEF SigningTypeOK, TimesOK
<1>3. MintOK(i)' /\ SignerOK(i)'
  BY DEF SigningTypeOK, MintOK, SignerOK, With
<1>4. SweepOK(i)'
  BY DEF SigningTypeOK, SignerOK, SweepOK
<1>5. YoungerOK(i)'
  BY DEF SigningTypeOK, TimesOK, SignerOK, SweepOK, YoungerOK, Younger, Sound, Tokens
<1>6. CacheOK(i)' /\ KeyOutlivesTokens'
  BY DEF SigningTypeOK, SignerOK, CacheOK, KeyOutlivesTokens, Sound, With
<1> QED BY <1>1, <1>2, <1>3, <1>4, <1>5, <1>6

(* A crash forgets the memory of the instance.                               *)
LEMMA SigningInvCrash ==
  ASSUME NEW i, Insts = {i}, MaxFaults <= 1, SigningInv(i), Crash(i)
  PROVE  SigningInv(i)'
<1> USE BoundsAssumption, LifetimesAssumption DEF SigningInv, dbVars, ticker, mintVars, Crash
<1>1. SigningTypeOK'
  BY DEF SigningTypeOK, SignerOK
<1>2. TimesOK'
  BY DEF SigningTypeOK, TimesOK
<1>3. MintOK(i)' /\ SignerOK(i)'
  BY DEF SigningTypeOK, MintOK, SignerOK, With
<1>4. SweepOK(i)'
  BY DEF SigningTypeOK, SignerOK, SweepOK
<1>5. YoungerOK(i)'
  BY DEF SigningTypeOK, TimesOK, SignerOK, SweepOK, YoungerOK, Younger, Sound, Tokens
<1>6. CacheOK(i)' /\ KeyOutlivesTokens'
  BY DEF SigningTypeOK, SignerOK, CacheOK, KeyOutlivesTokens, Sound, With
<1> QED BY <1>1, <1>2, <1>3, <1>4, <1>5, <1>6

(* A month passes: no rotation or cleanup is under way.                      *)
LEMMA SigningInvTick ==
  ASSUME NEW i, Insts = {i}, MaxFaults <= 1, SigningInv(i), Tick
  PROVE  SigningInv(i)'
<1> USE BoundsAssumption, LifetimesAssumption DEF SigningInv, dbVars, ticker, mintVars, Tick, Expired
<1>1. SigningTypeOK'
  BY DEF SigningTypeOK, SignerOK
<1>2. TimesOK'
  BY DEF SigningTypeOK, TimesOK, Tokens
<1>3. MintOK(i)' /\ SignerOK(i)'
  BY DEF SigningTypeOK, MintOK, SignerOK, With
<1>4. SweepOK(i)'
  BY DEF SigningTypeOK, SignerOK, SweepOK
<1>5. YoungerOK(i)'
  BY DEF SigningTypeOK, TimesOK, SignerOK, SweepOK, YoungerOK, Younger, Sound, Tokens
<1>6. CacheOK(i)' /\ KeyOutlivesTokens'
  BY DEF SigningTypeOK, SignerOK, CacheOK, KeyOutlivesTokens, Sound, With
<1> QED BY <1>1, <1>2, <1>3, <1>4, <1>5, <1>6

(* Every step of the specification preserves the invariant.                  *)
LEMMA SigningInvNext ==
  ASSUME NEW i, Insts = {i}, MaxFaults <= 1
  PROVE  SigningInv(i) /\ [SigningNext]_signingVars => SigningInv(i)'
<1> SUFFICES ASSUME SigningInv(i), [SigningNext]_signingVars PROVE SigningInv(i)'
  OBVIOUS
<1>1. CASE UNCHANGED signingVars
  BY <1>1 DEF signingVars, dbVars, ticker, mintVars, SigningInv, SigningTypeOK, TimesOK, MintOK,
              SignerOK, SweepOK, YoungerOK, Younger, CacheOK, KeyOutlivesTokens, Sound, With
<1>2. CASE InitializeGenerate(i) \/ RotateStore(i)
  BY <1>2, SigningInvStore DEF InitializeGenerate, RotateStore
<1> QED BY <1>1, <1>2, SigningInvInitialize, SigningInvMark, SigningInvMarkFails,
           SigningInvStoreFails, SigningInvCleanup, SigningInvCopy, SigningInvSign,
           SigningInvCrash, SigningInvTick DEF SigningNext

(* An instance with at most one failed statement keeps the row of a key      *)
(* until every token it signed has expired, through rotations, cleanups,     *)
(* crashes between the statements of a rotation and restarts, and for any    *)
(* lifetimes in the order of key_rotation.go's.                              *)
THEOREM KeysOutliveTokens ==
  ASSUME NEW i, Insts = {i}, MaxFaults <= 1
  PROVE  SigningSpec => []KeyOutlivesTokens
<1>1. SigningInv(i) => KeyOutlivesTokens
  BY DEF SigningInv
<1> QED BY <1>1, SigningInvInit, SigningInvNext, PTL DEF SigningSpec

(* Under the same faults the running instance verifies every token that has  *)
(* not expired, also after a restart, which loads the cache from the table.  *)
THEOREM RestartsVerify ==
  ASSUME NEW i, Insts = {i}, MaxFaults <= 1
  PROVE  SigningSpec => []RestartVerifies
<1>1. SigningInv(i) => RestartVerifies
  BY DEF SigningInv, CacheOK, RestartVerifies, Verifies, Sound
<1> QED BY <1>1, SigningInvInit, SigningInvNext, PTL DEF SigningSpec

-----------------------------------------------------------------------------
(* The types of SigningKeys, for any finite set of instances and any number  *)
(* of faults.                                                                *)

Busy == {i \in Insts : up[i] \in {"loading", "rotating"}}

(* Whoever is going to store a key finds a number for it.                    *)
NumbersLeft ==
    /\ Cardinality(Busy) <= Cardinality(With("none"))
    /\ \A i \in Insts : up[i] \in {"running", "rotating"} =>
          /\ activeKey[i] \in KeyIds /\ keyStatus[activeKey[i]] # "none"
          /\ privKey[i] \in KeyIds

MintsHold == \A i \in Insts : mint[i] # "idle" => copied[i] \in KeyIds

SigningTypes == SigningTypeOK /\ NumbersLeft /\ MintsHold

(* The sets that are counted are finite.                                     *)
LEMMA CountedFinite ==
  /\ IsFiniteSet(Busy) /\ Cardinality(Busy) \in Nat
  /\ IsFiniteSet(With("none")) /\ Cardinality(With("none")) \in Nat
<1>1. Busy \in SUBSET Insts /\ With("none") \in SUBSET KeyIds
  BY DEF Busy, With
<1>2. IsFiniteSet(KeyIds)
  BY BoundsAssumption, FS_Interval DEF KeyIds
<1> QED BY <1>1, <1>2, InstsAssumption, FS_Subset, FS_CardinalityType

(* A step that takes no number and makes no further instance busy.           *)
LEMMA CountsKept ==
  ASSUME NumbersLeft, Busy' \subseteq Busy, With("none")' = With("none")
  PROVE  Cardinality(Busy') <= Cardinality(With("none")')
<1>1. Cardinality(Busy') \in Nat /\ Cardinality(Busy') <= Cardinality(Busy)
  BY CountedFinite, FS_Subset, FS_CardinalityType
<1> QED BY <1>1, CountedFinite DEF NumbersLeft

(* A step that makes an instance busy while KeyLeft.                         *)
LEMMA CountsTaken ==
  ASSUME NEW i \in Insts, KeyLeft, Busy' = Busy \cup {i}, With("none")' = With("none")
  PROVE  Cardinality(Busy') <= Cardinality(With("none")') /\ With("none") # {}
<1>1. Cardinality(Busy') <= Cardinality(Busy) + 1 /\ Cardinality(Busy') \in Nat
  <2>1. /\ IsFiniteSet(Busy \cup {i})
        /\ Cardinality(Busy \cup {i}) = IF i \in Busy THEN Cardinality(Busy) ELSE Cardinality(Busy) + 1
    BY CountedFinite, FS_AddElement
  <2> QED BY <2>1, CountedFinite
<1>2. Cardinality(Busy) < Cardinality(With("none"))
  BY DEF KeyLeft, Busy
<1> QED BY <1>1, <1>2, CountedFinite, FS_EmptySet

(* A busy instance has a number to store its key under.                      *)
LEMMA BusyHasNumber ==
  ASSUME NumbersLeft, NEW i \in Busy
  PROVE  NextKey \in KeyIds /\ keyStatus[NextKey] = "none"
<1>1. Cardinality(Busy) # 0
  BY CountedFinite, FS_EmptySet
<1>2. With("none") # {}
  BY <1>1, CountedFinite, FS_EmptySet DEF NumbersLeft
<1> QED BY <1>2, ChosenKeys

(* The initial types; nobody is busy.                                        *)
LEMMA SigningTypesInit == SigningInit => SigningTypes
<1> SUFFICES ASSUME SigningInit PROVE SigningTypes
  OBVIOUS
<1> USE BoundsAssumption DEF SigningInit
<1>1. 0 \in 0..MaxMonth /\ 0 \in 0..MaxFaults
  OBVIOUS
<1>2. SigningTypeOK
  BY <1>1 DEF SigningTypeOK, NoKey
<1>3. Cardinality(Busy) = 0
  <2>1. Busy = {}
    BY DEF Busy
  <2> QED BY <2>1, FS_EmptySet
<1>4. NumbersLeft /\ MintsHold
  BY <1>3, CountedFinite DEF NumbersLeft, MintsHold
<1> QED BY <1>2, <1>4 DEF SigningTypes

(* A key is generated and stored: one number and one busy instance fewer.    *)
LEMMA SigningTypesStore ==
  ASSUME SigningTypes, NEW i \in Busy, generateAndStoreKey(i)
  PROVE  SigningTypes'
<1> USE DEF SigningTypes, generateAndStoreKey, dbVars, ticker, mintVars
<1>1. NextKey \in KeyIds /\ keyStatus[NextKey] = "none" /\ i \in Insts
  BY BusyHasNumber DEF Busy
<1>2. SigningTypeOK'
  BY <1>1 DEF SigningTypeOK
<1>3. Cardinality(Busy') <= Cardinality(With("none")')
  <2>1. Busy' = Busy \ {i} /\ With("none")' = With("none") \ {NextKey}
    BY <1>1 DEF Busy, With, SigningTypeOK
  <2>2. /\ Cardinality(Busy \ {i}) = Cardinality(Busy) - 1
        /\ Cardinality(With("none") \ {NextKey}) = Cardinality(With("none")) - 1
    BY <1>1, CountedFinite, FS_RemoveElement DEF With
  <2>3. Cardinality(Busy \ {i}) <= Cardinality(With("none") \ {NextKey})
    BY <2>2, CountedFinite DEF NumbersLeft
  <2> QED BY <2>1, <2>3
<1>4. NumbersLeft'
  BY <1>1, <1>3 DEF NumbersLeft, SigningTypeOK
<1>5. MintsHold'
  BY DEF MintsHold
<1> QED BY <1>2, <1>4, <1>5

(* The other steps of an instance.                                           *)
LEMMA SigningTypesInstance ==
  ASSUME SigningTypes, NEW i \in Insts,
         \/ Initialize(i) \/ RotateMark(i) \/ RotateMarkFails(i) \/ RotateStoreFails(i)
         \/ CleanupExpiredKeys(i) \/ MintCopy(i) \/ MintSign(i) \/ Crash(i)
  PROVE  SigningTypes'
<1> USE BoundsAssumption DEF SigningTypes, dbVars, ticker, mintVars
<1>1. CASE Initialize(i)
  <2> USE <1>1 DEF Initialize
  <2>1. With("active") # {} => Newest(With("active")) \in KeyIds
                               /\ keyStatus[Newest(With("active"))] = "active"
    BY ChosenKeys
  <2>2. keyCache' \in [Insts -> SUBSET KeyIds] /\ lastTick' \in [Insts -> 0..MaxMonth]
    BY DEF SigningTypeOK, With
  <2>3. /\ activeKey' \in [Insts -> KeyIds \cup {NoKey}]
        /\ privKey' \in [Insts -> KeyIds \cup {NoKey}]
        /\ up' \in [Insts -> {"down", "loading", "running", "rotating"}]
    BY <2>1 DEF SigningTypeOK
  <2>4. SigningTypeOK'
    BY <2>2, <2>3 DEF SigningTypeOK
  <2>5. With("none")' = With("none")
    BY DEF With
  <2>6. Cardinality(Busy') <= Cardinality(With("none")')
    <3>1. CASE up' = [up EXCEPT ![i] = "running"]
      <4>1. Busy' \subseteq Busy
        BY <3>1 DEF Busy, SigningTypeOK
      <4> QED BY <2>5, <4>1, CountsKept
    <3>2. CASE KeyLeft /\ up' = [up EXCEPT ![i] = "loading"]
      <4>1. Busy' = Busy \cup {i}
        BY <3>2 DEF Busy, SigningTypeOK
      <4> QED BY <2>5, <3>2, <4>1, CountsTaken
    <3> QED BY <3>1, <3>2
  <2>7. NumbersLeft'
    BY <2>1, <2>6 DEF NumbersLeft, SigningTypeOK
  <2> QED BY <2>4, <2>7 DEF MintsHold
<1>2. CASE RotateMark(i)
  <2> USE <1>2 DEF RotateMark
  <2>1. activeKey[i] \in KeyIds /\ keyStatus[activeKey[i]] # "none"
    BY DEF NumbersLeft
  <2>2. keyStatus' \in [KeyIds -> {"none", "active", "rotated", "gone"}]
    BY <2>1 DEF SigningTypeOK
  <2>3. rotatedAt' \in [KeyIds -> 0..MaxMonth]
    BY <2>1 DEF SigningTypeOK
  <2>4. lastTick' \in [Insts -> 0..MaxMonth] /\ sweep' \in [Insts -> BOOLEAN]
    <3>1. CASE UNCHANGED <<lastTick, sweep>>
      BY <3>1 DEF SigningTypeOK
    <3>2. CASE /\ lastTick' = [lastTick EXCEPT ![i] = month]
               /\ sweep' = [sweep EXCEPT ![i] = TRUE]
      BY <3>2 DEF SigningTypeOK
    <3> QED BY <3>1, <3>2
  <2>5. SigningTypeOK'
    BY <2>2, <2>3, <2>4 DEF SigningTypeOK
  <2>6. With("none")' = With("none") /\ Busy' = Busy \cup {i}
    BY <2>1 DEF With, Busy, SigningTypeOK
  <2>7. Cardinality(Busy') <= Cardinality(With("none")')
    BY <2>6, CountsTaken
  <2>8. NumbersLeft'
    BY <2>1, <2>7 DEF NumbersLeft, SigningTypeOK
  <2> QED BY <2>5, <2>8 DEF MintsHold
<1>3. CASE RotateMarkFails(i)
  <2> USE <1>3 DEF RotateMarkFails, Fault
  <2>1. SigningTypeOK'
    BY DEF SigningTypeOK
  <2> QED BY <2>1 DEF NumbersLeft, Busy, With, MintsHold
<1>4. CASE RotateStoreFails(i)
  <2> USE <1>4 DEF RotateStoreFails, Fault
  <2>1. SigningTypeOK'
    BY DEF SigningTypeOK
  <2>2. Busy' \subseteq Busy /\ With("none")' = With("none")
    BY DEF Busy, With, SigningTypeOK
  <2>3. NumbersLeft'
    BY <2>2, CountsKept DEF NumbersLeft, SigningTypeOK
  <2> QED BY <2>1, <2>3 DEF MintsHold
<1>5. CASE CleanupExpiredKeys(i)
  <2> USE <1>5 DEF CleanupExpiredKeys, Fault
  <2>1. keyStatus' \in [KeyIds -> {"none", "active", "rotated", "gone"}]
        /\ \A k \in KeyIds : keyStatus'[k] = "none" <=> keyStatus[k] = "none"
    BY DEF Due, SigningTypeOK
  <2>2. SigningTypeOK'
    BY <2>1 DEF SigningTypeOK
  <2>3. Busy' \subseteq Busy /\ With("none")' = With("none")
    BY <2>1 DEF Busy, With, SigningTypeOK
  <2>4. NumbersLeft'
    BY <2>1, <2>3, CountsKept DEF NumbersLeft
  <2> QED BY <2>2, <2>4 DEF MintsHold
<1>6. CASE MintCopy(i)
  <2> USE <1>6 DEF MintCopy
  <2>1. SigningTypeOK' /\ MintsHold'
    BY DEF SigningTypeOK, MintsHold, NumbersLeft
  <2> QED BY <2>1 DEF NumbersLeft, Busy, With
<1>7. CASE MintSign(i)
  <2> USE <1>7 DEF MintSign
  <2>1. [kid |-> activeKey[i], signed |-> copied[i], at |-> month] \in Tokens
    BY DEF SigningTypeOK, NumbersLeft, MintsHold, Tokens
  <2>2. tokens' \subseteq Tokens
    BY <2>1 DEF SigningTypeOK
  <2>3. /\ mint' \in [Insts -> {"idle", "access", "refresh"}]
        /\ copied' \in [Insts -> KeyIds \cup {NoKey}]
        /\ MintsHold'
    BY DEF SigningTypeOK, MintsHold
  <2>4. SigningTypeOK'
    BY <2>2, <2>3 DEF SigningTypeOK
  <2> QED BY <2>3, <2>4 DEF NumbersLeft, Busy, With
<1>8. CASE Crash(i)
  <2> USE <1>8 DEF Crash
  <2>1. SigningTypeOK' /\ MintsHold'
    BY DEF SigningTypeOK, MintsHold
  <2>2. Busy' \subseteq Busy /\ With("none")' = With("none")
    BY DEF Busy, With, SigningTypeOK
  <2>3. NumbersLeft'
    BY <2>2, CountsKept DEF NumbersLeft, SigningTypeOK
  <2> QED BY <2>1, <2>3
<1> QED BY <1>1, <1>2, <1>3, <1>4, <1>5, <1>6, <1>7, <1>8

(* Every step of the specification keeps the types.                          *)
LEMMA SigningTypesNext == SigningTypes /\ [SigningNext]_signingVars => SigningTypes'
<1> SUFFICES ASSUME SigningTypes, [SigningNext]_signingVars PROVE SigningTypes'
  OBVIOUS
<1>1. CASE UNCHANGED signingVars
  BY <1>1 DEF signingVars, dbVars, ticker, mintVars, SigningTypes, SigningTypeOK, NumbersLeft,
              Busy, With, MintsHold
<1>2. ASSUME NEW i \in Insts, InitializeGenerate(i) \/ RotateStore(i) PROVE SigningTypes'
  BY <1>2, SigningTypesStore DEF InitializeGenerate, RotateStore, Busy
<1>3. CASE Tick
  <2>1. SigningTypeOK'
    BY <1>3, BoundsAssumption DEF Tick, SigningTypes, SigningTypeOK, dbVars, ticker, mintVars
  <2> QED BY <1>3, <2>1 DEF Tick, SigningTypes, NumbersLeft, Busy, With, MintsHold, dbVars, ticker, mintVars
<1> QED BY <1>1, <1>2, <1>3, SigningTypesInstance DEF SigningNext

(***************************************************************************)
(* Kid and signer, for any finite set of instances and any number of faults. *)
(* The second half of WrongKidIsRetired holds through a rotation as well;     *)
(* between the copy of the key and the kid, a rotation that ends has marked  *)
(* the copied key, and numbers are given out in order.                       *)
(***************************************************************************)
Retired(k) == keyStatus[k] \in {"rotated", "gone"}
InUse(i) == up[i] \in {"running", "rotating"}

NumberedInOrder == \A j, k \in KeyIds : keyStatus[j] = "none" /\ j <= k => keyStatus[k] = "none"

(* The key that the process signs with.                                      *)
SignsWithActive ==
    \A i \in Insts :
       /\ InUse(i) => privKey[i] = activeKey[i]
       /\ up[i] = "rotating" => Retired(activeKey[i])

(* The request that is minting.                                              *)
CopiesOK ==
    \A i \in Insts : mint[i] # "idle" =>
       /\ InUse(i) /\ keyStatus[copied[i]] # "none"
       /\ copied[i] # activeKey[i] => copied[i] < activeKey[i] /\ Retired(copied[i])

TokensOK ==
    \A t \in tokens :
       /\ keyStatus[t.signed] # "none"
       /\ t.kid # t.signed => t.signed < t.kid /\ Retired(t.signed)

KidInv == SigningTypes /\ NumberedInOrder /\ SignsWithActive /\ CopiesOK /\ TokensOK

(* At first there is at most the key with the least number.                  *)
LEMMA KidInvInit == SigningInit => KidInv
<1> SUFFICES ASSUME SigningInit PROVE KidInv
  OBVIOUS
<1>1. NumberedInOrder
  BY BoundsAssumption DEF SigningInit, NumberedInOrder, KeyIds
<1>2. SignsWithActive /\ CopiesOK /\ TokensOK
  BY DEF SigningInit, SignsWithActive, InUse, CopiesOK, TokensOK
<1> QED BY <1>1, <1>2, SigningTypesInit DEF KidInv

(* A step after which no row is new and no retired key is active again.      *)
LEMMA RowsKept ==
  ASSUME KidInv, SigningTypes',
         \A k \in KeyIds : /\ keyStatus'[k] = "none" <=> keyStatus[k] = "none"
                           /\ Retired(k) => Retired(k)'
  PROVE  /\ NumberedInOrder'
         /\ UNCHANGED tokens => TokensOK'
         /\ UNCHANGED <<up, activeKey, privKey>> => SignsWithActive'
         /\ UNCHANGED <<up, activeKey, mint, copied>> => CopiesOK'
<1>1. NumberedInOrder'
  BY DEF KidInv, NumberedInOrder
<1>2. UNCHANGED tokens => TokensOK'
  BY DEF KidInv, TokensOK, SigningTypes, SigningTypeOK, Tokens
<1>3. UNCHANGED <<up, activeKey, privKey>> => SignsWithActive'
  BY DEF KidInv, SignsWithActive, InUse, SigningTypes, NumbersLeft
<1>4. UNCHANGED <<up, activeKey, mint, copied>> => CopiesOK'
  BY DEF KidInv, CopiesOK, InUse, SigningTypes, MintsHold
<1> QED BY <1>1, <1>2, <1>3, <1>4

(* The new key has the least free number, above every key in use.            *)
LEMMA KidInvStore ==
  ASSUME KidInv, SigningTypes', NEW i \in Insts, InitializeGenerate(i) \/ RotateStore(i)
  PROVE  KidInv'
<1> USE DEF KidInv, generateAndStoreKey, dbVars, ticker, mintVars
<1>1. up[i] \in {"loading", "rotating"} /\ generateAndStoreKey(i)
  BY DEF InitializeGenerate, RotateStore
<1>2. NextKey \in KeyIds /\ keyStatus[NextKey] = "none"
  BY <1>1, BusyHasNumber DEF Busy, SigningTypes
<1>3. \A k \in KeyIds : keyStatus[k] # "none" => k < NextKey
  BY <1>2, BoundsAssumption DEF NumberedInOrder, KeyIds
<1>4. \A k \in KeyIds : keyStatus[k] = "none" => NextKey <= k
  <2>1. With("none") \in SUBSET Nat /\ With("none") # {}
    BY <1>2, BoundsAssumption DEF With, KeyIds
  <2>2. \E x \in With("none") : \A y \in With("none") : x <= y
    BY <2>1, NatMin
  <2> QED BY <2>2 DEF NextKey, With
<1>5. \A k \in KeyIds : k # NextKey => keyStatus'[k] = keyStatus[k]
  BY <1>1, <1>2 DEF SigningTypes, SigningTypeOK
<1>6. keyStatus'[NextKey] = "active"
  BY <1>1, <1>2 DEF SigningTypes, SigningTypeOK
<1>7. NumberedInOrder'
  BY <1>4, <1>5, <1>6, BoundsAssumption DEF NumberedInOrder, KeyIds
<1>8. SignsWithActive'
  BY <1>1, <1>2, <1>5 DEF SignsWithActive, InUse, Retired, SigningTypes, SigningTypeOK, NumbersLeft
<1>9. CopiesOK'
  <2> SUFFICES ASSUME NEW j \in Insts, mint'[j] # "idle"
               PROVE  /\ InUse(j)' /\ keyStatus'[copied'[j]] # "none"
                      /\ copied'[j] # activeKey'[j] => copied'[j] < activeKey'[j] /\ Retired(copied[j])'
    BY DEF CopiesOK
  <2>1. mint[j] # "idle" /\ copied'[j] = copied[j]
    BY <1>1
  <2>2. /\ InUse(j) /\ copied[j] \in KeyIds /\ keyStatus[copied[j]] # "none"
        /\ copied[j] # activeKey[j] => copied[j] < activeKey[j] /\ Retired(copied[j])
    BY <2>1 DEF CopiesOK, SigningTypes, MintsHold
  <2>3. copied[j] < NextKey /\ keyStatus'[copied[j]] = keyStatus[copied[j]]
    BY <1>3, <1>2, <1>5, <2>2
  <2>4. CASE j = i
    <3>1. up[i] = "rotating"
      BY <1>1, <2>2, <2>4 DEF InUse
    <3>2. Retired(copied[j])
      BY <2>2, <2>4, <3>1 DEF SignsWithActive
    <3>3. activeKey'[j] = NextKey /\ up'[j] = "running"
      BY <1>1, <2>4 DEF SigningTypes, SigningTypeOK
    <3> QED BY <2>1, <2>2, <2>3, <3>2, <3>3 DEF InUse, Retired
  <2>5. CASE j # i
    <3>1. activeKey'[j] = activeKey[j] /\ up'[j] = up[j]
      BY <1>1, <2>5 DEF SigningTypes, SigningTypeOK
    <3> QED BY <2>1, <2>2, <2>3, <3>1 DEF InUse, Retired
  <2> QED BY <2>4, <2>5
<1>10. TokensOK'
  BY <1>1, <1>2, <1>5 DEF TokensOK, Retired, SigningTypes, SigningTypeOK, Tokens
<1> QED BY <1>7, <1>8, <1>9, <1>10

(* The steps of an instance that store no key.                               *)
LEMMA KidInvInstance ==
  ASSUME KidInv, SigningTypes', NEW i \in Insts,
         \/ Initialize(i) \/ RotateMark(i) \/ RotateMarkFails(i) \/ RotateStoreFails(i)
         \/ CleanupExpiredKeys(i) \/ MintCopy(i) \/ MintSign(i) \/ Crash(i)
  PROVE  KidInv'
<1> USE DEF KidInv, dbVars, ticker, mintVars
<1>1. CASE Initialize(i)
  <2> USE <1>1 DEF Initialize
  <2>1. NumberedInOrder' /\ TokensOK'
    BY RowsKept DEF Retired
  <2>2. mint[i] = "idle"
    BY DEF CopiesOK, InUse
  <2>3. CopiesOK' /\ SignsWithActive'
    BY <2>2 DEF CopiesOK, SignsWithActive, InUse, Retired, SigningTypes, SigningTypeOK
  <2> QED BY <2>1, <2>3
<1>2. CASE RotateMark(i)
  <2> USE <1>2 DEF RotateMark
  <2>1. activeKey[i] \in KeyIds /\ keyStatus[activeKey[i]] # "none"
    BY DEF SigningTypes, NumbersLeft
  <2>2. \A k \in KeyIds : /\ keyStatus'[k] = "none" <=> keyStatus[k] = "none"
                          /\ Retired(k) => Retired(k)'
    BY <2>1 DEF Retired, SigningTypes, SigningTypeOK
  <2>3. NumberedInOrder' /\ TokensOK'
    BY <2>2, RowsKept
  <2>4. Retired(activeKey[i])'
    BY <2>1 DEF Retired, SigningTypes, SigningTypeOK
  <2>5. SignsWithActive'
    BY <2>2, <2>4 DEF SignsWithActive, InUse, SigningTypes, SigningTypeOK, NumbersLeft
  <2>6. CopiesOK'
    BY <2>2 DEF CopiesOK, InUse, SigningTypes, SigningTypeOK, MintsHold
  <2> QED BY <2>3, <2>5, <2>6
<1>3. CASE RotateMarkFails(i)
  BY <1>3, RowsKept DEF RotateMarkFails, Retired
<1>4. CASE RotateStoreFails(i)
  <2> USE <1>4 DEF RotateStoreFails
  <2>1. NumberedInOrder' /\ TokensOK'
    BY RowsKept DEF Retired
  <2>2. SignsWithActive' /\ CopiesOK'
    BY DEF SignsWithActive, CopiesOK, InUse, Retired, SigningTypes, SigningTypeOK
  <2> QED BY <2>1, <2>2
<1>5. CASE CleanupExpiredKeys(i)
  <2> USE <1>5 DEF CleanupExpiredKeys
  <2>1. \A k \in KeyIds : /\ keyStatus'[k] = "none" <=> keyStatus[k] = "none"
                          /\ Retired(k) => Retired(k)'
    BY DEF Due, Retired, SigningTypes, SigningTypeOK
  <2> QED BY <2>1, RowsKept
<1>6. CASE MintCopy(i)
  <2> USE <1>6 DEF MintCopy
  <2>1. NumberedInOrder' /\ TokensOK' /\ SignsWithActive'
    BY RowsKept DEF Retired
  <2>2. CopiesOK'
    BY DEF CopiesOK, SignsWithActive, InUse, Retired, SigningTypes, SigningTypeOK, NumbersLeft
  <2> QED BY <2>1, <2>2
<1>7. CASE MintSign(i)
  <2> USE <1>7 DEF MintSign
  <2>1. NumberedInOrder' /\ SignsWithActive'
    BY RowsKept DEF Retired
  <2>2. CopiesOK'
    BY DEF CopiesOK, InUse, Retired, SigningTypes, SigningTypeOK
  <2>3. TokensOK'
    BY DEF TokensOK, CopiesOK, Retired
  <2> QED BY <2>1, <2>2, <2>3
<1>8. CASE Crash(i)
  <2> USE <1>8 DEF Crash
  <2>1. NumberedInOrder' /\ TokensOK'
    BY RowsKept DEF Retired
  <2>2. SignsWithActive' /\ CopiesOK'
    BY DEF SignsWithActive, CopiesOK, InUse, Retired, SigningTypes, SigningTypeOK
  <2> QED BY <2>1, <2>2
<1> QED BY <1>1, <1>2, <1>3, <1>4, <1>5, <1>6, <1>7, <1>8

(* WrongKidIsRetired, for any number of instances, rotations, failures and   *)
(* restarts: the two locks of minting and rotating let a request misname its *)
(* key only across the end of a rotation.                                    *)
THEOREM MisnamesOnlyRetired == SigningSpec => []WrongKidIsRetired
<1>1. KidInv /\ [SigningNext]_signingVars => KidInv'
  <2> SUFFICES ASSUME KidInv, [SigningNext]_signingVars PROVE KidInv'
    OBVIOUS
  <2>1. SigningTypes'
    BY SigningTypesNext DEF KidInv
  <2>2. CASE UNCHANGED signingVars
    <3>1. UNCHANGED <<keyStatus, tokens, up, activeKey, privKey, mint, copied>>
      BY <2>2 DEF signingVars, dbVars, mintVars
    <3> QED BY <2>1, <3>1, RowsKept DEF KidInv, Retired
  <2>3. CASE Tick
    <3> USE <2>3 DEF Tick, dbVars, mintVars
    <3>1. NumberedInOrder' /\ SignsWithActive' /\ CopiesOK'
      BY <2>1, RowsKept DEF Retired
    <3>2. TokensOK'
      BY DEF KidInv, TokensOK, Retired
    <3> QED BY <2>1, <3>1, <3>2 DEF KidInv
  <2> QED BY <2>1, <2>2, <2>3, KidInvStore, KidInvInstance DEF SigningNext
<1>2. KidInv => WrongKidIsRetired
  BY DEF KidInv, TokensOK, SignsWithActive, InUse, Retired, WrongKidIsRetired
<1> QED BY <1>1, <1>2, KidInvInit, PTL DEF SigningSpec

-----------------------------------------------------------------------------
(* The three components side by side.                                        *)

AccountsInv ==
    /\ part = "srp" => SrpInv
    /\ part = "recovery" => RecoveryInv
    /\ part = "keys" => SigningTypes

(* The types of the accounts' components hold in every behaviour, for any     *)
(* requests, sessions, batches and instances and under every failure the     *)
(* models allow.                                                             *)
THEOREM AccountTypes == Spec => []TypeOK
<1>1. Init => AccountsInv
  BY SrpInvInit, RecoveryInvInit, SigningTypesInit DEF Init, AccountsInv
<1>2. AccountsInv /\ [Next]_<<srpVars, recoveryVars, signingVars, part>> => AccountsInv'
  BY SrpInvNext, RecoveryInvNext, SigningTypesNext DEF Next, AccountsInv
<1>3. AccountsInv => TypeOK
  BY DEF AccountsInv, TypeOK, SrpInv, RecoveryInv, SigningTypes
<1> QED BY <1>1, <1>2, <1>3, PTL DEF Spec
=============================================================================
