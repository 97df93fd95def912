------------------------- MODULE TokenSessionsProofs -------------------------
(***************************************************************************)
(* Proofs about TokenSessions, for every set of requests and pairs and any  *)
(* bound on the epoch.  The durable facts (cut-off of refresh, epoch of a   *)
(* family, mirror not ahead) hold although Redis may be flushed at any time; *)
(* single use of a refresh token rests on the revocation entries and is     *)
(* proved for behaviours without a flush.                                   *)
(***************************************************************************)
EXTENDS TokenSessions, TLAPS

Working == {"rotate", "mint", "register", "list", "revoke"}

(* Every epoch held anywhere is one the column has had.                      *)
EpochsBounded ==
    /\ mirror <= dbEpoch
    /\ \A p \in Pairs : epochOf[p] <= dbEpoch
    /\ \A r \in Reqs : epoch[r] <= dbEpoch /\ begunEpoch[r] <= dbEpoch

(* What a running handler remembers of its beginning.                        *)
BegunOK ==
    \A r \in Reqs : begunDeleted[r] => deleted

(* A refresh holds an issued pair; past the durable check it also holds the  *)
(* epoch of that pair, which was current when the request began.             *)
RefreshOK ==
    \A r \in Reqs : kind[r] = "refresh" =>
        /\ tok[r] \in Issued
        /\ pc[r] \in {"read", "mirror"} \cup Working
        /\ pc[r] \in Working =>
              /\ ~begunDeleted[r]
              /\ epochOf[tok[r]] >= begunEpoch[r]
              /\ epoch[r] = epochOf[tok[r]]
        /\ pc[r] = "register" => child[r] \in Issued

FamilyOK ==
    \A p \in Issued : familyOf[p] \in Issued /\ epochOf[p] = epochOf[familyOf[p]]

DInv == TypeOK /\ EpochsBounded /\ BegunOK /\ RefreshOK /\ FamilyOK

(* The initial state satisfies the durable invariant: nothing is issued.     *)
LEMMA DInvInit == Init => DInv
  <1> SUFFICES ASSUME Init PROVE DInv
    OBVIOUS
  <1>1. TypeOK
    BY DEF Init, TypeOK, StoreTypes, PairTypes, RequestTypes
  <1>2. EpochsBounded
    BY DEF Init, EpochsBounded
  <1>3. BegunOK
    BY DEF Init, BegunOK
  <1>4. RefreshOK
    BY DEF Init, RefreshOK
  <1>5. FamilyOK
    BY DEF Init, FamilyOK, Issued
  <1> QED BY <1>1, <1>2, <1>3, <1>4, <1>5 DEF DInv

(* A handler's locals keep their types when it moves on or returns.          *)
LEMMA GotoTypes ==
  ASSUME RequestTypes, NEW r \in Reqs,
         NEW l \in {"mirror", "issue", "rotate", "mint", "own", "list", "revoke", "bump"},
         Goto(r, l), UNCHANGED <<epoch, todo>>
  PROVE  RequestTypes'
  BY DEF RequestTypes, Goto, begunVars

(* The same for a handler that returns.                                      *)
LEMMA ReturnTypes ==
  ASSUME RequestTypes, NEW r \in Reqs, Return(r)
  PROVE  RequestTypes'
  BY DEF RequestTypes, Return

(* The arrival of a request preserves the durable invariant.                 *)
LEMMA DInvArrive ==
  ASSUME DInv, NEW r \in Reqs, Arrive(r)
  PROVE  DInv'
  <1>1. ASSUME NEW k \in {"login", "refresh", "logout", "delete"},
               NEW s \in {"read", "own", "bump"},
               NEW p \in Pairs \cup {None}, NEW jtis \in SUBSET Jtis,
               k = "refresh" => p \in Issued /\ s = "read",
               Begin(r, k, s, p, jtis)
        PROVE  DInv'
    <2> USE <1>1 DEF DInv, TypeOK, Begin, Issued, pgVars, redisVars, pairVars
    <2>1. StoreTypes' /\ PairTypes'
      BY DEF StoreTypes, PairTypes
    <2>2. RequestTypes'
      BY DEF StoreTypes, RequestTypes
    <2>3. EpochsBounded'
      BY DEF StoreTypes, RequestTypes, EpochsBounded
    <2>4. BegunOK'
      BY DEF StoreTypes, RequestTypes, BegunOK
    <2>5. RefreshOK'
      BY DEF RequestTypes, RefreshOK, Working
    <2>6. FamilyOK'
      BY DEF FamilyOK
    <2> QED BY <2>1, <2>2, <2>3, <2>4, <2>5, <2>6
  <1>2. CASE BeginLogin(r)
    BY <1>1, <1>2 DEF BeginLogin
  <1>3. CASE BeginRefresh(r)
    BY <1>1, <1>3 DEF BeginRefresh, Held, Issued
  <1>4. \A p \in Pairs : \A jtis \in Carried(p) : jtis \in SUBSET Jtis
    BY DEF Carried, Access, Refresh, Jtis
  <1>5. CASE BeginLogout(r)
    BY <1>1, <1>4, <1>5 DEF BeginLogout, Held
  <1>6. CASE BeginDelete(r)
    BY <1>1, <1>4, <1>6 DEF BeginDelete, Held
  <1> QED BY <1>2, <1>3, <1>5, <1>6 DEF Arrive
(* Every step of a handler preserves the durable invariant.                  *)
LEMMA DInvStep ==
  ASSUME DInv, NEW r \in Reqs, Step(r)
  PROVE  DInv'
  <1> USE NoneAssumption
  <1> USE DEF DInv, TypeOK, Goto, Return, Issued, Working, pgVars, redisVars, pairVars, begunVars
  <1>1. CASE LoginReadEpoch(r)
    <2>1. StoreTypes'
      BY <1>1 DEF LoginReadEpoch, StoreTypes, PairTypes, RequestTypes, RefreshOK, FamilyOK
    <2>2. PairTypes'
      BY <1>1 DEF LoginReadEpoch, PairTypes, RequestTypes, RefreshOK
    <2>3. RequestTypes'
      BY <1>1 DEF LoginReadEpoch, StoreTypes, RequestTypes
    <2>4. EpochsBounded'
      BY <1>1 DEF LoginReadEpoch, StoreTypes, PairTypes, RequestTypes, EpochsBounded, RefreshOK
    <2>5. BegunOK'
      BY <1>1 DEF LoginReadEpoch, StoreTypes, RequestTypes, BegunOK
    <2>6. RefreshOK'
      BY <1>1 DEF LoginReadEpoch, StoreTypes, PairTypes, RequestTypes, EpochsBounded, BegunOK, RefreshOK
    <2>7. FamilyOK'
      BY <1>1 DEF LoginReadEpoch, PairTypes, RequestTypes, RefreshOK, FamilyOK
    <2> QED BY <2>1, <2>2, <2>3, <2>4, <2>5, <2>6, <2>7
  <1>2. CASE LoginIssue(r)
    <2>1. StoreTypes'
      BY <1>2 DEF LoginIssue, GenerateTokenPairWithEpoch, RegisterIssuedTokens, Access, Refresh, Jtis, StoreTypes, PairTypes, RequestTypes, RefreshOK, FamilyOK
    <2>2. PairTypes'
      BY <1>2 DEF LoginIssue, GenerateTokenPairWithEpoch, RegisterIssuedTokens, Access, Refresh, Jtis, PairTypes, RequestTypes, RefreshOK
    <2>3. RequestTypes'
      BY <1>2 DEF LoginIssue, GenerateTokenPairWithEpoch, RegisterIssuedTokens, Access, Refresh, Jtis, StoreTypes, RequestTypes
    <2>4. EpochsBounded'
      BY <1>2 DEF LoginIssue, GenerateTokenPairWithEpoch, RegisterIssuedTokens, Access, Refresh, Jtis, StoreTypes, PairTypes, RequestTypes, EpochsBounded, RefreshOK
    <2>5. BegunOK'
      BY <1>2 DEF LoginIssue, GenerateTokenPairWithEpoch, RegisterIssuedTokens, Access, Refresh, Jtis, StoreTypes, RequestTypes, BegunOK
    <2>6. RefreshOK'
      BY <1>2 DEF LoginIssue, GenerateTokenPairWithEpoch, RegisterIssuedTokens, Access, Refresh, Jtis, StoreTypes, PairTypes, RequestTypes, EpochsBounded, BegunOK, RefreshOK
    <2>7. FamilyOK'
      BY <1>2 DEF LoginIssue, GenerateTokenPairWithEpoch, RegisterIssuedTokens, Access, Refresh, Jtis, PairTypes, RequestTypes, RefreshOK, FamilyOK
    <2> QED BY <2>1, <2>2, <2>3, <2>4, <2>5, <2>6, <2>7
  <1>3. CASE RefreshRead(r)
    <2>1. StoreTypes'
      BY <1>3 DEF RefreshRead, StoreTypes, PairTypes, RequestTypes, RefreshOK, FamilyOK
    <2>2. PairTypes'
      BY <1>3 DEF RefreshRead, PairTypes, RequestTypes, RefreshOK
    <2>3. RequestTypes'
      <3>1. CASE Return(r)
        BY <3>1, ReturnTypes
      <3>2. CASE Goto(r, "mirror")
        BY <1>3, <3>2 DEF RefreshRead, StoreTypes, RequestTypes
      <3>3. CASE Goto(r, "rotate")
        BY <1>3, <3>3 DEF RefreshRead, StoreTypes, RequestTypes
      <3> QED BY <1>3, <3>1, <3>2, <3>3 DEF RefreshRead
    <2>4. EpochsBounded'
      BY <1>3 DEF RefreshRead, StoreTypes, PairTypes, RequestTypes, EpochsBounded, RefreshOK
    <2>5. BegunOK'
      BY <1>3 DEF RefreshRead, StoreTypes, RequestTypes, BegunOK
    <2>6. RefreshOK'
      <3> USE <1>3 DEF RefreshRead, StoreTypes, PairTypes, RequestTypes
      <3>1. CASE deleted
        BY <3>1 DEF RefreshOK
      <3>2. CASE ~deleted /\ epochOf[tok[r]] < dbEpoch
        BY <3>2 DEF RefreshOK
      <3>3. CASE ~deleted /\ ~(epochOf[tok[r]] < dbEpoch)
        BY <3>3 DEF RefreshOK, EpochsBounded, BegunOK
      <3> QED BY <3>1, <3>2, <3>3
    <2>7. FamilyOK'
      BY <1>3 DEF RefreshRead, PairTypes, RequestTypes, RefreshOK, FamilyOK
    <2> QED BY <2>1, <2>2, <2>3, <2>4, <2>5, <2>6, <2>7
  <1>4. CASE RefreshRotate(r)
    <2>1. StoreTypes'
      BY <1>4 DEF RefreshRotate, AtomicRevoke, Refresh, Jtis, StoreTypes, PairTypes, RequestTypes, RefreshOK, FamilyOK
    <2>2. PairTypes'
      BY <1>4 DEF RefreshRotate, AtomicRevoke, Refresh, Jtis, PairTypes, RequestTypes, RefreshOK
    <2>3. RequestTypes'
      BY <1>4 DEF RefreshRotate, AtomicRevoke, Refresh, Jtis, StoreTypes, RequestTypes
    <2>4. EpochsBounded'
      BY <1>4 DEF RefreshRotate, AtomicRevoke, Refresh, Jtis, StoreTypes, PairTypes, RequestTypes, EpochsBounded, RefreshOK
    <2>5. BegunOK'
      BY <1>4 DEF RefreshRotate, AtomicRevoke, Refresh, Jtis, StoreTypes, RequestTypes, BegunOK
    <2>6. RefreshOK'
      BY <1>4 DEF RefreshRotate, AtomicRevoke, Refresh, Jtis, StoreTypes, PairTypes, RequestTypes, EpochsBounded, BegunOK, RefreshOK
    <2>7. FamilyOK'
      BY <1>4 DEF RefreshRotate, AtomicRevoke, Refresh, Jtis, PairTypes, RequestTypes, RefreshOK, FamilyOK
    <2> QED BY <2>1, <2>2, <2>3, <2>4, <2>5, <2>6, <2>7
  <1>5. CASE RefreshRotateFails(r)
    <2>1. StoreTypes'
      BY <1>5 DEF RefreshRotateFails, AtomicRevoke, Refresh, Jtis, StoreTypes, PairTypes, RequestTypes, RefreshOK, FamilyOK
    <2>2. PairTypes'
      BY <1>5 DEF RefreshRotateFails, AtomicRevoke, Refresh, Jtis, PairTypes, RequestTypes, RefreshOK
    <2>3. RequestTypes'
      BY <1>5 DEF RefreshRotateFails, AtomicRevoke, Refresh, Jtis, StoreTypes, RequestTypes
    <2>4. EpochsBounded'
      BY <1>5 DEF RefreshRotateFails, AtomicRevoke, Refresh, Jtis, StoreTypes, PairTypes, RequestTypes, EpochsBounded, RefreshOK
    <2>5. BegunOK'
      BY <1>5 DEF RefreshRotateFails, AtomicRevoke, Refresh, Jtis, StoreTypes, RequestTypes, BegunOK
    <2>6. RefreshOK'
      BY <1>5 DEF RefreshRotateFails, AtomicRevoke, Refresh, Jtis, StoreTypes, PairTypes, RequestTypes, EpochsBounded, BegunOK, RefreshOK
    <2>7. FamilyOK'
      BY <1>5 DEF RefreshRotateFails, AtomicRevoke, Refresh, Jtis, PairTypes, RequestTypes, RefreshOK, FamilyOK
    <2> QED BY <2>1, <2>2, <2>3, <2>4, <2>5, <2>6, <2>7
  <1>6. CASE RefreshMint(r)
    <2>1. StoreTypes'
      BY <1>6 DEF RefreshMint, GenerateTokenPairWithEpoch, SAdd, Access, Jtis, StoreTypes, PairTypes, RequestTypes, RefreshOK, FamilyOK
    <2>2. PairTypes'
      BY <1>6 DEF RefreshMint, GenerateTokenPairWithEpoch, SAdd, Access, Jtis, PairTypes, RequestTypes, RefreshOK
    <2>3. RequestTypes'
      BY <1>6 DEF RefreshMint, GenerateTokenPairWithEpoch, SAdd, Access, Jtis, StoreTypes, RequestTypes
    <2>4. EpochsBounded'
      BY <1>6 DEF RefreshMint, GenerateTokenPairWithEpoch, SAdd, Access, Jtis, StoreTypes, PairTypes, RequestTypes, EpochsBounded, RefreshOK
    <2>5. BegunOK'
      BY <1>6 DEF RefreshMint, GenerateTokenPairWithEpoch, SAdd, Access, Jtis, StoreTypes, RequestTypes, BegunOK
    <2>6. RefreshOK'
      BY <1>6 DEF RefreshMint, GenerateTokenPairWithEpoch, SAdd, Access, Jtis, StoreTypes, PairTypes, RequestTypes, EpochsBounded, BegunOK, RefreshOK
    <2>7. FamilyOK'
      BY <1>6 DEF RefreshMint, GenerateTokenPairWithEpoch, SAdd, Access, Jtis, PairTypes, RequestTypes, RefreshOK, FamilyOK
    <2> QED BY <2>1, <2>2, <2>3, <2>4, <2>5, <2>6, <2>7
  <1>7. CASE RefreshRegister(r)
    <2>1. StoreTypes'
      BY <1>7 DEF RefreshRegister, SAdd, Refresh, Jtis, StoreTypes, PairTypes, RequestTypes, RefreshOK, FamilyOK
    <2>2. PairTypes'
      BY <1>7 DEF RefreshRegister, SAdd, Refresh, Jtis, PairTypes, RequestTypes, RefreshOK
    <2>3. RequestTypes'
      BY <1>7 DEF RefreshRegister, SAdd, Refresh, Jtis, StoreTypes, RequestTypes
    <2>4. EpochsBounded'
      BY <1>7 DEF RefreshRegister, SAdd, Refresh, Jtis, StoreTypes, PairTypes, RequestTypes, EpochsBounded, RefreshOK
    <2>5. BegunOK'
      BY <1>7 DEF RefreshRegister, SAdd, Refresh, Jtis, StoreTypes, RequestTypes, BegunOK
    <2>6. RefreshOK'
      BY <1>7 DEF RefreshRegister, SAdd, Refresh, Jtis, StoreTypes, PairTypes, RequestTypes, EpochsBounded, BegunOK, RefreshOK
    <2>7. FamilyOK'
      BY <1>7 DEF RefreshRegister, SAdd, Refresh, Jtis, PairTypes, RequestTypes, RefreshOK, FamilyOK
    <2> QED BY <2>1, <2>2, <2>3, <2>4, <2>5, <2>6, <2>7
  <1>8. CASE RevokeOwn(r)
    <2>1. StoreTypes'
      BY <1>8 DEF RevokeOwn, StoreTypes, PairTypes, RequestTypes, RefreshOK, FamilyOK
    <2>2. PairTypes'
      BY <1>8 DEF RevokeOwn, PairTypes, RequestTypes, RefreshOK
    <2>3. RequestTypes'
      BY <1>8 DEF RevokeOwn, StoreTypes, RequestTypes
    <2>4. EpochsBounded'
      BY <1>8 DEF RevokeOwn, StoreTypes, PairTypes, RequestTypes, EpochsBounded, RefreshOK
    <2>5. BegunOK'
      BY <1>8 DEF RevokeOwn, StoreTypes, RequestTypes, BegunOK
    <2>6. RefreshOK'
      BY <1>8 DEF RevokeOwn, StoreTypes, PairTypes, RequestTypes, EpochsBounded, BegunOK, RefreshOK
    <2>7. FamilyOK'
      BY <1>8 DEF RevokeOwn, PairTypes, RequestTypes, RefreshOK, FamilyOK
    <2> QED BY <2>1, <2>2, <2>3, <2>4, <2>5, <2>6, <2>7
  <1>9. CASE BumpUserTokenEpoch(r)
    <2>1. StoreTypes'
      BY <1>9 DEF BumpUserTokenEpoch, StoreTypes, PairTypes, RequestTypes, RefreshOK, FamilyOK
    <2>2. PairTypes'
      BY <1>9 DEF BumpUserTokenEpoch, PairTypes, RequestTypes, RefreshOK
    <2>3. RequestTypes'
      BY <1>9 DEF BumpUserTokenEpoch, StoreTypes, RequestTypes
    <2>4. EpochsBounded'
      BY <1>9 DEF BumpUserTokenEpoch, StoreTypes, PairTypes, RequestTypes, EpochsBounded, RefreshOK
    <2>5. BegunOK'
      BY <1>9 DEF BumpUserTokenEpoch, StoreTypes, RequestTypes, BegunOK
    <2>6. RefreshOK'
      BY <1>9 DEF BumpUserTokenEpoch, StoreTypes, PairTypes, RequestTypes, EpochsBounded, BegunOK, RefreshOK
    <2>7. FamilyOK'
      BY <1>9 DEF BumpUserTokenEpoch, PairTypes, RequestTypes, RefreshOK, FamilyOK
    <2> QED BY <2>1, <2>2, <2>3, <2>4, <2>5, <2>6, <2>7
  <1>10. CASE DbError(r)
    <2>1. StoreTypes'
      BY <1>10 DEF DbError, StoreTypes, PairTypes, RequestTypes, RefreshOK, FamilyOK
    <2>2. PairTypes'
      BY <1>10 DEF DbError, PairTypes, RequestTypes, RefreshOK
    <2>3. RequestTypes'
      BY <1>10 DEF DbError, StoreTypes, RequestTypes
    <2>4. EpochsBounded'
      BY <1>10 DEF DbError, StoreTypes, PairTypes, RequestTypes, EpochsBounded, RefreshOK
    <2>5. BegunOK'
      BY <1>10 DEF DbError, StoreTypes, RequestTypes, BegunOK
    <2>6. RefreshOK'
      BY <1>10 DEF DbError, StoreTypes, PairTypes, RequestTypes, EpochsBounded, BegunOK, RefreshOK
    <2>7. FamilyOK'
      BY <1>10 DEF DbError, PairTypes, RequestTypes, RefreshOK, FamilyOK
    <2> QED BY <2>1, <2>2, <2>3, <2>4, <2>5, <2>6, <2>7
  <1>11. CASE WriteMirror(r)
    <2>1. StoreTypes'
      BY <1>11 DEF WriteMirror, setEpochMirror, StoreTypes, PairTypes, RequestTypes, RefreshOK, FamilyOK
    <2>2. PairTypes'
      BY <1>11 DEF WriteMirror, setEpochMirror, PairTypes, RequestTypes, RefreshOK
    <2>3. RequestTypes'
      <3>1. CASE Return(r)
        BY <3>1, ReturnTypes
      <3>2. CASE \E l \in {"issue", "own", "bump"} : Goto(r, l) /\ UNCHANGED <<epoch, todo>>
        BY <3>2, GotoTypes
      <3> QED BY <1>11, <3>1, <3>2 DEF WriteMirror
    <2>4. EpochsBounded'
      BY <1>11 DEF WriteMirror, setEpochMirror, StoreTypes, PairTypes, RequestTypes, EpochsBounded, RefreshOK
    <2>5. BegunOK'
      BY <1>11 DEF WriteMirror, setEpochMirror, StoreTypes, RequestTypes, BegunOK
    <2>6. RefreshOK'
      BY <1>11 DEF WriteMirror, setEpochMirror, StoreTypes, PairTypes, RequestTypes, EpochsBounded, BegunOK, RefreshOK
    <2>7. FamilyOK'
      BY <1>11 DEF WriteMirror, setEpochMirror, PairTypes, RequestTypes, RefreshOK, FamilyOK
    <2> QED BY <2>1, <2>2, <2>3, <2>4, <2>5, <2>6, <2>7
  <1>12. CASE ListTokens(r)
    <2>1. StoreTypes'
      BY <1>12 DEF ListTokens, StoreTypes, PairTypes, RequestTypes, RefreshOK, FamilyOK
    <2>2. PairTypes'
      BY <1>12 DEF ListTokens, PairTypes, RequestTypes, RefreshOK
    <2>3. RequestTypes'
      BY <1>12 DEF ListTokens, StoreTypes, RequestTypes
    <2>4. EpochsBounded'
      BY <1>12 DEF ListTokens, StoreTypes, PairTypes, RequestTypes, EpochsBounded, RefreshOK
    <2>5. BegunOK'
      BY <1>12 DEF ListTokens, StoreTypes, RequestTypes, BegunOK
    <2>6. RefreshOK'
      BY <1>12 DEF ListTokens, StoreTypes, PairTypes, RequestTypes, EpochsBounded, BegunOK, RefreshOK
    <2>7. FamilyOK'
      BY <1>12 DEF ListTokens, PairTypes, RequestTypes, RefreshOK, FamilyOK
    <2> QED BY <2>1, <2>2, <2>3, <2>4, <2>5, <2>6, <2>7
  <1>13. CASE ListTokensFails(r)
    <2>1. StoreTypes'
      BY <1>13 DEF ListTokensFails, StoreTypes, PairTypes, RequestTypes, RefreshOK, FamilyOK
    <2>2. PairTypes'
      BY <1>13 DEF ListTokensFails, PairTypes, RequestTypes, RefreshOK
    <2>3. RequestTypes'
      <3>1. CASE Return(r)
        BY <3>1, ReturnTypes
      <3>2. CASE \E l \in {"issue", "own", "bump"} : Goto(r, l) /\ UNCHANGED <<epoch, todo>>
        BY <3>2, GotoTypes
      <3> QED BY <1>13, <3>1, <3>2 DEF ListTokensFails
    <2>4. EpochsBounded'
      BY <1>13 DEF ListTokensFails, StoreTypes, PairTypes, RequestTypes, EpochsBounded, RefreshOK
    <2>5. BegunOK'
      BY <1>13 DEF ListTokensFails, StoreTypes, RequestTypes, BegunOK
    <2>6. RefreshOK'
      BY <1>13 DEF ListTokensFails, StoreTypes, PairTypes, RequestTypes, EpochsBounded, BegunOK, RefreshOK
    <2>7. FamilyOK'
      BY <1>13 DEF ListTokensFails, PairTypes, RequestTypes, RefreshOK, FamilyOK
    <2> QED BY <2>1, <2>2, <2>3, <2>4, <2>5, <2>6, <2>7
  <1>14. CASE RevokeOne(r)
    <2>1. StoreTypes'
      BY <1>14 DEF RevokeOne, StoreTypes, PairTypes, RequestTypes, RefreshOK, FamilyOK
    <2>2. PairTypes'
      BY <1>14 DEF RevokeOne, PairTypes, RequestTypes, RefreshOK
    <2>3. RequestTypes'
      BY <1>14 DEF RevokeOne, StoreTypes, RequestTypes
    <2>4. EpochsBounded'
      BY <1>14 DEF RevokeOne, StoreTypes, PairTypes, RequestTypes, EpochsBounded, RefreshOK
    <2>5. BegunOK'
      BY <1>14 DEF RevokeOne, StoreTypes, RequestTypes, BegunOK
    <2>6. RefreshOK'
      BY <1>14 DEF RevokeOne, StoreTypes, PairTypes, RequestTypes, EpochsBounded, BegunOK, RefreshOK
    <2>7. FamilyOK'
      BY <1>14 DEF RevokeOne, PairTypes, RequestTypes, RefreshOK, FamilyOK
    <2> QED BY <2>1, <2>2, <2>3, <2>4, <2>5, <2>6, <2>7
  <1>15. CASE RevokeDone(r)
    <2>1. StoreTypes'
      BY <1>15 DEF RevokeDone, DropTokens, StoreTypes, PairTypes, RequestTypes, RefreshOK, FamilyOK
    <2>2. PairTypes'
      BY <1>15 DEF RevokeDone, PairTypes, RequestTypes, RefreshOK
    <2>3. RequestTypes'
      <3>1. CASE Return(r)
        BY <3>1, ReturnTypes
      <3>2. CASE \E l \in {"issue", "own", "bump"} : Goto(r, l) /\ UNCHANGED <<epoch, todo>>
        BY <3>2, GotoTypes
      <3> QED BY <1>15, <3>1, <3>2 DEF RevokeDone
    <2>4. EpochsBounded'
      BY <1>15 DEF RevokeDone, StoreTypes, PairTypes, RequestTypes, EpochsBounded, RefreshOK
    <2>5. BegunOK'
      BY <1>15 DEF RevokeDone, StoreTypes, RequestTypes, BegunOK
    <2>6. RefreshOK'
      BY <1>15 DEF RevokeDone, StoreTypes, PairTypes, RequestTypes, EpochsBounded, BegunOK, RefreshOK
    <2>7. FamilyOK'
      BY <1>15 DEF RevokeDone, PairTypes, RequestTypes, RefreshOK, FamilyOK
    <2> QED BY <2>1, <2>2, <2>3, <2>4, <2>5, <2>6, <2>7
  <1> QED BY <1>1, <1>2, <1>3, <1>4, <1>5, <1>6, <1>7, <1>8, <1>9, <1>10, <1>11, <1>12, <1>13, <1>14, <1>15 DEF Step

(* A flush, and a stuttering step, preserve it too.                          *)
LEMMA DInvOther ==
  ASSUME DInv, RedisFlush \/ UNCHANGED vars
  PROVE  DInv'
  <1>1. CASE RedisFlush
    BY <1>1 DEF DInv, TypeOK, StoreTypes, PairTypes, RequestTypes, EpochsBounded, BegunOK,
       RefreshOK, FamilyOK, Issued, RedisFlush, pgVars, pairVars, reqVars, begunVars
  <1>2. CASE UNCHANGED vars
    BY <1>2 DEF DInv, TypeOK, StoreTypes, PairTypes, RequestTypes, EpochsBounded, BegunOK,
       RefreshOK, FamilyOK, Issued, vars, pgVars, redisVars, pairVars, reqVars, begunVars
  <1> QED BY <1>1, <1>2

(* The durable invariant holds however requests interleave, whatever calls   *)
(* fail and whenever Redis is flushed.                                       *)
THEOREM DurableInvariant == SpecFlush => []DInv
  <1>1. DInv /\ [NextFlush]_vars => DInv'
    BY DInvArrive, DInvStep, DInvOther DEF NextFlush, Next
  <1> QED BY DInvInit, <1>1, PTL DEF SpecFlush

(* Types of the stores, the claims and the handlers' locals.                 *)
THEOREM TypeCorrect == SpecFlush => []TypeOK
  <1>1. DInv => TypeOK
    BY DEF DInv
  <1> QED BY DurableInvariant, <1>1, PTL

(* Refresh never mints for an account that was logged out everywhere since   *)
(* the token was issued, or deleted, before the request began.               *)
THEOREM RefreshCutOff == SpecFlush => []DurableCutOff
  <1>1. DInv => DurableCutOff
    BY DEF DInv, RefreshOK, DurableCutOff, Working
  <1> QED BY DurableInvariant, <1>1, PTL

(* No family of tokens outlives an increment of the epoch.                   *)
THEOREM FamilyEpoch == SpecFlush => []FamilyKeepsEpoch
  <1>1. DInv => FamilyKeepsEpoch
    BY DEF DInv, FamilyOK, FamilyKeepsEpoch
  <1> QED BY DurableInvariant, <1>1, PTL

(* The mirror and the claims never run ahead of users.token_epoch.           *)
THEOREM MirrorBehind == SpecFlush => []MirrorNotAhead
  <1>1. DInv => MirrorNotAhead
    BY DEF DInv, EpochsBounded, MirrorNotAhead, Issued
  <1> QED BY DurableInvariant, <1>1, PTL

-----------------------------------------------------------------------------
(* Single use.  A refresh token that was rotated, or whose rotation is about *)
(* to mint, has its revocation entry.                                        *)

SpentRevoked ==
    /\ \A p \in Issued : parentOf[p] # None => Refresh(parentOf[p]) \in revoked
    /\ \A r \in Reqs : Minting(r) => Refresh(tok[r]) \in revoked

SInv == DInv /\ SpentRevoked /\ RefreshSingleUse

(* The initial state satisfies the single-use invariant.                     *)
LEMMA SInvInit == Init => SInv
  BY DInvInit DEF Init, SInv, SpentRevoked, RefreshSingleUse, Issued, Minting

(* A step that mints nothing, starts no minting and drops no entry.          *)
LEMMA SInvFrame ==
  ASSUME SInv, DInv',
         UNCHANGED pairVars, revoked \subseteq revoked',
         \A r \in Reqs : Minting(r)' => Minting(r) /\ tok'[r] = tok[r]
  PROVE  SInv'
  BY DEF SInv, SpentRevoked, RefreshSingleUse, Issued, pairVars

(* Every step of a handler preserves the single-use invariant.               *)
LEMMA SInvStep ==
  ASSUME SInv, NEW r \in Reqs, Arrive(r) \/ Step(r)
  PROVE  SInv'
  <1>0. DInv'
    BY DInvArrive, DInvStep DEF SInv
  <1> USE DEF SInv, DInv, TypeOK, Minting, Goto, Return, pgVars, redisVars, pairVars, begunVars
  <1>1. CASE Arrive(r)
    BY <1>0, <1>1, SInvFrame
    DEF Arrive, BeginLogin, BeginRefresh, BeginLogout, BeginDelete, Begin, RequestTypes
  <1>2. CASE LoginReadEpoch(r)
    BY <1>0, <1>2, SInvFrame DEF LoginReadEpoch, RequestTypes
  <1>3. CASE RefreshRead(r)
    BY <1>0, <1>3, SInvFrame DEF RefreshRead, RequestTypes
  <1>4. CASE RefreshRotateFails(r)
    BY <1>0, <1>4, SInvFrame DEF RefreshRotateFails, AtomicRevoke, RequestTypes
  <1>5. CASE RevokeOwn(r)
    BY <1>0, <1>5, SInvFrame DEF RevokeOwn, RequestTypes
  <1>6. CASE BumpUserTokenEpoch(r)
    BY <1>0, <1>6, SInvFrame DEF BumpUserTokenEpoch, RequestTypes
  <1>7. CASE DbError(r)
    BY <1>0, <1>7, SInvFrame DEF DbError, RequestTypes
  <1>8. CASE WriteMirror(r)
    BY <1>0, <1>8, SInvFrame DEF WriteMirror, RequestTypes
  <1>9. CASE ListTokens(r)
    BY <1>0, <1>9, SInvFrame DEF ListTokens, RequestTypes
  <1>10. CASE ListTokensFails(r)
    BY <1>0, <1>10, SInvFrame DEF ListTokensFails, RequestTypes
  <1>11. CASE RevokeOne(r)
    BY <1>0, <1>11, SInvFrame DEF RevokeOne, RequestTypes
  <1>12. CASE RevokeDone(r)
    BY <1>0, <1>12, SInvFrame DEF RevokeDone, RequestTypes
  <1>13. CASE RefreshRegister(r)
    BY <1>0, <1>13 DEF RefreshRegister, SpentRevoked, RefreshSingleUse, RefreshOK, Issued,
       RequestTypes, PairTypes
  <1>14. CASE LoginIssue(r)
    BY <1>0, <1>14, NoneAssumption DEF LoginIssue, GenerateTokenPairWithEpoch, SpentRevoked,
       RefreshSingleUse, RefreshOK, Issued, RequestTypes, PairTypes
  <1>15. CASE RefreshRotate(r)
    <2>1. CASE Refresh(tok[r]) \in revoked
      BY <1>0, <1>15, <2>1, SInvFrame DEF RefreshRotate, AtomicRevoke, RequestTypes
    <2>2. CASE Refresh(tok[r]) \notin revoked
      <3>1. \A p \in Issued : parentOf[p] # tok[r]
        BY <1>15, <2>2, NoneAssumption DEF SpentRevoked, RefreshOK, Issued, PairTypes, RequestTypes, RefreshRotate
      <3>2. \A s \in Reqs : Minting(s) => tok[s] # tok[r]
        BY <2>2 DEF SpentRevoked
      <3>3. /\ revoked' = revoked \cup {Refresh(tok[r])}
            /\ UNCHANGED <<pairVars, tok>>
            /\ \A s \in Reqs : s # r => (Minting(s)' <=> Minting(s))
        BY <1>15 DEF RefreshRotate, AtomicRevoke, RequestTypes
      <3>4. SpentRevoked'
        BY <3>1, <3>2, <3>3 DEF SpentRevoked, Issued
      <3>5. RefreshSingleUse'
        <4> HIDE DEF Minting
        <4> QED BY <3>1, <3>2, <3>3 DEF RefreshSingleUse, Issued
      <3> QED BY <1>0, <3>4, <3>5
    <2> QED BY <2>1, <2>2
  <1>16. CASE RefreshMint(r)
    <2>1. PICK p \in Pairs : GenerateTokenPairWithEpoch(p, epoch[r], familyOf[tok[r]], tok[r], "minted")
      BY <1>16 DEF RefreshMint
    <2>2. p \notin Issued /\ Issued' = Issued \cup {p}
      BY <2>1 DEF GenerateTokenPairWithEpoch, Issued, PairTypes
    <2>3. parentOf' = [parentOf EXCEPT ![p] = tok[r]]
      BY <2>1 DEF GenerateTokenPairWithEpoch
    <2>4. /\ Minting(r) /\ ~Minting(r)'
          /\ UNCHANGED <<revoked, tok>>
          /\ \A s \in Reqs : s # r => (Minting(s)' <=> Minting(s))
      BY <1>16 DEF RefreshMint, RequestTypes
    <2>5. Refresh(tok[r]) \in revoked /\ \A q \in Issued : parentOf[q] # tok[r]
      BY <2>4 DEF SpentRevoked, RefreshSingleUse
    <2>6. \A s \in Reqs : s # r /\ Minting(s) => tok[s] # tok[r]
      BY <2>4 DEF RefreshSingleUse
    <2>7. \A q \in Issued : q \in Pairs /\ parentOf'[q] = parentOf[q]
      BY <2>2, <2>3 DEF Issued, PairTypes
    <2>8. parentOf'[p] = tok[r]
      BY <2>3 DEF PairTypes
    <2>9. SpentRevoked'
      <3> HIDE DEF Minting
      <3> QED BY <2>2, <2>4, <2>5, <2>6, <2>7, <2>8 DEF SpentRevoked
    <2>10. RefreshSingleUse'
      <3> HIDE DEF Minting
      <3> QED BY <2>2, <2>4, <2>5, <2>6, <2>7, <2>8 DEF RefreshSingleUse
    <2> QED BY <1>0, <2>9, <2>10
  <1> QED BY <1>1, <1>2, <1>3, <1>4, <1>5, <1>6, <1>7, <1>8, <1>9, <1>10, <1>11, <1>12, <1>13, <1>14, <1>15, <1>16 DEF Step

(* So does every step of the system without a flush.                         *)
LEMMA SInvNext == SInv /\ [Next]_vars => SInv'
  <1>1. ASSUME SInv, UNCHANGED vars PROVE SInv'
    <2>1. DInv'
      BY <1>1, DInvOther DEF SInv
    <2> QED BY <1>1, <2>1, SInvFrame DEF vars, redisVars, pairVars, reqVars, Minting
  <1> QED BY <1>1, SInvStep DEF Next

(* Without a flush of Redis a refresh token is rotated at most once.         *)
THEOREM SingleUse == Spec => []RefreshSingleUse
  <1>1. SInv => RefreshSingleUse
    BY DEF SInv
  <1> QED BY SInvInit, SInvNext, <1>1, PTL DEF Spec

-----------------------------------------------------------------------------
(* No session escapes bulk revocation.  What a handler still has to revoke   *)
(* is only ever dropped by being revoked: its list is empty wherever it is   *)
(* replaced or thrown away.  A deletion drops the set of tokens only after   *)
(* its transaction has marked the account.                                   *)

TodoOK ==
    \A r \in Reqs : todo[r] # {} =>
        \/ pc[r] \in {"own", "revoke"}
        \/ kind[r] = "delete" /\ pc[r] \in {"bump", "mirror"}

DeletesOK ==
    \A r \in Reqs : kind[r] = "delete" =>
        /\ pc[r] \in {"bump", "mirror", "own", "list", "revoke"}
        /\ pc[r] # "bump" => deleted

(* What NoUntrackedSession says of one pair.                                 *)
Tracked(p) ==
    \/ deleted \/ epochOf[p] < dbEpoch
    \/ Refresh(p) \in userTokens \cup revoked
    \/ \E r \in Reqs : Refresh(p) \in todo[r] \/ (kind[r] = "logout" /\ pc[r] = "bump")

UInv == DInv /\ TodoOK /\ DeletesOK /\ \A p \in Held : Tracked(p)

(* The initial state satisfies it: no handler runs and nothing is held.      *)
LEMMA UInvInit == Init => UInv
  BY DInvInit DEF Init, UInv, TodoOK, DeletesOK, Held

(* A step of one handler concerns the tracking of a pair only through the    *)
(* stores and through what the handler itself held.                          *)
LEMMA TrackedKept ==
  ASSUME DInv, DInv', NEW r \in Reqs, NEW p \in Pairs, Tracked(p), epochOf'[p] = epochOf[p],
         deleted => deleted', dbEpoch <= dbEpoch',
         \A s \in Reqs \ {r} : kind'[s] = kind[s] /\ pc'[s] = pc[s] /\ todo'[s] = todo[s],
         Refresh(p) \in userTokens \cup revoked \cup todo[r] =>
             \/ deleted' \/ Refresh(p) \in userTokens' \cup revoked' \cup todo'[r]
             \/ kind'[r] = "logout" /\ pc'[r] = "bump",
         kind[r] = "logout" /\ pc[r] = "bump" => epochOf[p] < dbEpoch'
  PROVE  Tracked(p)'
  <1>1. epochOf[p] \in Nat /\ dbEpoch \in Nat /\ dbEpoch' \in Nat
    BY DEF DInv, TypeOK, StoreTypes, PairTypes
  <1>2. CASE deleted \/ epochOf[p] < dbEpoch
    BY <1>1, <1>2 DEF Tracked
  <1>3. CASE Refresh(p) \in userTokens \cup revoked \cup todo[r]
    BY <1>3 DEF Tracked
  <1>4. CASE kind[r] = "logout" /\ pc[r] = "bump"
    BY <1>4 DEF Tracked
  <1>5. CASE \E s \in Reqs \ {r} : Refresh(p) \in todo[s] \/ (kind[s] = "logout" /\ pc[s] = "bump")
    BY <1>5 DEF Tracked
  <1> QED BY <1>2, <1>3, <1>4, <1>5 DEF Tracked

(* Every step of a handler preserves it while the stores answer.             *)
LEMMA UInvStep ==
  ASSUME ~Lossy, ~DbFaults, UInv, NEW r \in Reqs, Arrive(r) \/ Step(r)
  PROVE  UInv'
  <1>0. DInv /\ DInv' /\ TodoOK /\ DeletesOK /\ \A p \in Held : Tracked(p)
    BY DInvArrive, DInvStep DEF UInv
  <1>1. /\ pc \in [Reqs -> {"idle", "read", "mirror", "issue", "rotate", "mint",
                            "register", "own", "list", "revoke", "bump"}]
        /\ kind \in [Reqs -> {"none", "login", "refresh", "logout", "delete"}]
        /\ todo \in [Reqs -> SUBSET Jtis] /\ dbEpoch \in Nat
        /\ status \in [Pairs -> {"unused", "minted", "held"}] /\ epochOf \in [Pairs -> Nat]
        /\ \A p \in Pairs : epochOf[p] <= dbEpoch
    BY <1>0 DEF DInv, TypeOK, StoreTypes, PairTypes, RequestTypes, EpochsBounded
  <1>2. ASSUME \A s \in Reqs \ {r} : kind'[s] = kind[s] /\ pc'[s] = pc[s] /\ todo'[s] = todo[s],
               deleted => deleted',
               todo'[r] # {} => \/ pc'[r] \in {"own", "revoke"}
                                \/ kind'[r] = "delete" /\ pc'[r] \in {"bump", "mirror"},
               kind'[r] = "delete" => /\ pc'[r] \in {"bump", "mirror", "own", "list", "revoke"}
                                      /\ pc'[r] # "bump" => deleted',
               \A p \in Held' : Tracked(p)'
        PROVE  UInv'
    <2>1. TodoOK'
      BY <1>0, <1>2 DEF TodoOK
    <2>2. DeletesOK'
      BY <1>0, <1>2 DEF DeletesOK
    <2> QED BY <1>0, <1>2, <2>1, <2>2 DEF UInv
  (* A step that changes neither pairs nor, for the worse, the stores.       *)
  <1>3. ASSUME UNCHANGED <<dbEpoch, deleted, status, epochOf>>,
               \A s \in Reqs \ {r} : kind'[s] = kind[s] /\ pc'[s] = pc[s] /\ todo'[s] = todo[s],
               todo'[r] # {} => \/ pc'[r] \in {"own", "revoke"}
                                \/ kind'[r] = "delete" /\ pc'[r] \in {"bump", "mirror"},
               kind'[r] = "delete" => /\ pc'[r] \in {"bump", "mirror", "own", "list", "revoke"}
                                      /\ pc'[r] # "bump" => deleted,
               \/ deleted
               \/ userTokens \cup revoked \cup todo[r] \subseteq userTokens' \cup revoked' \cup todo'[r]
               \/ kind'[r] = "logout" /\ pc'[r] = "bump",
               ~(kind[r] = "logout" /\ pc[r] = "bump")
        PROVE  UInv'
    <2>1. ASSUME NEW p \in Held' PROVE Tracked(p)'
      <3>1. p \in Pairs /\ Tracked(p) /\ epochOf'[p] = epochOf[p]
        BY <1>0, <1>3 DEF Held
      <3> QED BY <1>0, <1>1, <1>3, <3>1, TrackedKept
    <2> QED BY <1>2, <1>3, <2>1
  <1> USE DEF Goto, Return, pgVars, redisVars, pairVars, begunVars
  <1>4. CASE Arrive(r)
    <2>0. \A p \in Pairs : Carried(p) \subseteq SUBSET Jtis
      BY DEF Carried, Jtis, Access, Refresh
    <2>1. PICK k \in {"login", "refresh", "logout", "delete"}, l \in {"read", "own", "bump"},
               p \in Pairs \cup {None}, jtis \in SUBSET Jtis :
             /\ Begin(r, k, l, p, jtis)
             /\ k \in {"login", "refresh"} => jtis = {}
             /\ k = "delete" <=> l = "bump"
             /\ k = "logout" <=> l = "own"
      BY <1>4, <2>0 DEF Arrive, BeginLogin, BeginRefresh, BeginLogout, BeginDelete, Held
    <2>2. /\ pc'[r] = l /\ kind'[r] = k /\ todo'[r] = jtis /\ pc[r] = "idle"
          /\ \A s \in Reqs \ {r} : kind'[s] = kind[s] /\ pc'[s] = pc[s] /\ todo'[s] = todo[s]
      BY <1>1, <2>1 DEF Begin
    <2>3. todo[r] = {}
      BY <1>0, <2>2 DEF TodoOK
    <2> QED BY <1>3, <2>1, <2>2, <2>3 DEF Begin
  <1>5. CASE LoginReadEpoch(r) \/ RefreshRead(r) \/ RefreshRotate(r)
    <2>1. todo[r] = {} /\ kind[r] \in {"login", "refresh"}
      BY <1>0, <1>5 DEF TodoOK, LoginReadEpoch, RefreshRead, RefreshRotate
    <2>2. /\ todo'[r] = {} /\ kind'[r] # "delete"
          /\ \A s \in Reqs \ {r} : kind'[s] = kind[s] /\ pc'[s] = pc[s] /\ todo'[s] = todo[s]
          /\ UNCHANGED <<dbEpoch, deleted, status, epochOf>>
      BY <1>1, <1>5, <2>1 DEF LoginReadEpoch, RefreshRead, RefreshRotate
    <2>3. userTokens \cup revoked \subseteq userTokens' \cup revoked'
      BY <1>5 DEF LoginReadEpoch, RefreshRead, RefreshRotate, AtomicRevoke
    <2> QED BY <1>3, <2>1, <2>2, <2>3
  <1>6. CASE LoginIssue(r) \/ RefreshMint(r) \/ RefreshRegister(r)
    <2>1. todo[r] = {} /\ kind[r] \in {"login", "refresh"}
      BY <1>0, <1>6 DEF TodoOK, LoginIssue, RefreshMint, RefreshRegister
    <2>2. /\ todo'[r] = {} /\ kind'[r] # "delete"
          /\ \A s \in Reqs \ {r} : kind'[s] = kind[s] /\ pc'[s] = pc[s] /\ todo'[s] = todo[s]
          /\ UNCHANGED <<dbEpoch, deleted>> /\ userTokens \cup revoked \subseteq userTokens' \cup revoked'
      BY <1>1, <1>6, <2>1 DEF LoginIssue, RefreshMint, RefreshRegister, RegisterIssuedTokens, SAdd
    <2>3. ASSUME NEW p \in Held' PROVE Tracked(p)'
      <3>1. \/ Refresh(p) \in userTokens'
            \/ p \in Held /\ epochOf'[p] = epochOf[p]
        BY <1>1, <1>6 DEF LoginIssue, RefreshMint, RefreshRegister, RegisterIssuedTokens, SAdd,
                          GenerateTokenPairWithEpoch, Held
      <3>2. CASE Refresh(p) \in userTokens'
        BY <3>2 DEF Tracked
      <3>3. CASE p \in Held /\ epochOf'[p] = epochOf[p]
        <4>1. p \in Pairs /\ Tracked(p)
          BY <1>0, <3>3 DEF Held
        <4> QED BY <1>0, <1>1, <2>1, <2>2, <3>3, <4>1, TrackedKept
      <3> QED BY <3>1, <3>2, <3>3
    <2> QED BY <1>2, <2>2, <2>3
  <1>7. CASE RevokeOwn(r)
    <2>1. /\ pc[r] = "own" /\ pc'[r] = "list" /\ kind' = kind /\ todo'[r] = {}
          /\ \A s \in Reqs \ {r} : kind'[s] = kind[s] /\ pc'[s] = pc[s] /\ todo'[s] = todo[s]
          /\ UNCHANGED <<dbEpoch, deleted, status, epochOf, userTokens>>
          /\ revoked' = revoked \cup todo[r]
      BY <1>1, <1>7 DEF RevokeOwn
    <2>2. kind[r] = "delete" => deleted
      BY <1>0, <2>1 DEF DeletesOK
    <2> QED BY <1>3, <2>1, <2>2
  <1>8. CASE BumpUserTokenEpoch(r)
    <2>1. /\ pc[r] = "bump" /\ pc'[r] = "mirror" /\ kind' = kind /\ todo' = todo
          /\ \A s \in Reqs \ {r} : kind'[s] = kind[s] /\ pc'[s] = pc[s] /\ todo'[s] = todo[s]
          /\ dbEpoch' = dbEpoch + 1 /\ UNCHANGED <<status, epochOf>>
          /\ deleted => deleted' /\ (kind[r] = "delete" => deleted')
      BY <1>1, <1>8 DEF BumpUserTokenEpoch
    <2>2. todo[r] # {} => kind[r] = "delete"
      BY <1>0, <2>1 DEF TodoOK
    <2>3. ASSUME NEW p \in Held' PROVE Tracked(p)'
      <3>1. p \in Pairs /\ epochOf'[p] = epochOf[p]
        BY <2>1, <2>3 DEF Held
      <3>2. epochOf[p] \in Nat /\ epochOf[p] <= dbEpoch
        BY <1>1, <3>1
      <3>3. epochOf'[p] < dbEpoch'
        BY <1>1, <2>1, <3>1, <3>2
      <3> QED BY <3>3 DEF Tracked
    <2>4. deleted => deleted'
      BY <1>8 DEF BumpUserTokenEpoch
    <2>5. kind[r] = "delete" => deleted'
      BY <1>8 DEF BumpUserTokenEpoch
    <2> QED BY <1>2, <2>1, <2>2, <2>3, <2>4, <2>5
  <1>9. CASE WriteMirror(r)
    <2>1. /\ pc[r] = "mirror"
          /\ \A s \in Reqs \ {r} : kind'[s] = kind[s] /\ pc'[s] = pc[s] /\ todo'[s] = todo[s]
          /\ UNCHANGED <<dbEpoch, deleted, status, epochOf, userTokens, revoked>>
      BY <1>1, <1>9 DEF WriteMirror
    <2>2. CASE kind[r] = "delete"
      <3>1. pc'[r] = "own" /\ todo' = todo /\ kind' = kind /\ deleted
        BY <1>0, <1>1, <1>9, <2>1, <2>2 DEF WriteMirror, DeletesOK
      <3> QED BY <1>3, <2>1, <2>2, <3>1
    <2>3. CASE kind[r] # "delete"
      <3>1. todo[r] = {}
        BY <1>0, <2>1, <2>3 DEF TodoOK
      <3>2. todo'[r] = {} /\ kind'[r] # "delete"
        BY <1>1, <1>9, <2>3, <3>1 DEF WriteMirror
      <3> QED BY <1>3, <2>1, <3>1, <3>2
    <2> QED BY <2>2, <2>3
  <1>10. CASE ListTokens(r)
    <2>1. /\ pc[r] = "list" /\ pc'[r] = "revoke" /\ kind' = kind /\ todo'[r] = userTokens
          /\ \A s \in Reqs \ {r} : kind'[s] = kind[s] /\ pc'[s] = pc[s] /\ todo'[s] = todo[s]
          /\ UNCHANGED <<dbEpoch, deleted, status, epochOf, userTokens, revoked>>
      BY <1>1, <1>10 DEF ListTokens
    <2>2. todo[r] = {} /\ (kind[r] = "delete" => deleted)
      BY <1>0, <2>1 DEF TodoOK, DeletesOK
    <2> QED BY <1>3, <2>1, <2>2
  <1>11. CASE RevokeOne(r)
    <2>1. PICK j \in todo[r] : revoked' = revoked \cup {j} /\ todo' = [todo EXCEPT ![r] = todo[r] \ {j}]
      BY <1>1, <1>11 DEF RevokeOne
    <2>2. /\ pc[r] = "revoke" /\ pc'[r] = "revoke" /\ kind' = kind /\ todo'[r] = todo[r] \ {j}
          /\ \A s \in Reqs \ {r} : kind'[s] = kind[s] /\ pc'[s] = pc[s] /\ todo'[s] = todo[s]
          /\ UNCHANGED <<dbEpoch, deleted, status, epochOf, userTokens>>
      BY <1>1, <1>11, <2>1 DEF RevokeOne
    <2>3. kind[r] = "delete" => deleted
      BY <1>0, <2>2 DEF DeletesOK
    <2> QED BY <1>3, <2>1, <2>2, <2>3
  <1>12. CASE RevokeDone(r)
    <2>1. /\ pc[r] = "revoke" /\ todo[r] = {} /\ todo'[r] = {}
          /\ \A s \in Reqs \ {r} : kind'[s] = kind[s] /\ pc'[s] = pc[s] /\ todo'[s] = todo[s]
          /\ UNCHANGED <<dbEpoch, deleted, status, epochOf, revoked>>
          /\ kind'[r] # "delete"
      BY <1>1, <1>12 DEF RevokeDone
    <2>2. \/ userTokens' = userTokens
          \/ kind'[r] = "logout" /\ pc'[r] = "bump"
          \/ kind[r] = "delete"
      BY <1>1, <1>12 DEF RevokeDone, DropTokens
    <2>3. kind[r] = "delete" => deleted
      BY <1>0, <2>1 DEF DeletesOK
    <2> QED BY <1>3, <2>1, <2>2, <2>3
  <1>13. CASE RefreshRotateFails(r) \/ DbError(r) \/ ListTokensFails(r)
    BY <1>13 DEF RefreshRotateFails, DbError, ListTokensFails
  <1> QED BY <1>4, <1>5, <1>6, <1>7, <1>8, <1>9, <1>10, <1>11, <1>12, <1>13 DEF Step

(* While Redis and PostgreSQL answer, a refresh token that could still be    *)
(* rotated is tracked, about to be revoked or about to be outdated, however  *)
(* SMEMBERS and DEL of one handler interleave with the registrations of      *)
(* others.                                                                   *)
THEOREM SessionsTracked ==
  ASSUME ~Lossy, ~DbFaults
  PROVE  Spec => []NoUntrackedSession
  <1>1. UInv /\ [Next]_vars => UInv'
    <2>1. ASSUME UInv, UNCHANGED vars PROVE UInv'
      <3>1. DInv'
        BY <2>1, DInvOther DEF UInv
      <3>2. UNCHANGED <<deleted, dbEpoch, epochOf, status, userTokens, revoked, todo, kind, pc>>
        BY <2>1 DEF vars, pgVars, redisVars, pairVars, reqVars
      <3>3. TodoOK' /\ DeletesOK'
        BY <2>1, <3>2 DEF UInv, TodoOK, DeletesOK
      <3>4. ASSUME NEW p \in Held' PROVE Tracked(p)'
        BY <2>1, <3>2 DEF UInv, Held, Tracked
      <3> QED BY <3>1, <3>3, <3>4 DEF UInv
    <2> QED BY <2>1, UInvStep DEF Next
  <1>2. UInv => NoUntrackedSession
    BY DEF UInv, Tracked, NoUntrackedSession
  <1> QED BY UInvInit, <1>1, <1>2, PTL DEF Spec
-----------------------------------------------------------------------------
(* The handlers implement the registry of sessions.                          *)

(* The tokens a step leaves as they are, as far as the registry sees them.   *)
LEMMA RegistryFrame ==
  ASSUME UNCHANGED <<epochOf, familyOf, parentOf>>, Issued' = Issued
  PROVE  UNCHANGED <<Issued, Spent, epochOf, familyOf>>
  BY DEF Spent

(* A handler that is not past the durable check admits nothing, and a        *)
(* handler's step leaves what the others have admitted.                      *)
LEMMA AdmittedShrinks ==
  ASSUME NEW r \in Reqs, \A x \in Reqs \ {r} : Rotating(x)' = Rotating(x) /\ tok'[x] = tok[x],
         Rotating(r)' => Rotating(r) /\ tok'[r] = tok[r]
  PROVE  Admitted' \subseteq Admitted
  BY DEF Admitted

(* Every step of a handler is a step of the registry or leaves it alone.     *)
LEMMA RegistryStep ==
  ASSUME SInv, NEW r \in Reqs, Arrive(r) \/ Step(r)
  PROVE  [Registry!RegistryNext]_(Registry!registryVars)
  <1>t. /\ pc \in [Reqs -> {"idle", "read", "mirror", "issue", "rotate", "mint",
                            "register", "own", "list", "revoke", "bump"}]
        /\ kind \in [Reqs -> {"none", "login", "refresh", "logout", "delete"}]
        /\ tok \in [Reqs -> Pairs \cup {None}] /\ epoch \in [Reqs -> Nat]
        /\ dbEpoch \in Nat /\ deleted \in BOOLEAN
        /\ status \in [Pairs -> {"unused", "minted", "held"}]
        /\ epochOf \in [Pairs -> Nat] /\ familyOf \in [Pairs -> Pairs \cup {None}]
        /\ parentOf \in [Pairs -> Pairs \cup {None}]
    BY DEF SInv, DInv, TypeOK, StoreTypes, PairTypes, RequestTypes
  <1> USE DEF Goto, Return, pgVars, redisVars, pairVars, begunVars
  (* A step that changes no token and not the account, and admits nothing.   *)
  <1>1. ASSUME UNCHANGED <<dbEpoch, deleted, epochOf, familyOf, parentOf>>, Issued' = Issued,
               Admitted' \subseteq Admitted
        PROVE  Registry!RegistryNext
    <2>1. UNCHANGED <<Issued, Spent, epochOf, familyOf>>
      BY <1>1, RegistryFrame
    <2>2. Registry!Withdraw
      BY <1>1, <2>1 DEF Registry!Withdraw, Registry!account, Registry!tokens
    <2> QED BY <2>2 DEF Registry!RegistryNext
  <1>2. ASSUME UNCHANGED <<dbEpoch, deleted, epochOf, familyOf, parentOf, status>>,
               \A x \in Reqs \ {r} : kind'[x] = kind[x] /\ pc'[x] = pc[x] /\ tok'[x] = tok[x],
               Rotating(r)' => Rotating(r) /\ tok'[r] = tok[r]
        PROVE  Registry!RegistryNext
    <2>1. \A x \in Reqs \ {r} : Rotating(x)' = Rotating(x) /\ tok'[x] = tok[x]
      BY <1>2 DEF Rotating
    <2>2. Admitted' \subseteq Admitted
      BY <1>2, <2>1, AdmittedShrinks
    <2>3. Issued' = Issued
      BY <1>2 DEF Issued
    <2> QED BY <1>1, <1>2, <2>2, <2>3
  <1>3. CASE Arrive(r)
    <2>1. /\ UNCHANGED <<dbEpoch, deleted, epochOf, familyOf, parentOf, status>>
          /\ \A x \in Reqs \ {r} : kind'[x] = kind[x] /\ pc'[x] = pc[x] /\ tok'[x] = tok[x]
          /\ pc'[r] \in {"read", "own", "bump"}
      BY <1>t, <1>3 DEF Arrive, BeginLogin, BeginRefresh, BeginLogout, BeginDelete, Begin
    <2> QED BY <1>2, <2>1 DEF Rotating
  <1>4. CASE \/ LoginReadEpoch(r) \/ RefreshRotateFails(r) \/ RevokeOwn(r) \/ DbError(r)
             \/ WriteMirror(r) \/ ListTokens(r) \/ ListTokensFails(r) \/ RevokeOne(r) \/ RevokeDone(r)
    <2>1. /\ UNCHANGED <<dbEpoch, deleted, epochOf, familyOf, parentOf, status>>
          /\ \A x \in Reqs \ {r} : kind'[x] = kind[x] /\ pc'[x] = pc[x] /\ tok'[x] = tok[x]
          /\ pc'[r] \notin {"rotate", "mint"}
      BY <1>t, <1>4 DEF LoginReadEpoch, RefreshRotateFails, RevokeOwn, DbError, WriteMirror,
         ListTokens, ListTokensFails, RevokeOne, RevokeDone
    <2> QED BY <1>2, <2>1 DEF Rotating
  <1>5. CASE RefreshRotate(r)
    <2>1. /\ UNCHANGED <<dbEpoch, deleted, epochOf, familyOf, parentOf, status, tok, kind>>
          /\ \A x \in Reqs \ {r} : kind'[x] = kind[x] /\ pc'[x] = pc[x] /\ tok'[x] = tok[x]
          /\ kind[r] = "refresh" /\ pc[r] = "rotate"
      BY <1>t, <1>5 DEF RefreshRotate
    <2> QED BY <1>2, <2>1 DEF Rotating
  <1>6. CASE RefreshRegister(r)
    <2>1. /\ UNCHANGED <<dbEpoch, deleted, epochOf, familyOf, parentOf>>
          /\ \A x \in Reqs \ {r} : kind'[x] = kind[x] /\ pc'[x] = pc[x] /\ tok'[x] = tok[x]
          /\ pc'[r] = "idle"
      BY <1>t, <1>6 DEF RefreshRegister
    <2>2. child[r] \in Issued
      BY <1>6 DEF RefreshRegister, SInv, DInv, RefreshOK
    <2>3. Issued' = Issued
      BY <1>t, <1>6, <2>2 DEF RefreshRegister, Issued
    <2>4. Admitted' \subseteq Admitted
      BY <2>1, AdmittedShrinks DEF Rotating
    <2> QED BY <1>1, <2>1, <2>3, <2>4
  <1>7. CASE BumpUserTokenEpoch(r)
    <2>1. /\ UNCHANGED <<epochOf, familyOf, parentOf, status, kind, tok>>
          /\ \A x \in Reqs \ {r} : pc'[x] = pc[x]
          /\ pc[r] = "bump" /\ pc'[r] = "mirror"
          /\ dbEpoch' = dbEpoch + 1
      BY <1>t, <1>7 DEF BumpUserTokenEpoch
    <2>2. deleted' \in {deleted, TRUE}
      BY <1>t, <1>7 DEF BumpUserTokenEpoch
    <2>3. Admitted' = Admitted
      BY <2>1 DEF Admitted, Rotating
    <2>4. Issued' = Issued
      BY <2>1 DEF Issued
    <2>5. UNCHANGED <<Issued, Spent, epochOf, familyOf>>
      BY <2>1, <2>4, RegistryFrame
    <2>6. Registry!EndAll
      BY <2>1, <2>2, <2>3, <2>5 DEF Registry!EndAll, Registry!tokens
    <2> QED BY <2>6 DEF Registry!RegistryNext
  <1>8. CASE RefreshRead(r)
    <2>1. /\ UNCHANGED <<dbEpoch, deleted, epochOf, familyOf, parentOf, status>>
          /\ \A x \in Reqs \ {r} : kind'[x] = kind[x] /\ pc'[x] = pc[x] /\ tok'[x] = tok[x]
      BY <1>t, <1>8 DEF RefreshRead
    <2>2. CASE pc'[r] # "rotate"
      <3>1. pc'[r] \in {"idle", "mirror"}
        BY <1>t, <1>8, <2>2 DEF RefreshRead
      <3> QED BY <1>2, <2>1, <3>1 DEF Rotating
    <2>3. CASE pc'[r] = "rotate"
      <3>1. /\ ~deleted /\ ~(epochOf[tok[r]] < dbEpoch) /\ tok' = tok /\ kind' = kind
            /\ kind[r] = "refresh" /\ pc[r] = "read"
        BY <1>t, <1>8, <2>3 DEF RefreshRead
      <3>2. tok[r] \in Issued /\ tok[r] \in Pairs
        BY <3>1 DEF SInv, DInv, RefreshOK, Issued
      <3>3. epochOf[tok[r]] = dbEpoch
        <4>1. epochOf[tok[r]] <= dbEpoch /\ epochOf[tok[r]] \in Nat
          BY <1>t, <3>2 DEF SInv, DInv, EpochsBounded
        <4> QED BY <1>t, <3>1, <4>1
      <3>4. Rotating(r)' /\ ~Rotating(r) /\ \A x \in Reqs \ {r} : Rotating(x)' = Rotating(x)
        BY <2>1, <2>3, <3>1 DEF Rotating
      <3>5. Admitted' = Admitted \cup {tok[r]}
        BY <3>1, <3>2, <3>4 DEF Admitted
      <3>6. Issued' = Issued
        BY <2>1 DEF Issued
      <3>7. UNCHANGED <<Issued, Spent, epochOf, familyOf>>
        BY <2>1, <3>6, RegistryFrame
      <3>8. Registry!Admit(tok[r])
        BY <2>1, <3>1, <3>2, <3>3, <3>5, <3>7 DEF Registry!Admit, Registry!account, Registry!tokens
      <3> QED BY <3>2, <3>8 DEF Registry!RegistryNext
    <2> QED BY <2>2, <2>3
  <1>9. CASE LoginIssue(r)
    <2>1. PICK p \in Pairs : GenerateTokenPairWithEpoch(p, epoch[r], p, None, "held")
      BY <1>9 DEF LoginIssue
    <2>2. p \notin Issued /\ Issued' = Issued \cup {p}
      BY <1>t, <2>1 DEF GenerateTokenPairWithEpoch, Issued
    <2>3. /\ epochOf' = [epochOf EXCEPT ![p] = epoch[r]] /\ familyOf' = [familyOf EXCEPT ![p] = p]
          /\ parentOf' = [parentOf EXCEPT ![p] = None]
      BY <2>1 DEF GenerateTokenPairWithEpoch
    <2>4. epoch[r] \in 0..dbEpoch
      BY <1>t DEF SInv, DInv, EpochsBounded
    <2>5. Spent' = Spent
      <3>1. \A q \in Issued : q # p /\ parentOf'[q] = parentOf[q]
        BY <1>t, <2>2, <2>3 DEF Issued
      <3>2. parentOf'[p] = None
        BY <1>t, <2>3
      <3> QED BY <2>2, <3>1, <3>2, NoneAssumption DEF Spent
    <2>6. /\ UNCHANGED <<dbEpoch, deleted>> /\ pc'[r] = "idle" /\ kind[r] = "login"
          /\ \A x \in Reqs \ {r} : kind'[x] = kind[x] /\ pc'[x] = pc[x] /\ tok'[x] = tok[x]
      BY <1>t, <1>9 DEF LoginIssue
    <2>7. Admitted' = Admitted
      <3>1. ~Rotating(r) /\ ~Rotating(r)' /\ \A x \in Reqs \ {r} : Rotating(x)' = Rotating(x)
        BY <2>6 DEF Rotating
      <3> QED BY <2>6, <3>1 DEF Admitted
    <2>8. Registry!Login(p)
      BY <2>2, <2>3, <2>4, <2>5, <2>6, <2>7 DEF Registry!Login, Registry!Hand, Registry!account
    <2> QED BY <2>8 DEF Registry!RegistryNext
  <1>10. CASE RefreshMint(r)
    <2>1. PICK p \in Pairs : GenerateTokenPairWithEpoch(p, epoch[r], familyOf[tok[r]], tok[r], "minted")
      BY <1>10 DEF RefreshMint
    <2>2. p \notin Issued /\ Issued' = Issued \cup {p}
      BY <1>t, <2>1 DEF GenerateTokenPairWithEpoch, Issued
    <2>3. /\ UNCHANGED <<dbEpoch, deleted, kind, tok>> /\ kind[r] = "refresh" /\ pc[r] = "mint"
          /\ pc'[r] = "register" /\ \A x \in Reqs \ {r} : pc'[x] = pc[x]
      BY <1>t, <1>10 DEF RefreshMint
    <2>4. tok[r] \in Issued /\ tok[r] \in Pairs /\ epoch[r] = epochOf[tok[r]]
      BY <2>3 DEF SInv, DInv, RefreshOK, Working, Issued
    <2>5. \A q \in Issued : parentOf[q] # tok[r]
      BY <2>3 DEF SInv, RefreshSingleUse, Minting
    <2>6. /\ epochOf' = [epochOf EXCEPT ![p] = epochOf[tok[r]]]
          /\ familyOf' = [familyOf EXCEPT ![p] = familyOf[tok[r]]]
          /\ parentOf' = [parentOf EXCEPT ![p] = tok[r]]
      BY <2>1, <2>4 DEF GenerateTokenPairWithEpoch
    <2>7. tok[r] \notin Spent /\ Spent' = Spent \cup {tok[r]}
      <3>1. \A q \in Issued : q # p /\ parentOf'[q] = parentOf[q]
        BY <1>t, <2>2, <2>6 DEF Issued
      <3>2. parentOf'[p] = tok[r]
        BY <1>t, <2>6
      <3> QED BY <2>2, <2>4, <2>5, <3>1, <3>2 DEF Spent
    <2>8. Rotating(r) /\ ~Rotating(r)' /\ \A x \in Reqs \ {r} : Rotating(x)' = Rotating(x)
      BY <2>3 DEF Rotating
    <2>9. tok[r] \in Admitted /\ Admitted' \in {Admitted, Admitted \ {tok[r]}}
      <3>1. tok[r] \in Admitted
        BY <2>4, <2>8 DEF Admitted
      <3>2. \A q \in Pairs \ {tok[r]} : q \in Admitted' <=> q \in Admitted
        BY <2>3, <2>8 DEF Admitted
      <3>3. Admitted \subseteq Pairs /\ Admitted' \subseteq Pairs
        BY DEF Admitted
      <3>4. CASE tok[r] \in Admitted'
        BY <3>1, <3>2, <3>3, <3>4
      <3>5. CASE tok[r] \notin Admitted'
        BY <3>1, <3>2, <3>3, <3>5
      <3> QED BY <3>1, <3>4, <3>5
    <2>10. Registry!Replace(tok[r], p)
      BY <2>2, <2>3, <2>6, <2>7, <2>9 DEF Registry!Replace, Registry!Hand, Registry!account
    <2> QED BY <2>4, <2>10 DEF Registry!RegistryNext
  <1> QED BY <1>3, <1>4, <1>5, <1>6, <1>7, <1>8, <1>9, <1>10 DEF Step

(* So is every step of the system.                                           *)
LEMMA RegistryNextStep ==
  ASSUME SInv, [Next]_vars
  PROVE  [Registry!RegistryNext]_(Registry!registryVars)
  <1>1. CASE UNCHANGED vars
    <2>1. UNCHANGED <<dbEpoch, deleted, epochOf, familyOf, parentOf, status, kind, pc, tok>>
      BY <1>1 DEF vars, pgVars, pairVars, reqVars
    <2>2. UNCHANGED <<Issued, Admitted>>
      BY <2>1 DEF Issued, Admitted, Rotating
    <2>3. UNCHANGED Spent
      BY <2>1, <2>2 DEF Spent
    <2> QED BY <2>1, <2>2, <2>3 DEF Registry!registryVars, Registry!account, Registry!tokens
  <1> QED BY <1>1, RegistryStep DEF Next

(* Without a flush of Redis, every behaviour of the handlers is one of the   *)
(* registry, whatever calls to the two stores fail: a refresh decides on     *)
(* what it read, but what it does later was decided in one atomic moment.    *)
THEOREM SessionsAreARegistry == Spec => ImplementsRegistry
  <1>1. Init => SInv
    BY SInvInit
  <1>2. SInv /\ [Next]_vars => SInv'
    BY SInvNext
  <1>3. ASSUME Init PROVE Registry!RegistryInit
    <2>1. Issued = {} /\ Admitted = {}
      BY <1>3 DEF Init, Issued, Admitted, Rotating
    <2>2. Spent = {}
      BY <2>1 DEF Spent
    <2> QED BY <1>3, <2>1, <2>2 DEF Init, Registry!RegistryInit
  <1>4. SInv /\ [Next]_vars => [Registry!RegistryNext]_(Registry!registryVars)
    BY RegistryNextStep
  <1> QED BY <1>1, <1>2, <1>3, <1>4, PTL DEF Spec, ImplementsRegistry

(* The steps of the registry keep one unrotated token to a session: a login  *)
(* opens a session of its own, and a successor takes its token's place.      *)
LEMMA OneTokenStep ==
  ASSUME SInv, OneTokenPerSession, [Registry!RegistryNext]_(Registry!registryVars)
  PROVE  OneTokenPerSession'
  <1>t. familyOf \in [Pairs -> Pairs \cup {None}] /\ Issued \subseteq Pairs
    BY DEF SInv, DInv, TypeOK, PairTypes, Issued
  <1>1. ASSUME NEW t \in Pairs, Registry!Login(t) PROVE OneTokenPerSession'
    <2>1. t \notin Issued /\ Issued' = Issued \cup {t} /\ Spent' = Spent
      BY <1>1 DEF Registry!Login, Registry!Hand
    <2>2. familyOf' = [familyOf EXCEPT ![t] = t]
      BY <1>1 DEF Registry!Login, Registry!Hand
    <2>3. familyOf'[t] = t /\ \A q \in Issued : familyOf'[q] = familyOf[q] /\ familyOf[q] # t
      BY <1>t, <2>1, <2>2 DEF SInv, DInv, FamilyOK
    <2> QED BY <2>1, <2>3 DEF OneTokenPerSession
  <1>2. ASSUME NEW t \in Pairs, NEW u \in Pairs, Registry!Replace(t, u) PROVE OneTokenPerSession'
    <2>1. /\ t \in Admitted \ Spent /\ Spent' = Spent \cup {t}
          /\ u \notin Issued /\ Issued' = Issued \cup {u}
          /\ familyOf' = [familyOf EXCEPT ![u] = familyOf[t]]
      BY <1>2 DEF Registry!Replace, Registry!Hand
    <2>2. t \in Issued
      BY <2>1 DEF Admitted, Rotating, SInv, DInv, RefreshOK
    <2>3. familyOf'[u] = familyOf[t] /\ \A q \in Issued : familyOf'[q] = familyOf[q]
      BY <1>t, <2>1
    <2>4. \A q \in Issued' \ Spent' : q = u \/ q \in (Issued \ Spent) \ {t}
      BY <2>1
    <2>5. \A q \in (Issued \ Spent) \ {t} : familyOf[q] # familyOf[t]
      BY <2>1, <2>2 DEF OneTokenPerSession
    <2> QED BY <2>3, <2>4, <2>5 DEF OneTokenPerSession
  <1>3. CASE UNCHANGED <<Issued, Spent, familyOf>>
    BY <1>3 DEF OneTokenPerSession
  <1>4. ASSUME NEW t \in Pairs, Registry!Admit(t) PROVE UNCHANGED <<Issued, Spent, familyOf>>
    BY <1>4 DEF Registry!Admit, Registry!tokens
  <1>5. Registry!Withdraw \/ Registry!EndAll \/ UNCHANGED Registry!registryVars
           => UNCHANGED <<Issued, Spent, familyOf>>
    BY DEF Registry!Withdraw, Registry!EndAll, Registry!registryVars, Registry!tokens
  <1> QED BY <1>1, <1>2, <1>3, <1>4, <1>5 DEF Registry!RegistryNext

(* A session has at most one refresh token that was not rotated, whatever    *)
(* the number of requests that race for its tokens; proved of the registry,  *)
(* and so of the handlers.                                                   *)
THEOREM SessionHasOneToken == Spec => []OneTokenPerSession
  <1> DEFINE OInv == SInv /\ OneTokenPerSession
  <1>1. Init => OInv
    BY SInvInit DEF Init, OneTokenPerSession, Issued
  <1>2. OInv /\ [Next]_vars => OInv'
    <2> SUFFICES ASSUME OInv, [Next]_vars PROVE OInv'
      OBVIOUS
    <2>1. [Registry!RegistryNext]_(Registry!registryVars)
      BY RegistryNextStep
    <2> QED BY <2>1, SInvNext, OneTokenStep
  <1>3. OInv => OneTokenPerSession
    OBVIOUS
  <1> QED BY <1>1, <1>2, <1>3, PTL DEF Spec
=============================================================================
