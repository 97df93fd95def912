------------------------------ MODULE MCAccounts ------------------------------
(***************************************************************************)
(* Instances of the SRP login, the recovery codes and the JWT signing keys.  *)
(* They share no state and are checked side by side: in each behaviour one   *)
(* of them takes the steps, the one "part" names, and the others stay in one *)
(* initial state.                                                            *)
(***************************************************************************)
EXTENDS SrpLogin, RecoveryCodes, SigningKeys, TLC

VARIABLE part

Init ==
    /\ SrpInit /\ RecoveryInit /\ SigningInit /\ part \in {"srp", "recovery", "keys"}
    /\ part # "srp" => account = "active"
    /\ part # "recovery" => ~flagged
    /\ part # "keys" => keyStatus[1] = "active"

Next ==
    \/ part = "srp" /\ SrpNext /\ UNCHANGED <<recoveryVars, signingVars, part>>
    \/ part = "recovery" /\ RecoveryNext /\ UNCHANGED <<srpVars, signingVars, part>>
    \/ part = "keys" /\ SigningNext /\ UNCHANGED <<srpVars, recoveryVars, part>>

Spec == Init /\ [][Next]_<<srpVars, recoveryVars, signingVars, part>>

(* The type invariant of the component that takes the steps.                 *)
TypeOK ==
    /\ part = "srp" => SrpTypeOK
    /\ part = "recovery" => RecoveryTypeOK
    /\ part = "keys" => SigningTypeOK

(* Request slots are interchangeable, and so are sessions and batches.  The  *)
(* instance gives both kinds of slots, and both kinds of names, the same     *)
(* values, so that a permutation acts on the components at once.             *)
Symmetry == Permutations(SrpReqs \cup RecoveryReqs) \cup Permutations(Ids \cup Batches)
=============================================================================
