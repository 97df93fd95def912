------------------------------ MODULE MCObjects ------------------------------
(***************************************************************************)
(* Instances of the object storage and of the multipart uploads, checked     *)
(* side by side: in each behaviour one of them takes the steps, the one      *)
(* "part" names, and the other stays in its initial state.                   *)
(***************************************************************************)
EXTENDS ObjectStorage, MultipartUploads, TLC

VARIABLE part

Init == StorageInit /\ UploadInit /\ part \in {"objects", "uploads"}

Next ==
    \/ part = "objects" /\ StorageNext /\ UNCHANGED <<uploadVars, part>>
    \/ part = "uploads" /\ UploadNext /\ UNCHANGED <<storageVars, part>>

Spec == Init /\ [][Next]_<<storageVars, uploadVars, part>>

(* The type invariant of the component that takes the steps.                 *)
TypeOK ==
    /\ part = "objects" => StorageTypeOK
    /\ part = "uploads" => UploadTypeOK

(* Uploads and handler slots are interchangeable, and so are the keys of     *)
(* files and the parts of an upload.  The instance gives the two components  *)
(* the same values, so that a permutation acts on both at once.              *)
Symmetry == Permutations(Uploads \cup Requests) \cup Permutations(FileKeys \cup Parts)
=============================================================================
