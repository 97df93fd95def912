-------------------------------- MODULE MCJobs --------------------------------
(***************************************************************************)
(* Instances of the two components of the server that must get on by         *)
(* themselves: the election of the GC leader with its scheduler, and the     *)
(* multipart uploads with their sweeps.  They share no state and are checked *)
(* side by side: in each behaviour one of them takes the steps, the one      *)
(* "part" names, under its own fairness.                                     *)
(***************************************************************************)
EXTENDS GcLeader, MultipartUploads

VARIABLE part

JobsInit == LeaderInit /\ UploadInit /\ part \in {"leader", "uploads"}

JobsNext ==
    \/ part = "leader" /\ LeaderNext /\ UNCHANGED <<uploadVars, part>>
    \/ part = "uploads" /\ UploadNext /\ UNCHANGED <<leaderVars, part>>

JobsSpec ==
    /\ JobsInit /\ [][JobsNext]_<<leaderVars, uploadVars, part>>
    /\ \/ part = "leader" /\ LeaderFairness
       \/ part = "uploads" /\ UploadFairness

(* In the behaviours of the election: a leader that died, stopped or lost a  *)
(* call is replaced, so jobs cannot stay unscheduled.                        *)
ElectionGoesOn == part = "leader" => LeaderReplaced
=============================================================================
