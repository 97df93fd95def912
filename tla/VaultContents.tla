---------------------------- MODULE VaultContents ----------------------------
(***************************************************************************)
(* What the vault on a USB drive promises: the set of files it holds changes *)
(* only by a commit, and a commit makes it, at once and completely, the set  *)
(* the application has in memory.  An interrupted operation leaves the       *)
(* drive as it was; what memory held beyond it is forgotten with the session.*)
(***************************************************************************)
CONSTANT Files

VARIABLES
    contents,   \* the files a reader of the drive finds
    wanted      \* the files the application means the drive to hold

cvars == <<contents, wanted>>

CInit == contents = {} /\ wanted = {}

Want ==
    /\ wanted' \in SUBSET Files
    /\ UNCHANGED contents

Commit == contents' = wanted /\ UNCHANGED wanted

Forget == wanted' = contents /\ UNCHANGED contents

CNext == Commit \/ Forget \/ Want

CSpec == CInit /\ [][CNext]_cvars
=============================================================================
