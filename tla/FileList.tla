------------------------------- MODULE FileList -------------------------------
(***************************************************************************)
(* The files of an unlocked USB vault as the screens show them: what         *)
(* useVaultUnlock, useEncryptFlow, useRemoveFile and the end of loadVaults   *)
(* (usbvault-app/src) copy from the index that vaultOrchestrator keeps in    *)
(* memory to the files of vaultListStore and to the cache in localStorage.   *)
(*                                                                          *)
(* The orchestrator changes its index before it writes it to the drive, so a *)
(* poll of loadVaults can see a change that is not committed yet, or never   *)
(* will be.  The user does one thing at a time (VaultContainer has the       *)
(* overlapping operations of the orchestrator); the poll comes in between.   *)
(***************************************************************************)
EXTENDS Naturals, FiniteSets

CONSTANT UFiles   \* ids of files

VARIABLES
    present,   \* the drive is found by loadVaults
    diskIndex, \* the files of the committed index
    unlocked,  \* vaultOrchestrator.isUnlocked()
    unlockedIndex,  \* the files of the orchestrator's index
    shown,     \* vaultListStore.files: how often each file is listed
    cached,    \* usbvault:usb_file_cache
    listFlow,  \* what the user started: op, the file, and where it is
    opFailed   \* history: an add or a removal failed since the last unlock

FileListVars == <<present, diskIndex, unlocked, unlockedIndex, shown, cached, listFlow, opFailed>>

NoUserFlow == [op |-> "none", at |-> "none", files |-> {}]
Listed == {f \in UFiles : shown[f] > 0}
Once(S) == [f \in UFiles |-> IF f \in S THEN 1 ELSE 0]

(* The type invariant; a file is listed at most twice.                       *)
FileListTypeOK ==
    /\ present \in BOOLEAN /\ unlocked \in BOOLEAN /\ opFailed \in BOOLEAN
    /\ diskIndex \subseteq UFiles /\ unlockedIndex \subseteq UFiles /\ cached \subseteq UFiles
    /\ shown \in [UFiles -> 0..2]
    /\ listFlow \in [op : {"none", "unlock", "unlockToRemove", "add", "remove"},
                     at : {"none", "derive", "read", "record", "commit", "storage"},
                     files : SUBSET UFiles]

FileListInit ==
    /\ diskIndex \in SUBSET UFiles /\ cached = {}
    /\ present = TRUE /\ unlocked = FALSE /\ unlockedIndex = {}
    /\ shown = Once({}) /\ listFlow = NoUserFlow /\ opFailed = FALSE

Resting == listFlow = NoUserFlow
FlowEnds == listFlow' = NoUserFlow

-----------------------------------------------------------------------------
(* The end of loadVaults: the index if the vault is unlocked, else the       *)
(* cache; an empty list is not copied.                                       *)
RestoreFiles ==
    LET toRestore == IF unlocked THEN unlockedIndex ELSE cached IN
    /\ present /\ toRestore # {}
    /\ shown' = Once(toRestore)
    /\ UNCHANGED <<present, diskIndex, unlocked, unlockedIndex, cached, listFlow, opFailed>>

(* The prompt of useVaultUnlock: the cache is shown if nothing is.           *)
PromptUnlock ==
    /\ Resting /\ present /\ ~unlocked /\ Listed = {} /\ cached # {}
    /\ shown' = Once(cached)
    /\ UNCHANGED <<present, diskIndex, unlocked, unlockedIndex, cached, listFlow, opFailed>>

(* handleVaultUnlock of useVaultUnlock, and of useRemoveFile.                *)
handleVaultUnlock(op) ==
    /\ Resting /\ present
    /\ listFlow' = [op |-> op, at |-> "derive", files |-> {}]
    /\ UNCHANGED <<present, diskIndex, unlocked, unlockedIndex, shown, cached, opFailed>>

UnlockFails ==
    /\ listFlow.at = "derive"
    /\ FlowEnds
    /\ UNCHANGED <<present, diskIndex, unlocked, unlockedIndex, shown, cached, opFailed>>

(* The container is open; the files the store does not know are read.        *)
UnlockOpens ==
    /\ listFlow.at = "derive" /\ present
    /\ unlocked' = TRUE /\ unlockedIndex' = diskIndex
    /\ listFlow' = [listFlow EXCEPT !.at = "read", !.files = diskIndex]
    /\ opFailed' = FALSE
    /\ UNCHANGED <<present, diskIndex, shown, cached>>

(* Slip: the files the store had are kept beside those of the index.         *)
UnlockSyncsAll ==
    /\ listFlow.at = "read"
    /\ shown' = Once(listFlow.files \cup Listed)
    /\ cached' = IF listFlow.op = "unlock" THEN listFlow.files ELSE cached
    /\ FlowEnds
    /\ UNCHANGED <<present, diskIndex, unlocked, unlockedIndex, opFailed>>

(* The files of the vault are replaced; only useVaultUnlock caches them.     *)
UnlockSyncs ==
    /\ listFlow.at = "read"
    /\ shown' = Once(listFlow.files)
    /\ cached' = IF listFlow.op = "unlock" THEN listFlow.files ELSE cached
    /\ FlowEnds
    /\ UNCHANGED <<present, diskIndex, unlocked, unlockedIndex, opFailed>>

-----------------------------------------------------------------------------
(* handleEncryptAndStore of an unlocked vault; the id of the file is new.    *)
handleEncryptAndStore(f) ==
    /\ Resting /\ unlocked
    /\ f \notin diskIndex \cup unlockedIndex \cup cached \cup Listed
    /\ listFlow' = [op |-> "add", at |-> "record", files |-> {f}]
    /\ UNCHANGED <<present, diskIndex, unlocked, unlockedIndex, shown, cached, opFailed>>

RecordAppended ==
    /\ listFlow.at = "record" /\ present
    /\ unlockedIndex' = unlockedIndex \cup listFlow.files
    /\ listFlow' = [listFlow EXCEPT !.at = "commit"]
    /\ UNCHANGED <<present, diskIndex, unlocked, shown, cached, opFailed>>

(* The header is written and addFile of the store lists the file once more.  *)
AddCommitted ==
    /\ listFlow.op = "add" /\ listFlow.at = "commit" /\ present
    /\ diskIndex' = unlockedIndex
    /\ shown' = [f \in UFiles |-> shown[f] + IF f \in listFlow.files THEN 1 ELSE 0]
    /\ cached' = Listed \cup listFlow.files
    /\ FlowEnds
    /\ UNCHANGED <<present, unlocked, unlockedIndex, opFailed>>

(* The orchestrator throws before or after its index changed; the screen     *)
(* reports it and the index stays as it is.                                  *)
OperationFails ==
    /\ listFlow.at \in {"record", "commit"}
    /\ opFailed' = TRUE
    /\ FlowEnds
    /\ UNCHANGED <<present, diskIndex, unlocked, unlockedIndex, shown, cached>>

(* handleConfirmDelete, one of the selected files.                           *)
handleConfirmDelete(f) ==
    /\ Resting /\ unlocked /\ f \in unlockedIndex
    /\ unlockedIndex' = unlockedIndex \ {f}
    /\ listFlow' = [op |-> "remove", at |-> "commit", files |-> {f}]
    /\ UNCHANGED <<present, diskIndex, unlocked, shown, cached, opFailed>>

RemoveCommitted ==
    /\ listFlow.op = "remove" /\ listFlow.at = "commit" /\ present
    /\ diskIndex' = unlockedIndex
    /\ listFlow' = [listFlow EXCEPT !.at = "storage"]
    /\ UNCHANGED <<present, unlocked, unlockedIndex, shown, cached, opFailed>>

(* deleteFile of the store, after storageService.deleteFile: the cache is    *)
(* left as it is.                                                            *)
StoreDeletes ==
    /\ listFlow.at = "storage"
    /\ shown' = [f \in UFiles |-> IF f \in listFlow.files THEN 0 ELSE shown[f]]
    /\ FlowEnds
    /\ UNCHANGED <<present, diskIndex, unlocked, unlockedIndex, cached, opFailed>>

-----------------------------------------------------------------------------
PlugOrPull ==
    /\ present' = ~present
    /\ UNCHANGED <<diskIndex, unlocked, unlockedIndex, shown, cached, listFlow, opFailed>>

ReloadPage ==
    /\ unlocked' = FALSE /\ unlockedIndex' = {} /\ shown' = Once({})
    /\ FlowEnds /\ opFailed' = FALSE
    /\ UNCHANGED <<present, diskIndex, cached>>

FileListNext ==
    \/ RestoreFiles \/ PromptUnlock \/ UnlockFails \/ UnlockOpens \/ UnlockSyncs
    \/ \E op \in {"unlock", "unlockToRemove"} : handleVaultUnlock(op)
    \/ \E f \in UFiles : handleEncryptAndStore(f) \/ handleConfirmDelete(f)
    \/ RecordAppended \/ AddCommitted \/ OperationFails \/ RemoveCommitted \/ StoreDeletes
    \/ PlugOrPull \/ ReloadPage

FileListSpec == FileListInit /\ [][FileListNext]_FileListVars

-----------------------------------------------------------------------------
(* While a vault is unlocked and nothing is in progress, the files shown are *)
(* the files committed to the drive, whatever the poll copied half-way and   *)
(* whatever an old cache put on the screen, unless an operation failed.      *)
ShownIsCommitted ==
    unlocked /\ Resting /\ ~opFailed => Listed = diskIndex /\ unlockedIndex = diskIndex

(* A file is listed once.                                                    *)
ListedOnce == \A f \in UFiles : shown[f] <= 1

(* A file whose removal was reported is not shown again.                     *)
RemovedNotShown == ~unlocked /\ Resting => Listed \subseteq diskIndex
=============================================================================
