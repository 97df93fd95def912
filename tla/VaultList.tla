------------------------------ MODULE VaultList ------------------------------
(***************************************************************************)
(* The list of vaults of the web application: the store of                   *)
(* usbvault-app/src/stores/vaultListStore.ts and the browser storage of      *)
(* services/webStorage.ts.                                                   *)
(*                                                                          *)
(* Local vaults are kept in localStorage, their files in IndexedDB; the      *)
(* vaults of USB drives are found by asking the companion.  loadVaults, the  *)
(* saving of a file and the clean-up of a deleted vault wait for the         *)
(* companion or for IndexedDB between their steps, and the page may be       *)
(* reloaded at any of them.  A write to localStorage that fails is logged    *)
(* and nothing more (lsSet): the old list stays, the caller goes on.         *)
(*                                                                          *)
(* Names, counts of files and isLoading are left out: isLoading only holds   *)
(* back the poll, and the screens start loadVaults without looking at it.    *)
(* The branches for other platforms are dead code (isWeb is true).           *)
(***************************************************************************)
EXTENDS Naturals, FiniteSets

CONSTANTS
    LocalVaults,  \* ids of vaults created in the browser, never used twice
    OldIds,       \* those that an older version gave out, of the form LOCAL_VAULT_ID_RE
    UsbVaults,    \* ids of vaults on USB drives
    ListFiles,    \* ids of files
    FileVaults,   \* bound: the vaults to which files are added
    VaultLoads    \* calls of loadVaults that may overlap

ASSUME VaultListAssumption == LocalVaults \cap UsbVaults = {} /\ OldIds \subseteq LocalVaults

VARIABLES
    vaultIds,   \* the store's list
    loaded,     \* a loadVaults has completed since the page was loaded
    stored,     \* LS_VAULTS_KEY
    untagged,   \* those of its vaults that have no source: 'local'
    migrated,   \* MIGRATION_KEY
    meta,       \* IDB_META_STORE
    blobs,      \* IDB_FILE_STORE
    pathless,   \* vaults of drives that are listed with an empty mountPoint
    loads,      \* the loadVaults in progress
    saves,      \* the saveFile in progress, per file
    cleans,     \* the clean-up of deleted vaults, per vault
    used,       \* history: ids generateVaultId gave out
    kept,       \* history: local vaults created and not deleted
    strayed,    \* history: those the migration did not carry over, or whose own write failed
    raced       \* history: one of the two known lost updates happened

listFlows == <<loads, saves, cleans>>
storage == <<stored, untagged, strayed>>
ListVars == <<vaultIds, loaded, storage, migrated, meta, blobs, pathless, listFlows,
              used, kept, raced>>

AllVaults == LocalVaults \cup UsbVaults
NoLoad == [at |-> "none", found |-> {}]
NoSave == [at |-> "none", list |-> {}, bare |-> {}]
NoClean == [at |-> "none", todo |-> {}]

(* The type invariant.                                                       *)
ListTypeOK ==
    /\ vaultIds \subseteq AllVaults /\ stored \subseteq AllVaults
    /\ untagged \subseteq AllVaults /\ strayed \subseteq LocalVaults
    /\ loaded \in BOOLEAN /\ migrated \in BOOLEAN /\ raced \in BOOLEAN
    /\ meta \subseteq AllVaults \X ListFiles /\ blobs \subseteq AllVaults \X ListFiles
    /\ pathless \subseteq UsbVaults
    /\ loads \in [VaultLoads -> [at : {"none", "list", "discover"}, found : SUBSET UsbVaults]]
    /\ saves \in [AllVaults \X ListFiles ->
                     [at : {"none", "meta", "metaOnly", "blob", "count"},
                      list : SUBSET AllVaults, bare : SUBSET AllVaults]]
    /\ cleans \in [AllVaults -> [at : {"none", "list", "blob", "meta"}, todo : SUBSET ListFiles]]
    /\ used \subseteq LocalVaults \ OldIds /\ kept \subseteq LocalVaults

(* An older version may have left vaults and stale USB entries, some or all  *)
(* of them without a tag.                                                    *)
ListInit ==
    /\ stored \in SUBSET AllVaults /\ untagged \in SUBSET stored /\ strayed = {}
    /\ kept = stored \cap LocalVaults /\ used = kept \ OldIds
    /\ vaultIds = {} /\ loaded = FALSE /\ migrated = FALSE
    /\ meta = {} /\ blobs = {} /\ pathless = {}
    /\ loads = [l \in VaultLoads |-> NoLoad]
    /\ saves = [k \in AllVaults \X ListFiles |-> NoSave]
    /\ cleans = [v \in AllVaults |-> NoClean]
    /\ raced = FALSE

-----------------------------------------------------------------------------
(* A vault of a drive has no mount point if its SECURE volume is not         *)
(* mounted, and never on Linux and Windows, where no partition is marked.    *)
PathlessAmong(found) == SUBSET found

(* persistVaults writes the vaults without a mount point, each with its tag, *)
(* unless the write fails: then what was to be saved of "own" is lost.       *)
(* Before the first load the store does not know the vaults that are stored. *)
persistVaults(ids, own) ==
    \/ /\ stored' = ids \cap (LocalVaults \cup pathless) /\ untagged' = {}
       /\ raced' = (raced \/ ~loaded)
       /\ UNCHANGED strayed
    \/ strayed' = strayed \cup own /\ UNCHANGED <<stored, untagged, raced>>

(* What migrateVaultSources takes for local vaults.  generateVaultId gives   *)
(* out ids of another form, which it only knows by their tag.                *)
Recognised == {v \in stored : v \notin untagged \/ v \in OldIds}

(* loadVaults up to the request for the drives, the migration included: once *)
(* it purges what it does not recognise and tags the rest.  The flag is set  *)
(* whether or not the list was written; if that throws, it tries again in    *)
(* the next loadVaults.                                                      *)
loadVaults(l) ==
    /\ loads[l].at = "none"
    /\ loads' = [loads EXCEPT ![l].at = "list"]
    /\ \/ migrated /\ UNCHANGED <<storage, migrated>>
       \/ /\ ~migrated /\ migrated' \in BOOLEAN
          /\ \/ stored' = Recognised /\ untagged' = {}
             \/ UNCHANGED <<stored, untagged>>
          /\ strayed' = strayed \cup (LocalVaults \cap (untagged' \cup (stored \ stored')))
    /\ UNCHANGED <<vaultIds, loaded, meta, blobs, pathless, saves, cleans, used, kept, raced>>

(* Slip: the stored vaults are read together with the drives.                *)
DrivesListedWithVaults(l) ==
    /\ loads[l].at = "list"
    /\ \E found \in SUBSET UsbVaults :
          loads' = [loads EXCEPT ![l] = [at |-> "discover", found |-> found \cup stored]]
    /\ UNCHANGED <<vaultIds, loaded, storage, migrated, meta, blobs, pathless, saves, cleans,
                   used, kept, raced>>

(* listDrives answers with the drives plugged in, or fails; then             *)
(* discoverVaults is asked.                                                  *)
DrivesListed(l) ==
    /\ loads[l].at = "list"
    /\ \E found \in SUBSET UsbVaults :
          loads' = [loads EXCEPT ![l] = [at |-> "discover", found |-> found]]
    /\ UNCHANGED <<vaultIds, loaded, storage, migrated, meta, blobs, pathless, saves, cleans,
                   used, kept, raced>>

(* discoverVaults answers or fails.  The storage is read only now, in the    *)
(* step that sets the list; what has no tag is left out.                     *)
VaultsDiscovered(l) ==
    /\ loads[l].at = "discover"
    /\ \E found \in SUBSET UsbVaults :
          /\ vaultIds' = loads[l].found \cup found \cup (stored \ untagged)
          /\ \E empty \in PathlessAmong(found) :
                pathless' = empty \cup (((stored \ untagged) \cap UsbVaults) \ (loads[l].found \cup found))
    /\ loaded' = TRUE
    /\ loads' = [loads EXCEPT ![l] = NoLoad]
    /\ UNCHANGED <<storage, migrated, meta, blobs, saves, cleans, used, kept, raced>>

-----------------------------------------------------------------------------
createVault(v) ==
    /\ v \in LocalVaults \ (used \cup OldIds)
    /\ vaultIds' = vaultIds \cup {v}
    /\ persistVaults(vaultIds \cup {v}, {v})
    /\ used' = used \cup {v} /\ kept' = kept \cup {v}
    /\ UNCHANGED <<loaded, migrated, meta, blobs, pathless, listFlows>>

renameVault(v) ==
    /\ v \in vaultIds
    /\ persistVaults(vaultIds, {})
    /\ UNCHANGED <<vaultIds, loaded, migrated, meta, blobs, pathless, listFlows, used, kept>>

(* storageService.deleteVault reads the stored list before persistVaults     *)
(* writes it and writes its own version after; if that fails, the list of    *)
(* persistVaults stays.  The clean-up of a vault without files does nothing. *)
deleteVault(v) ==
    /\ v \in vaultIds /\ cleans[v] = NoClean
    /\ vaultIds' = vaultIds \ {v}
    /\ \/ /\ stored' = stored \ {v} /\ untagged' = untagged \ {v}
          /\ UNCHANGED <<strayed, raced>>
       \/ persistVaults(vaultIds \ {v}, {v} \cap LocalVaults)
    /\ cleans' = IF v \in FileVaults THEN [cleans EXCEPT ![v].at = "list"] ELSE cleans
    /\ kept' = kept \ {v}
    /\ UNCHANGED <<loaded, migrated, meta, blobs, pathless, loads, saves, used>>

(* The clean-up of deleteVault: the files that have metadata, and for each   *)
(* its blob and then its metadata.                                           *)
CleanListed(v) ==
    LET todo == {f \in ListFiles : <<v, f>> \in meta} IN
    /\ cleans[v].at = "list"
    /\ cleans' = [cleans EXCEPT ![v] = IF todo = {} THEN NoClean ELSE [at |-> "blob", todo |-> todo]]
    /\ UNCHANGED <<vaultIds, loaded, storage, migrated, meta, blobs, pathless, loads, saves,
                   used, kept, raced>>

CleanBlob(v, f) ==
    /\ cleans[v].at = "blob" /\ f = CHOOSE g \in cleans[v].todo : TRUE
    /\ blobs' = blobs \ {<<v, f>>}
    /\ cleans' = [cleans EXCEPT ![v].at = "meta"]
    /\ UNCHANGED <<vaultIds, loaded, storage, migrated, meta, pathless, loads, saves,
                   used, kept, raced>>

CleanMeta(v, f) ==
    /\ cleans[v].at = "meta" /\ f = CHOOSE g \in cleans[v].todo : TRUE
    /\ meta' = meta \ {<<v, f>>}
    /\ cleans' = [cleans EXCEPT ![v] =
           IF @.todo = {f} THEN NoClean ELSE [at |-> "blob", todo |-> @.todo \ {f}]]
    /\ UNCHANGED <<vaultIds, loaded, storage, migrated, blobs, pathless, loads, saves,
                   used, kept, raced>>

-----------------------------------------------------------------------------
(* addFile starts saveFile, which nobody waits for, and persists the list.   *)
(* A file brings a blob unless it was stored in an unlocked container.       *)
addFileWeb(v, f) ==
    /\ v \in vaultIds \cap FileVaults /\ saves[<<v, f>>] = NoSave /\ <<v, f>> \notin meta
    /\ \E at \in IF v \in UsbVaults \ pathless THEN {"metaOnly"} ELSE {"meta", "metaOnly"} :
          saves' = [saves EXCEPT ![<<v, f>>].at = at]
    /\ persistVaults(vaultIds, {})
    /\ UNCHANGED <<vaultIds, loaded, migrated, meta, blobs, pathless, loads, cleans, used, kept>>

(* What saveFile does after its last put: the list is read, and if it has    *)
(* the vault it is written again once the files have been counted.           *)
CountOrEnd(v, f) ==
    saves' = [saves EXCEPT ![<<v, f>>] =
        IF v \in stored THEN [at |-> "count", list |-> stored, bare |-> untagged] ELSE NoSave]

SavePutsMeta(v, f) ==
    /\ meta' = meta \cup {<<v, f>>}
    /\ \/ saves[<<v, f>>].at = "meta" /\ saves' = [saves EXCEPT ![<<v, f>>].at = "blob"]
       \/ saves[<<v, f>>].at = "metaOnly" /\ CountOrEnd(v, f)
    /\ UNCHANGED <<vaultIds, loaded, storage, migrated, blobs, pathless, loads, cleans,
                   used, kept, raced>>

SavePutsBlob(v, f) ==
    /\ saves[<<v, f>>].at = "blob"
    /\ blobs' = blobs \cup {<<v, f>>}
    /\ CountOrEnd(v, f)
    /\ UNCHANGED <<vaultIds, loaded, storage, migrated, meta, pathless, loads, cleans,
                   used, kept, raced>>

(* The list read before the count is written: vaults created or deleted      *)
(* meanwhile are lost or come back.                                          *)
SaveWritesList(v, f) ==
    /\ saves[<<v, f>>].at = "count"
    /\ \/ stored' = saves[<<v, f>>].list /\ untagged' = saves[<<v, f>>].bare
       \/ UNCHANGED <<stored, untagged>>
    /\ raced' = (raced \/ stored # stored' \/ untagged # untagged')
    /\ saves' = [saves EXCEPT ![<<v, f>>] = NoSave]
    /\ UNCHANGED <<vaultIds, loaded, strayed, migrated, meta, blobs, pathless, loads, cleans,
                   used, kept>>

-----------------------------------------------------------------------------
(* The page is reloaded or closed: what is in memory is gone.                *)
Reload ==
    /\ vaultIds' = {} /\ loaded' = FALSE /\ pathless' = {}
    /\ loads' = [l \in VaultLoads |-> NoLoad]
    /\ saves' = [k \in AllVaults \X ListFiles |-> NoSave]
    /\ cleans' = [v \in AllVaults |-> NoClean]
    /\ UNCHANGED <<storage, migrated, meta, blobs, used, kept, raced>>

ListNext ==
    \/ \E l \in VaultLoads : loadVaults(l) \/ DrivesListed(l) \/ VaultsDiscovered(l)
    \/ \E v \in LocalVaults : createVault(v)
    \/ \E v \in AllVaults : renameVault(v) \/ deleteVault(v) \/ CleanListed(v)
    \/ \E v \in AllVaults, f \in ListFiles :
          \/ addFileWeb(v, f) \/ SavePutsMeta(v, f) \/ SavePutsBlob(v, f) \/ SaveWritesList(v, f)
          \/ CleanBlob(v, f) \/ CleanMeta(v, f)
    \/ Reload

ListSpec == ListInit /\ [][ListNext]_ListVars

-----------------------------------------------------------------------------
(* The vaults that were created and not deleted are the ones stored, and     *)
(* once loaded the ones shown, however loads, saves, deletions and reloads   *)
(* overlap and writes fail.  Exceptions: a vault whose own creation or       *)
(* deletion was not written, or that the migration did not carry over (no    *)
(* tag and an id it does not know, or a failed write), may be missing or     *)
(* come back, without harm to the others; and one of two lost updates that   *)
(* can hit any vault, a list persisted before the first load, or written     *)
(* back by a saveFile that had read it earlier.                              *)
Settled(S) == (S \cap LocalVaults) \ strayed
VaultsKept == raced \/ (Settled(stored) = Settled(kept) /\ (loaded => Settled(vaultIds) = Settled(kept)))

(* persistVaults: "USB vaults are discovered live from connected drives and  *)
(* should not be saved to localStorage".  The test is the mount point, which *)
(* a discovered vault need not have.                                         *)
UsbNotStored == migrated => stored \cap UsbVaults = {}

(* migrateVaultSources: "Keep only vaults that were created locally ...      *)
(* Everything else is a stale USB entry".                                    *)
MigrationSparesLocal ==
    [][\A l \in VaultLoads : loadVaults(l) => stored \cap LocalVaults \subseteq stored']_ListVars

(* Without the exceptions.                                                   *)
VaultsAlwaysKept == kept \subseteq stored

(* deleteVault: "Delete a vault and all its files from both localStorage and *)
(* IndexedDB".                                                               *)
NoOrphanFiles ==
    \A k \in blobs : k[1] \in kept \/ cleans[k[1]] # NoClean
=============================================================================
