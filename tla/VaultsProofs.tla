----------------------------- MODULE VaultsProofs -----------------------------
(***************************************************************************)
(* Proofs about the client's other keepers of vaults: the list of vaults, the *)
(* list of the files of an open vault and the setup of a drive, for any sets *)
(* of vaults, files, drives and screens; and the type invariant of MCVaults, *)
(* with the container's part from VaultContainerProofs.                      *)
(***************************************************************************)
EXTENDS MCVaults, VaultContainerProofs

(***************************************************************************)
(* VaultList.  What is persisted after the first load is the list in memory, *)
(* whose local vaults are those created and not deleted, strayed ones apart. *)
(* VaultsKept is inductive with one more fact: a load that is past the       *)
(* migration leaves out, for want of a tag, only vaults that have strayed.   *)
(***************************************************************************)
LoadsSeeTagged ==
    \/ raced \/ untagged \cap LocalVaults \subseteq strayed
    \/ ~migrated /\ \A l \in VaultLoads : loads[l].at = "none"

ListInv == ListTypeOK /\ VaultsKept /\ LoadsSeeTagged

(* At the start nothing is shown or in progress, and what is stored is kept. *)
LEMMA ListStarts ==
  ASSUME ListInit
  PROVE  ListInv
<1>1. /\ NoLoad \in [at : {"none", "list", "discover"}, found : SUBSET UsbVaults]
      /\ NoSave \in [at : {"none", "meta", "metaOnly", "blob", "count"},
                          list : SUBSET AllVaults, bare : SUBSET AllVaults]
      /\ NoClean \in [at : {"none", "list", "blob", "meta"}, todo : SUBSET ListFiles]
  BY DEF NoLoad, NoSave, NoClean
<1>2. ListTypeOK
  BY <1>1 DEF ListInit, ListTypeOK
<1>3. VaultsKept /\ LoadsSeeTagged
  BY DEF ListInit, VaultsKept, LoadsSeeTagged, Settled, NoLoad
<1> QED BY <1>2, <1>3 DEF ListInv

(* The loading of the list, which reads the storage in its last step.        *)
LEMMA ListLoads ==
  ASSUME ListInv, NEW l \in VaultLoads,
         loadVaults(l) \/ DrivesListed(l) \/ VaultsDiscovered(l)
  PROVE  ListInv'
<1>1. loads[l] \in [at : {"none", "list", "discover"}, found : SUBSET UsbVaults]
  BY DEF ListInv, ListTypeOK
<1>2. CASE loadVaults(l)
  <2>1. loads' = [loads EXCEPT ![l] = [loads[l] EXCEPT !.at = "list"]]
    BY <1>2 DEF loadVaults
  <2>2. [loads[l] EXCEPT !.at = "list"] \in [at : {"none", "list", "discover"}, found : SUBSET UsbVaults]
    BY <1>1
  <2>3. /\ stored' \subseteq stored /\ untagged' \subseteq AllVaults /\ migrated' \in BOOLEAN
        /\ strayed' \subseteq LocalVaults /\ strayed \subseteq strayed'
        /\ (stored \ stored') \cap LocalVaults \subseteq strayed'
    BY <1>2 DEF ListInv, ListTypeOK, loadVaults, Recognised, storage
  <2>4. ListTypeOK'
    BY <1>2, <2>1, <2>2, <2>3 DEF ListInv, ListTypeOK, loadVaults
  <2>5. VaultsKept'
    BY <1>2, <2>3 DEF ListInv, VaultsKept, Settled, loadVaults
  <2>6. raced' \/ untagged' \cap LocalVaults \subseteq strayed'
    BY <1>2 DEF ListInv, LoadsSeeTagged, loadVaults, storage
  <2> QED BY <2>4, <2>5, <2>6 DEF ListInv, LoadsSeeTagged
<1>3. CASE DrivesListed(l)
  <2>1. PICK found \in SUBSET UsbVaults : loads' = [loads EXCEPT ![l] = [at |-> "discover", found |-> found]]
    BY <1>3 DEF DrivesListed
  <2>2. ListTypeOK'
    BY <1>3, <2>1 DEF ListInv, ListTypeOK, DrivesListed, storage
  <2>3. VaultsKept' /\ LoadsSeeTagged'
    BY <1>3 DEF ListInv, VaultsKept, Settled, LoadsSeeTagged, DrivesListed, storage
  <2> QED BY <2>2, <2>3 DEF ListInv
<1>4. CASE VaultsDiscovered(l)
  <2>1. PICK found \in SUBSET UsbVaults :
          /\ vaultIds' = loads[l].found \cup found \cup (stored \ untagged)
          /\ \E empty \in PathlessAmong(found) :
                pathless' = empty \cup (((stored \ untagged) \cap UsbVaults) \ (loads[l].found \cup found))
    BY <1>4 DEF VaultsDiscovered
  <2>2. loads' \in [VaultLoads -> [at : {"none", "list", "discover"}, found : SUBSET UsbVaults]]
    BY <1>4 DEF ListInv, ListTypeOK, VaultsDiscovered, NoLoad, storage
  <2>3. pathless' \subseteq UsbVaults
    BY <2>1 DEF PathlessAmong
  <2>4. ListTypeOK'
    BY <1>1, <1>4, <2>1, <2>2, <2>3 DEF ListInv, ListTypeOK, VaultsDiscovered, AllVaults, storage
  <2>5. vaultIds' \cap LocalVaults = (stored \ untagged) \cap LocalVaults
    BY <1>1, <2>1, VaultListAssumption
  <2>6. raced \/ untagged \cap LocalVaults \subseteq strayed
    BY <1>4 DEF ListInv, LoadsSeeTagged, VaultsDiscovered
  <2>7. VaultsKept' /\ LoadsSeeTagged'
    BY <1>4, <2>5, <2>6 DEF ListInv, VaultsKept, Settled, LoadsSeeTagged, VaultsDiscovered, storage
  <2> QED BY <2>4, <2>7 DEF ListInv
<1> QED BY <1>2, <1>3, <1>4

(* What persistVaults writes is the list in memory, if it was ever loaded;   *)
(* if it fails, what was to be written has strayed.                          *)
LEMMA ListPersists ==
  ASSUME ListInv, NEW ids \in SUBSET AllVaults, NEW own \in SUBSET LocalVaults,
         persistVaults(ids, own)
  PROVE  /\ stored' \subseteq AllVaults /\ untagged' \subseteq AllVaults
         /\ raced' \in BOOLEAN /\ (raced => raced')
         /\ strayed' \subseteq LocalVaults /\ strayed \subseteq strayed'
         /\ \/ stored' = stored /\ own \subseteq strayed'
            \/ /\ stored' \cap LocalVaults = ids \cap LocalVaults
               /\ ~raced' => loaded
         /\ untagged' = untagged \/ untagged' = {}
BY DEF ListInv, ListTypeOK, persistVaults

(* Creating, renaming and deleting a vault keep the list equal to what is    *)
(* stored.                                                                   *)
LEMMA ListEdits ==
  ASSUME ListInv,
         \/ \E v \in LocalVaults : createVault(v)
         \/ \E v \in AllVaults : renameVault(v) \/ deleteVault(v)
  PROVE  ListInv'
<1>1. ListTypeOK /\ VaultsKept /\ LoadsSeeTagged
  BY DEF ListInv
<1>2. ASSUME NEW v \in LocalVaults, createVault(v) PROVE ListInv'
  <2>1. vaultIds \cup {v} \in SUBSET AllVaults /\ {v} \in SUBSET LocalVaults
    BY <1>1 DEF ListTypeOK, AllVaults
  <2>2. persistVaults(vaultIds \cup {v}, {v})
    BY <1>2 DEF createVault
  <2>3. ListTypeOK'
    BY <1>1, <1>2, <2>1, <2>2, ListPersists DEF ListTypeOK, createVault, listFlows
  <2>4. VaultsKept'
    <3> SUFFICES ASSUME ~raced' PROVE VaultsKept'
      BY DEF VaultsKept
    <3>1. /\ (stored \cap LocalVaults) \ strayed = (kept \cap LocalVaults) \ strayed
          /\ loaded => (vaultIds \cap LocalVaults) \ strayed = (kept \cap LocalVaults) \ strayed
      BY <1>1, <1>2, <2>1, <2>2, ListPersists DEF VaultsKept, Settled
    <3>2. strayed \subseteq strayed' /\ loaded' = loaded
          /\ vaultIds' = vaultIds \cup {v} /\ kept' = kept \cup {v}
      BY <1>1, <1>2, <2>1, <2>2, ListPersists DEF createVault
    <3>3. CASE stored' = stored /\ {v} \subseteq strayed'
      BY <3>1, <3>2, <3>3 DEF VaultsKept, Settled
    <3>4. CASE stored' \cap LocalVaults = (vaultIds \cup {v}) \cap LocalVaults /\ loaded
      BY <3>1, <3>2, <3>4 DEF VaultsKept, Settled
    <3> QED BY <1>1, <1>2, <2>1, <2>2, <3>3, <3>4, ListPersists
  <2>5. LoadsSeeTagged'
    BY <1>1, <1>2, <2>1, <2>2, ListPersists DEF LoadsSeeTagged, createVault, listFlows
  <2> QED BY <2>3, <2>4, <2>5 DEF ListInv
<1>3. ASSUME NEW v \in AllVaults, renameVault(v) PROVE ListInv'
  <2>1. vaultIds \in SUBSET AllVaults /\ {} \in SUBSET LocalVaults
    BY <1>1 DEF ListTypeOK
  <2>2. persistVaults(vaultIds, {})
    BY <1>3 DEF renameVault
  <2>3. ListTypeOK'
    BY <1>1, <1>3, <2>1, <2>2, ListPersists DEF ListTypeOK, renameVault, listFlows
  <2>4. VaultsKept'
    BY <1>1, <1>3, <2>1, <2>2, ListPersists DEF VaultsKept, Settled, renameVault
  <2>5. LoadsSeeTagged'
    BY <1>1, <1>3, <2>1, <2>2, ListPersists DEF LoadsSeeTagged, renameVault, listFlows
  <2> QED BY <2>3, <2>4, <2>5 DEF ListInv
<1>4. ASSUME NEW v \in AllVaults, deleteVault(v) PROVE ListInv'
  <2>1. cleans' \in [AllVaults -> [at : {"none", "list", "blob", "meta"}, todo : SUBSET ListFiles]]
    <3>1. cleans' = [cleans EXCEPT ![v] = [cleans[v] EXCEPT !.at = "list"]] \/ cleans' = cleans
      BY <1>4 DEF deleteVault
    <3>2. cleans[v] \in [at : {"none", "list", "blob", "meta"}, todo : SUBSET ListFiles]
      BY <1>1 DEF ListTypeOK
    <3> QED BY <1>1, <3>1, <3>2 DEF ListTypeOK
  <2>2. vaultIds \ {v} \in SUBSET AllVaults /\ {v} \cap LocalVaults \in SUBSET LocalVaults
    BY <1>1 DEF ListTypeOK
  <2>3. CASE stored' = stored \ {v} /\ untagged' = untagged \ {v} /\ UNCHANGED <<strayed, raced>>
    <3>1. ListTypeOK'
      BY <1>1, <1>4, <2>1, <2>3 DEF ListTypeOK, deleteVault
    <3>2. VaultsKept'
      BY <1>1, <1>4, <2>3 DEF VaultsKept, Settled, deleteVault
    <3>3. LoadsSeeTagged'
      BY <1>1, <1>4, <2>3 DEF LoadsSeeTagged, deleteVault
    <3> QED BY <3>1, <3>2, <3>3 DEF ListInv
  <2>4. CASE persistVaults(vaultIds \ {v}, {v} \cap LocalVaults)
    <3>1. ListTypeOK'
      BY <1>1, <1>4, <2>1, <2>2, <2>4, ListPersists DEF ListTypeOK, deleteVault
    <3>2. VaultsKept'
      <4> SUFFICES ASSUME ~raced' PROVE VaultsKept'
        BY DEF VaultsKept
      <4>1. /\ (stored \cap LocalVaults) \ strayed = (kept \cap LocalVaults) \ strayed
            /\ loaded => (vaultIds \cap LocalVaults) \ strayed = (kept \cap LocalVaults) \ strayed
        BY <1>1, <1>4, <2>2, <2>4, ListPersists DEF VaultsKept, Settled
      <4>2. strayed \subseteq strayed' /\ loaded' = loaded
            /\ vaultIds' = vaultIds \ {v} /\ kept' = kept \ {v}
        BY <1>1, <1>4, <2>2, <2>4, ListPersists DEF deleteVault
      <4>3. CASE stored' = stored /\ ({v} \cap LocalVaults) \subseteq strayed'
        BY <4>1, <4>2, <4>3 DEF VaultsKept, Settled
      <4>4. CASE stored' \cap LocalVaults = (vaultIds \ {v}) \cap LocalVaults /\ loaded
        BY <4>1, <4>2, <4>4 DEF VaultsKept, Settled
      <4> QED BY <1>1, <1>4, <2>2, <2>4, <4>3, <4>4, ListPersists
    <3>3. LoadsSeeTagged'
      BY <1>1, <1>4, <2>2, <2>4, ListPersists DEF LoadsSeeTagged, deleteVault
    <3> QED BY <3>1, <3>2, <3>3 DEF ListInv
  <2> QED BY <1>4, <2>3, <2>4 DEF deleteVault
<1> QED BY <1>2, <1>3, <1>4

(* Files: the metadata, the blobs and what is written back at the end.       *)
LEMMA ListFilesMove ==
  ASSUME ListInv, NEW v \in AllVaults, NEW f \in ListFiles,
         \/ addFileWeb(v, f) \/ SavePutsMeta(v, f) \/ SavePutsBlob(v, f) \/ SaveWritesList(v, f)
         \/ CleanListed(v) \/ CleanBlob(v, f) \/ CleanMeta(v, f)
  PROVE  ListInv'
<1> DEFINE SaveStates == [at : {"none", "meta", "metaOnly", "blob", "count"},
                          list : SUBSET AllVaults, bare : SUBSET AllVaults]
           CleanStates == [at : {"none", "list", "blob", "meta"}, todo : SUBSET ListFiles]
<1>1. ListTypeOK /\ VaultsKept /\ LoadsSeeTagged
  BY DEF ListInv
<1>2. /\ <<v, f>> \in AllVaults \X ListFiles
      /\ saves \in [AllVaults \X ListFiles -> SaveStates] /\ saves[<<v, f>>] \in SaveStates
      /\ cleans \in [AllVaults -> CleanStates] /\ cleans[v] \in CleanStates
      /\ NoSave \in SaveStates /\ NoClean \in CleanStates
  BY <1>1 DEF ListTypeOK, NoSave, NoClean
<1>3. CASE addFileWeb(v, f)
  <2>1. PICK at \in {"meta", "metaOnly"} : saves' = [saves EXCEPT ![<<v, f>>].at = at]
    BY <1>3 DEF addFileWeb
  <2>2. saves' = [saves EXCEPT ![<<v, f>>] = [saves[<<v, f>>] EXCEPT !.at = at]]
    BY <2>1
  <2>3. saves' \in [AllVaults \X ListFiles -> SaveStates]
    BY <1>2, <2>2
  <2>4. vaultIds \in SUBSET AllVaults /\ {} \in SUBSET LocalVaults /\ persistVaults(vaultIds, {})
    BY <1>1, <1>3 DEF ListTypeOK, addFileWeb
  <2>5. ListTypeOK'
    BY <1>1, <1>3, <2>3, <2>4, ListPersists DEF ListTypeOK, addFileWeb
  <2>6. VaultsKept'
    BY <1>1, <1>3, <2>4, ListPersists DEF VaultsKept, Settled, addFileWeb
  <2>7. LoadsSeeTagged'
    BY <1>1, <1>3, <2>4, ListPersists DEF LoadsSeeTagged, addFileWeb
  <2> QED BY <2>5, <2>6, <2>7 DEF ListInv
<1>4. CASE SavePutsMeta(v, f) \/ SavePutsBlob(v, f)
  <2>1. saves' \in [AllVaults \X ListFiles -> SaveStates]
    <3>1. CASE saves' = [saves EXCEPT ![<<v, f>>].at = "blob"]
      <4>1. saves' = [saves EXCEPT ![<<v, f>>] = [saves[<<v, f>>] EXCEPT !.at = "blob"]]
        BY <3>1
      <4> QED BY <1>2, <4>1
    <3>2. CASE CountOrEnd(v, f)
      <4>1. stored \in SUBSET AllVaults /\ untagged \in SUBSET AllVaults
        BY <1>1 DEF ListTypeOK
      <4> QED BY <1>2, <3>2, <4>1 DEF CountOrEnd
    <3> QED BY <1>4, <3>1, <3>2 DEF SavePutsMeta, SavePutsBlob
  <2>2. ListTypeOK'
    BY <1>1, <1>2, <1>4, <2>1 DEF ListTypeOK, SavePutsMeta, SavePutsBlob, storage
  <2>3. VaultsKept' /\ LoadsSeeTagged'
    BY <1>1, <1>4 DEF VaultsKept, Settled, LoadsSeeTagged, SavePutsMeta, SavePutsBlob, storage
  <2> QED BY <2>2, <2>3 DEF ListInv
<1>5. CASE SaveWritesList(v, f)
  <2>1. /\ stored' \subseteq AllVaults /\ untagged' \subseteq AllVaults /\ raced' \in BOOLEAN
        /\ ~raced' => ~raced /\ stored' = stored /\ untagged' = untagged
    BY <1>1, <1>2, <1>5 DEF ListTypeOK, SaveWritesList
  <2>2. saves' \in [AllVaults \X ListFiles -> SaveStates]
    BY <1>2, <1>5 DEF SaveWritesList
  <2>3. ListTypeOK'
    BY <1>1, <1>5, <2>1, <2>2 DEF ListTypeOK, SaveWritesList
  <2>4. VaultsKept' /\ LoadsSeeTagged'
    BY <1>1, <1>5, <2>1 DEF VaultsKept, Settled, LoadsSeeTagged, SaveWritesList
  <2> QED BY <2>3, <2>4 DEF ListInv
<1>6. CASE CleanListed(v) \/ CleanBlob(v, f) \/ CleanMeta(v, f)
  <2>1. cleans' \in [AllVaults -> CleanStates]
    <3>1. CASE CleanListed(v)
      <4>1. PICK c \in CleanStates : cleans' = [cleans EXCEPT ![v] = c]
        BY <1>2, <3>1 DEF CleanListed
      <4> QED BY <1>2, <4>1
    <3>2. CASE CleanBlob(v, f)
      <4>1. cleans' = [cleans EXCEPT ![v] = [cleans[v] EXCEPT !.at = "meta"]]
        BY <3>2 DEF CleanBlob
      <4> QED BY <1>2, <4>1
    <3>3. CASE CleanMeta(v, f)
      <4>1. cleans' = [cleans EXCEPT ![v] =
                IF cleans[v].todo = {f} THEN NoClean ELSE [at |-> "blob", todo |-> cleans[v].todo \ {f}]]
        BY <1>2, <3>3 DEF CleanMeta
      <4> QED BY <1>2, <4>1
    <3> QED BY <1>6, <3>1, <3>2, <3>3
  <2>2. ListTypeOK'
    BY <1>1, <1>6, <2>1 DEF ListTypeOK, CleanListed, CleanBlob, CleanMeta, storage
  <2>3. VaultsKept' /\ LoadsSeeTagged'
    BY <1>1, <1>6 DEF VaultsKept, Settled, LoadsSeeTagged, CleanListed, CleanBlob, CleanMeta, storage
  <2> QED BY <2>2, <2>3 DEF ListInv
<1> QED BY <1>3, <1>4, <1>5, <1>6

(* Loads, saves, clean-ups, edits and reloads keep the invariant of the      *)
(* list.                                                                     *)
LEMMA ListInductive ==
  ASSUME ListInv, [ListNext]_ListVars
  PROVE  ListInv'
<1>1. CASE Reload
  <2>1. /\ NoLoad \in [at : {"none", "list", "discover"}, found : SUBSET UsbVaults]
        /\ NoSave \in [at : {"none", "meta", "metaOnly", "blob", "count"},
                          list : SUBSET AllVaults, bare : SUBSET AllVaults]
        /\ NoClean \in [at : {"none", "list", "blob", "meta"}, todo : SUBSET ListFiles]
    BY DEF NoLoad, NoSave, NoClean
  <2>2. ListTypeOK'
    BY <1>1, <2>1 DEF ListInv, ListTypeOK, Reload, storage
  <2>3. VaultsKept' /\ LoadsSeeTagged'
    BY <1>1 DEF ListInv, VaultsKept, Settled, LoadsSeeTagged, Reload, NoLoad, storage
  <2> QED BY <2>2, <2>3 DEF ListInv
<1>2. CASE \E v \in AllVaults : CleanListed(v)
  <2>1. PICK v \in AllVaults : CleanListed(v)
    BY <1>2
  <2>2. CASE ListFiles = {}
    <3>1. cleans' = [cleans EXCEPT ![v] = NoClean] /\ NoClean.todo = {} /\ NoClean.at = "none"
      BY <2>1, <2>2 DEF CleanListed, NoClean
    <3>2. NoClean \in [at : {"none", "list", "blob", "meta"}, todo : SUBSET ListFiles]
      BY DEF NoClean
    <3>3. ListTypeOK'
      BY <2>1, <3>1, <3>2 DEF ListInv, ListTypeOK, CleanListed, storage
    <3>4. VaultsKept' /\ LoadsSeeTagged'
      BY <2>1 DEF ListInv, VaultsKept, Settled, LoadsSeeTagged, CleanListed, storage
    <3> QED BY <3>3, <3>4 DEF ListInv
  <2>3. CASE ListFiles # {}
    BY <2>1, <2>3, ListFilesMove
  <2> QED BY <2>2, <2>3
<1>3. CASE UNCHANGED ListVars
  BY <1>3 DEF ListInv, ListTypeOK, VaultsKept, Settled, LoadsSeeTagged, ListVars, listFlows, storage
<1> QED BY <1>1, <1>2, <1>3, ListLoads, ListEdits, ListFilesMove DEF ListNext

(* The invariant of the vault list holds throughout every behaviour.         *)
LEMMA ListInvariant == ListSpec => []ListInv
<1>1. ListInit => ListInv
  BY ListStarts
<1>2. ListInv /\ [ListNext]_ListVars => ListInv'
  BY ListInductive
<1> QED BY <1>1, <1>2, PTL DEF ListSpec

(* However loads, saves, deletions and reloads overlap and writes fail, the  *)
(* local vaults stored and shown are those that were created and not         *)
(* deleted: a vault whose own write failed, or that the migration did not    *)
(* carry over, harms no other, unless one of the two known lost updates      *)
(* happened.                                                                 *)
THEOREM ListKeepsVaults == ListSpec => []VaultsKept
<1>1. ListInv => VaultsKept
  BY DEF ListInv
<1> QED BY <1>1, ListInvariant, PTL

-----------------------------------------------------------------------------
(***************************************************************************)
(* FileList.  While a flow waits for the companion, the list, the index in   *)
(* memory and the index on the drive may differ by the file of the flow, and *)
(* by nothing else; ShownIsCommitted alone says nothing of these moments.    *)
(***************************************************************************)

(* Which flow waits at which step.                                           *)
UserFlowShape ==
    /\ listFlow.at = "none" <=> listFlow = NoUserFlow
    /\ listFlow.at \in {"derive", "read"} => listFlow.op \in {"unlock", "unlockToRemove"}
    /\ listFlow.at = "record" => listFlow.op = "add"
    /\ listFlow.at = "commit" => listFlow.op \in {"add", "remove"}
    /\ listFlow.at = "storage" => listFlow.op = "remove"

(* A file being added is listed at most once, by a poll.                     *)
AddedOnce == listFlow.op = "add" => \A f \in listFlow.files : shown[f] <= 1

(* What is shown while the vault is unlocked and nothing has failed.         *)
ShownWithin ==
    /\ listFlow.at \in {"none", "derive", "record"} => Listed = diskIndex /\ unlockedIndex = diskIndex
    /\ listFlow.at = "read" => unlockedIndex = diskIndex /\ listFlow.files = diskIndex
    /\ listFlow.at = "commit" /\ listFlow.op = "add" =>
          /\ unlockedIndex = diskIndex \cup listFlow.files
          /\ diskIndex \subseteq Listed /\ Listed \subseteq unlockedIndex
    /\ listFlow.at = "commit" /\ listFlow.op = "remove" =>
          /\ unlockedIndex = diskIndex \ listFlow.files
          /\ unlockedIndex \subseteq Listed /\ Listed \subseteq diskIndex
    /\ listFlow.at = "storage" =>
          /\ unlockedIndex = diskIndex /\ listFlow.files \cap diskIndex = {}
          /\ diskIndex \subseteq Listed /\ Listed \subseteq diskIndex \cup listFlow.files

FileListInv ==
    /\ FileListTypeOK /\ UserFlowShape /\ AddedOnce
    /\ unlocked /\ ~opFailed => ShownWithin

(* Once(S) lists the files of S.                                             *)
LEMMA OnceLists ==
  ASSUME NEW S \in SUBSET UFiles
  PROVE  /\ Once(S) \in [UFiles -> 0..2]
         /\ \A f \in UFiles : Once(S)[f] <= 1
         /\ {f \in UFiles : Once(S)[f] > 0} = S
BY DEF Once

(* At the start the vault is locked and no flow waits.                       *)
LEMMA FileListStarts ==
  ASSUME FileListInit
  PROVE  FileListInv
<1>1. /\ NoUserFlow.at = "none" /\ NoUserFlow.op = "none"
      /\ NoUserFlow \in [op : {"none", "unlock", "unlockToRemove", "add", "remove"},
                         at : {"none", "derive", "read", "record", "commit", "storage"},
                         files : SUBSET UFiles]
  BY DEF NoUserFlow
<1>2. FileListTypeOK
  BY <1>1, OnceLists DEF FileListInit, FileListTypeOK
<1> QED BY <1>1, <1>2 DEF FileListInit, FileListInv, UserFlowShape, AddedOnce

(* The poll, the prompt and the plug: only the screen changes, or nothing.   *)
LEMMA FileListPolls ==
  ASSUME FileListInv, RestoreFiles \/ PromptUnlock \/ PlugOrPull
  PROVE  FileListInv'
<1>1. FileListTypeOK /\ UserFlowShape /\ AddedOnce
  BY DEF FileListInv
<1>2. CASE PlugOrPull
  BY <1>1, <1>2 DEF FileListInv, FileListTypeOK, UserFlowShape, AddedOnce, ShownWithin, Listed, PlugOrPull
<1>3. ASSUME NEW S \in SUBSET UFiles, shown' = Once(S), S = unlockedIndex \/ ~unlocked,
             UNCHANGED <<present, diskIndex, unlocked, unlockedIndex, cached, listFlow, opFailed>>
      PROVE  FileListInv'
  <2>1. shown' \in [UFiles -> 0..2] /\ (\A f \in UFiles : shown'[f] <= 1) /\ Listed' = S
    BY <1>3, OnceLists DEF Listed
  <2>2. FileListTypeOK'
    BY <1>1, <1>3, <2>1 DEF FileListTypeOK
  <2>3. UserFlowShape'
    BY <1>1, <1>3 DEF UserFlowShape
  <2>4. AddedOnce'
    BY <1>1, <1>3, <2>1 DEF AddedOnce, FileListTypeOK
  <2>5. ASSUME unlocked', ~opFailed' PROVE ShownWithin'
    <3>1. ShownWithin /\ S = unlockedIndex
      BY <1>3, <2>5 DEF FileListInv
    <3> QED BY <1>3, <2>1, <3>1 DEF ShownWithin
  <2> QED BY <2>2, <2>3, <2>4, <2>5 DEF FileListInv
<1>4. CASE RestoreFiles
  <2>1. unlockedIndex \in SUBSET UFiles /\ cached \in SUBSET UFiles
    BY <1>1 DEF FileListTypeOK
  <2> QED BY <1>3, <1>4, <2>1 DEF RestoreFiles
<1>5. CASE PromptUnlock
  <2>1. cached \in SUBSET UFiles
    BY <1>1 DEF FileListTypeOK
  <2> QED BY <1>3, <1>5, <2>1 DEF PromptUnlock
<1> QED BY <1>2, <1>4, <1>5

(* Unlocking, and a reload, leave the list equal to the index on the drive.  *)
LEMMA FileListUnlocks ==
  ASSUME FileListInv,
         \/ UnlockFails \/ UnlockOpens \/ UnlockSyncs \/ ReloadPage
         \/ \E op \in {"unlock", "unlockToRemove"} : handleVaultUnlock(op)
  PROVE  FileListInv'
<1>1. FileListTypeOK /\ UserFlowShape /\ AddedOnce
  BY DEF FileListInv
<1>2. /\ NoUserFlow.at = "none" /\ NoUserFlow.op = "none"
      /\ NoUserFlow \in [op : {"none", "unlock", "unlockToRemove", "add", "remove"},
                         at : {"none", "derive", "read", "record", "commit", "storage"},
                         files : SUBSET UFiles]
  BY DEF NoUserFlow
<1>3. CASE UnlockFails
  <2>1. FileListTypeOK'
    BY <1>1, <1>2, <1>3 DEF FileListTypeOK, UnlockFails, FlowEnds
  <2>2. UserFlowShape' /\ AddedOnce'
    BY <1>2, <1>3 DEF UserFlowShape, AddedOnce, UnlockFails, FlowEnds
  <2>3. unlocked' /\ ~opFailed' => ShownWithin'
    BY <1>2, <1>3 DEF FileListInv, ShownWithin, UnlockFails, FlowEnds, Listed
  <2> QED BY <2>1, <2>2, <2>3 DEF FileListInv
<1>4. CASE UnlockOpens
  <2>1. /\ listFlow'.at = "read" /\ listFlow'.files = diskIndex /\ listFlow'.op = listFlow.op
        /\ listFlow' \in [op : {"none", "unlock", "unlockToRemove", "add", "remove"},
                         at : {"none", "derive", "read", "record", "commit", "storage"},
                         files : SUBSET UFiles]
    BY <1>1, <1>4 DEF FileListTypeOK, UnlockOpens
  <2>2. FileListTypeOK'
    BY <1>1, <1>4, <2>1 DEF FileListTypeOK, UnlockOpens
  <2>3. UserFlowShape' /\ AddedOnce'
    BY <1>1, <1>2, <1>4, <2>1 DEF UserFlowShape, AddedOnce, UnlockOpens
  <2>4. ShownWithin'
    BY <1>4, <2>1 DEF ShownWithin, UnlockOpens
  <2> QED BY <2>2, <2>3, <2>4 DEF FileListInv
<1>5. CASE UnlockSyncs
  <2>1. listFlow.files \in SUBSET UFiles
    BY <1>1 DEF FileListTypeOK
  <2>2. shown' \in [UFiles -> 0..2] /\ Listed' = listFlow.files
    BY <1>5, <2>1, OnceLists DEF UnlockSyncs, Listed
  <2>3. FileListTypeOK'
    BY <1>1, <1>2, <1>5, <2>1, <2>2 DEF FileListTypeOK, UnlockSyncs, FlowEnds
  <2>4. UserFlowShape' /\ AddedOnce'
    BY <1>2, <1>5 DEF UserFlowShape, AddedOnce, UnlockSyncs, FlowEnds
  <2>5. unlocked' /\ ~opFailed' => ShownWithin'
    BY <1>2, <1>5, <2>2 DEF FileListInv, ShownWithin, UnlockSyncs, FlowEnds
  <2> QED BY <2>3, <2>4, <2>5 DEF FileListInv
<1>6. CASE ReloadPage
  <2>1. FileListTypeOK'
    BY <1>1, <1>2, <1>6, OnceLists DEF FileListTypeOK, ReloadPage, FlowEnds
  <2>2. UserFlowShape' /\ AddedOnce'
    BY <1>2, <1>6 DEF UserFlowShape, AddedOnce, ReloadPage, FlowEnds
  <2> QED BY <1>6, <2>1, <2>2 DEF FileListInv, ReloadPage
<1>7. ASSUME NEW op \in {"unlock", "unlockToRemove"}, handleVaultUnlock(op) PROVE FileListInv'
  <2>1. listFlow'.at = "derive" /\ listFlow'.files = {} /\ listFlow'.op = op
    BY <1>7 DEF handleVaultUnlock
  <2>2. FileListTypeOK'
    BY <1>1, <1>7 DEF FileListTypeOK, handleVaultUnlock
  <2>3. UserFlowShape' /\ AddedOnce'
    BY <1>2, <2>1 DEF UserFlowShape, AddedOnce
  <2>4. unlocked' /\ ~opFailed' => ShownWithin'
    BY <1>2, <1>7, <2>1 DEF FileListInv, ShownWithin, handleVaultUnlock, Resting, Listed
  <2> QED BY <2>2, <2>3, <2>4 DEF FileListInv
<1> QED BY <1>3, <1>4, <1>5, <1>6, <1>7

(* An addition differs from the drive by its own file until it is committed. *)
LEMMA FileListAdds ==
  ASSUME FileListInv,
         (\E f \in UFiles : handleEncryptAndStore(f)) \/ RecordAppended \/ AddCommitted
  PROVE  FileListInv'
<1>1. FileListTypeOK /\ UserFlowShape /\ AddedOnce
  BY DEF FileListInv
<1>2. NoUserFlow.at = "none" /\ NoUserFlow.op = "none" /\ NoUserFlow.files = {}
  BY DEF NoUserFlow
<1>3. ASSUME NEW f \in UFiles, handleEncryptAndStore(f) PROVE FileListInv'
  <2>1. listFlow'.at = "record" /\ listFlow'.files = {f} /\ listFlow'.op = "add"
    BY <1>3 DEF handleEncryptAndStore
  <2>2. FileListTypeOK'
    BY <1>1, <1>3 DEF FileListTypeOK, handleEncryptAndStore
  <2>3. shown' = shown /\ shown[f] <= 1
    BY <1>1, <1>3 DEF FileListTypeOK, handleEncryptAndStore, Listed
  <2>4. UserFlowShape' /\ AddedOnce'
    BY <1>2, <2>1, <2>3 DEF UserFlowShape, AddedOnce
  <2>5. unlocked' /\ ~opFailed' => ShownWithin'
    BY <1>2, <1>3, <2>1 DEF FileListInv, ShownWithin, handleEncryptAndStore, Resting, Listed
  <2> QED BY <2>2, <2>4, <2>5 DEF FileListInv
<1>4. CASE RecordAppended
  <2>1. /\ listFlow'.at = "commit" /\ listFlow'.files = listFlow.files /\ listFlow'.op = "add"
        /\ listFlow' \in [op : {"none", "unlock", "unlockToRemove", "add", "remove"},
                         at : {"none", "derive", "read", "record", "commit", "storage"},
                         files : SUBSET UFiles]
    BY <1>1, <1>4 DEF FileListTypeOK, UserFlowShape, RecordAppended
  <2>2. FileListTypeOK'
    BY <1>1, <1>4, <2>1 DEF FileListTypeOK, RecordAppended
  <2>3. UserFlowShape' /\ AddedOnce'
    BY <1>1, <1>2, <1>4, <2>1 DEF UserFlowShape, AddedOnce, RecordAppended
  <2>4. unlocked' /\ ~opFailed' => ShownWithin'
    BY <1>4, <2>1 DEF FileListInv, ShownWithin, RecordAppended, Listed
  <2> QED BY <2>2, <2>3, <2>4 DEF FileListInv
<1>5. CASE AddCommitted
  <2>1. /\ shown \in [UFiles -> 0..2] /\ listFlow.files \subseteq UFiles
        /\ \A f \in listFlow.files : shown[f] <= 1
    BY <1>1, <1>5 DEF FileListTypeOK, AddedOnce, AddCommitted
  <2>2. shown' \in [UFiles -> 0..2] /\ Listed' = Listed \cup listFlow.files
    BY <1>5, <2>1 DEF AddCommitted, Listed
  <2>3. NoUserFlow \in [op : {"none", "unlock", "unlockToRemove", "add", "remove"},
                        at : {"none", "derive", "read", "record", "commit", "storage"},
                        files : SUBSET UFiles]
    BY DEF NoUserFlow
  <2>4. cached' \subseteq UFiles
    BY <1>5, <2>1 DEF AddCommitted, Listed
  <2>5. FileListTypeOK'
    BY <1>1, <1>5, <2>2, <2>3, <2>4 DEF FileListTypeOK, AddCommitted, FlowEnds
  <2>6. UserFlowShape' /\ AddedOnce'
    BY <1>2, <1>5 DEF UserFlowShape, AddedOnce, AddCommitted, FlowEnds
  <2>7. unlocked' /\ ~opFailed' => ShownWithin'
    BY <1>2, <1>5, <2>2 DEF FileListInv, ShownWithin, AddCommitted, FlowEnds
  <2> QED BY <2>5, <2>6, <2>7 DEF FileListInv
<1> QED BY <1>3, <1>4, <1>5

(* A removal differs from the drive by its own file until it is committed.   *)
LEMMA FileListRemoves ==
  ASSUME FileListInv,
         \/ \E f \in UFiles : handleConfirmDelete(f)
         \/ RemoveCommitted \/ StoreDeletes \/ OperationFails
  PROVE  FileListInv'
<1>1. FileListTypeOK /\ UserFlowShape /\ AddedOnce
  BY DEF FileListInv
<1>2. /\ NoUserFlow.at = "none" /\ NoUserFlow.op = "none"
      /\ NoUserFlow \in [op : {"none", "unlock", "unlockToRemove", "add", "remove"},
                         at : {"none", "derive", "read", "record", "commit", "storage"},
                         files : SUBSET UFiles]
  BY DEF NoUserFlow
<1>3. ASSUME NEW f \in UFiles, handleConfirmDelete(f) PROVE FileListInv'
  <2>1. listFlow'.at = "commit" /\ listFlow'.files = {f} /\ listFlow'.op = "remove"
    BY <1>3 DEF handleConfirmDelete
  <2>2. FileListTypeOK'
    BY <1>1, <1>3 DEF FileListTypeOK, handleConfirmDelete
  <2>3. UserFlowShape' /\ AddedOnce'
    BY <1>2, <2>1 DEF UserFlowShape, AddedOnce
  <2>4. unlocked' /\ ~opFailed' => ShownWithin'
    BY <1>2, <1>3, <2>1 DEF FileListInv, ShownWithin, handleConfirmDelete, Resting, Listed
  <2> QED BY <2>2, <2>3, <2>4 DEF FileListInv
<1>4. CASE RemoveCommitted
  <2>1. /\ listFlow'.at = "storage" /\ listFlow'.files = listFlow.files /\ listFlow'.op = "remove"
        /\ listFlow' \in [op : {"none", "unlock", "unlockToRemove", "add", "remove"},
                         at : {"none", "derive", "read", "record", "commit", "storage"},
                         files : SUBSET UFiles]
    BY <1>1, <1>4 DEF FileListTypeOK, RemoveCommitted
  <2>2. FileListTypeOK'
    BY <1>1, <1>4, <2>1 DEF FileListTypeOK, RemoveCommitted
  <2>3. UserFlowShape' /\ AddedOnce'
    BY <1>2, <2>1 DEF UserFlowShape, AddedOnce
  <2>4. unlocked' /\ ~opFailed' => ShownWithin'
    BY <1>4, <2>1 DEF FileListInv, ShownWithin, RemoveCommitted, Listed
  <2> QED BY <2>2, <2>3, <2>4 DEF FileListInv
<1>5. CASE StoreDeletes
  <2>1. shown' \in [UFiles -> 0..2] /\ Listed' = Listed \ listFlow.files
    BY <1>1, <1>5 DEF FileListTypeOK, StoreDeletes, Listed
  <2>2. FileListTypeOK'
    BY <1>1, <1>2, <1>5, <2>1 DEF FileListTypeOK, StoreDeletes, FlowEnds
  <2>3. UserFlowShape' /\ AddedOnce'
    BY <1>2, <1>5 DEF UserFlowShape, AddedOnce, StoreDeletes, FlowEnds
  <2>4. unlocked' /\ ~opFailed' => ShownWithin'
    BY <1>2, <1>5, <2>1 DEF FileListInv, ShownWithin, StoreDeletes, FlowEnds
  <2> QED BY <2>2, <2>3, <2>4 DEF FileListInv
<1>6. CASE OperationFails
  <2>1. FileListTypeOK'
    BY <1>1, <1>2, <1>6 DEF FileListTypeOK, OperationFails, FlowEnds
  <2>2. UserFlowShape' /\ AddedOnce'
    BY <1>2, <1>6 DEF UserFlowShape, AddedOnce, OperationFails, FlowEnds
  <2> QED BY <1>6, <2>1, <2>2 DEF FileListInv, OperationFails
<1> QED BY <1>3, <1>4, <1>5, <1>6

(* The user's flows, the poll, the plug and the reload keep the invariant.   *)
LEMMA FileListInductive ==
  ASSUME FileListInv, [FileListNext]_FileListVars
  PROVE  FileListInv'
<1>1. CASE UNCHANGED FileListVars
  BY <1>1 DEF FileListInv, FileListTypeOK, UserFlowShape, AddedOnce, ShownWithin, Listed, FileListVars
<1> QED BY <1>1, FileListPolls, FileListUnlocks, FileListAdds, FileListRemoves DEF FileListNext

(* The invariant of the file list holds throughout every behaviour.          *)
LEMMA FileListInvariant == FileListSpec => []FileListInv
<1>1. FileListInit => FileListInv
  BY FileListStarts
<1>2. FileListInv /\ [FileListNext]_FileListVars => FileListInv'
  BY FileListInductive
<1> QED BY <1>1, <1>2, PTL DEF FileListSpec

(* While a vault is unlocked, nothing is in progress and nothing failed, the *)
(* files shown are the files committed to the drive, whatever a poll of      *)
(* loadVaults copied in the middle of an addition or a removal.              *)
THEOREM ScreenShowsDrive == FileListSpec => []ShownIsCommitted
<1>1. FileListInv => ShownIsCommitted
  BY DEF FileListInv, ShownIsCommitted, ShownWithin, Resting, UserFlowShape
<1> QED BY <1>1, FileListInvariant, PTL

-----------------------------------------------------------------------------
(***************************************************************************)
(* UsbSetup.  If nobody disturbs a drive while a screen works on it, each    *)
(* working screen has a drive of its own, the path it goes by is where that  *)
(* drive is mounted, and what is on the drive is what its steps have made so *)
(* far.  The path belongs to one drive because mount points are distinct,    *)
(* which the type invariant says.                                            *)
(***************************************************************************)
SetupAts == {"idle", "partition", "wait", "fallback", "validate", "tools",
             "bin", "header", "index", "commit", "unmount", "done"}
SetupStates == [at : SetupAts, drive : Drives, path : Paths \cup {NoPath}]
SecureStates == [is : DriveContents, by : Setups \cup {Before}]

MountsOK ==
    \A d \in Drives : mountOf[d] # NoPath =>
        /\ d \in plugged /\ secure[d].is # "none"
        /\ \A e \in Drives \ {d} : mountOf[e] # mountOf[d]

Made(s, is) == secure[Target(s)] = [is |-> is, by |-> s]

SetupHolds(s) ==
    /\ setup[s].at # "idle" => Target(s) \in plugged
    /\ setup[s].at \in {"wait", "fallback", "validate", "tools", "bin"} => Made(s, "empty")
    /\ setup[s].at = "header" => Made(s, "placeholder")
    /\ setup[s].at = "index" => Made(s, "keyed")
    /\ setup[s].at = "commit" => Made(s, "indexed")
    /\ setup[s].at \in {"unmount", "done"} => Made(s, "vault")
    /\ setup[s].at \in {"validate", "tools", "bin", "header", "index", "commit"} =>
          setup[s].path # NoPath /\ mountOf[Target(s)] = setup[s].path

Alone ==
    \A s, t \in Setups : s # t /\ setup[s].at # "idle" /\ setup[t].at # "idle" => Target(s) # Target(t)

UsbInv == UsbTypeOK /\ Alone /\ \A s \in Setups : SetupHolds(s)

(* The type invariant of the setup in terms of the sets above.               *)
LEMMA UsbTypesParts ==
  UsbTypeOK <=> /\ platform \in {"darwin", "linux", "win32"} /\ plugged \subseteq Drives
                /\ secure \in [Drives -> SecureStates] /\ mountOf \in [Drives -> Paths \cup {NoPath}]
                /\ MountsOK /\ setup \in [Setups -> SetupStates]
BY DEF UsbTypeOK, SecureStates, MountsOK, SetupStates, SetupAts

(* The three ways in which a screen goes on.                                 *)
LEMMA ScreenGoes ==
  ASSUME UsbTypeOK, NEW s \in Setups
  PROVE  /\ Target(s) \in Drives /\ setup[s] \in SetupStates
         /\ \A at \in SetupAts : SetupGoes(s, at) =>
               setup' = [setup EXCEPT ![s] = [at |-> at, drive |-> Target(s), path |-> setup[s].path]]
         /\ \A p \in Paths : Found(s, p) =>
               setup' = [setup EXCEPT ![s] = [at |-> "validate", drive |-> Target(s), path |-> p]]
<1>1. setup \in [Setups -> SetupStates] /\ setup[s] \in SetupStates
  BY UsbTypesParts
<1>2. Target(s) \in Drives
  BY <1>1 DEF Target, SetupStates
<1>3. ASSUME NEW at \in SetupAts, SetupGoes(s, at)
      PROVE  setup' = [setup EXCEPT ![s] = [at |-> at, drive |-> Target(s), path |-> setup[s].path]]
  <2>1. setup' = [setup EXCEPT ![s] = [setup[s] EXCEPT !.at = at]]
    BY <1>3 DEF SetupGoes
  <2>2. [setup[s] EXCEPT !.at = at] = [at |-> at, drive |-> setup[s].drive, path |-> setup[s].path]
    BY <1>1 DEF SetupStates
  <2> QED BY <2>1, <2>2 DEF Target
<1>4. ASSUME NEW p \in Paths, Found(s, p)
      PROVE  setup' = [setup EXCEPT ![s] = [at |-> "validate", drive |-> Target(s), path |-> p]]
  <2>1. setup' = [setup EXCEPT ![s] = [[setup[s] EXCEPT !.at = "validate"] EXCEPT !.path = p]]
    BY <1>1, <1>4 DEF Found
  <2>2. [[setup[s] EXCEPT !.at = "validate"] EXCEPT !.path = p]
           = [at |-> "validate", drive |-> setup[s].drive, path |-> p]
    <3>1. [setup[s] EXCEPT !.at = "validate"]
             \in [at : {"validate"}, drive : {setup[s].drive}, path : {setup[s].path}]
      BY <1>1 DEF SetupStates
    <3>2. \A r, dr, pa : r \in [at : {"validate"}, drive : {dr}, path : {pa}] =>
             [r EXCEPT !.path = p] = [at |-> "validate", drive |-> dr, path |-> p]
      OBVIOUS
    <3> QED BY <3>1, <3>2
  <2> QED BY <2>1, <2>2 DEF Target
<1> QED BY <1>1, <1>2, <1>3, <1>4

(* A volume disappears from its path, or appears at one no other volume has. *)
LEMMA MountsChange ==
  ASSUME UsbTypeOK, NEW d \in Drives, NEW p \in Paths \cup {NoPath}, MountAt(d, p),
         p \in FreePaths \/ p = mountOf[d] \/ p = NoPath,
         plugged \ {d} \subseteq plugged',
         \A e \in Drives \ {d} : secure'[e] = secure[e],
         p # NoPath => d \in plugged' /\ secure'[d].is # "none"
  PROVE  mountOf' \in [Drives -> Paths \cup {NoPath}] /\ MountsOK'
<1>1. mountOf \in [Drives -> Paths \cup {NoPath}] /\ MountsOK
  BY UsbTypesParts
<1>2. mountOf' = [mountOf EXCEPT ![d] = p]
  BY DEF MountAt
<1>3. \A e \in Drives \ {d} : mountOf'[e] = mountOf[e] /\ (p # NoPath => mountOf[e] # p)
  BY <1>1, <1>2 DEF FreePaths, MountsOK
<1> QED BY <1>1, <1>2, <1>3 DEF MountsOK

(* A mounted path belongs to one drive.                                      *)
LEMMA OneParent ==
  ASSUME UsbTypeOK
  PROVE  /\ \A p \in MountedPaths : ParentDisk(p) \in Drives /\ mountOf[ParentDisk(p)] = p /\ p \in Paths
         /\ \A d \in Drives : mountOf[d] # NoPath =>
               mountOf[d] \in MountedPaths /\ ParentDisk(mountOf[d]) = d
<1>1. mountOf \in [Drives -> Paths \cup {NoPath}] /\ MountsOK
  BY UsbTypesParts
<1>2. ASSUME NEW p \in MountedPaths
      PROVE  ParentDisk(p) \in Drives /\ mountOf[ParentDisk(p)] = p /\ p \in Paths
  <2>1. \E d \in Drives : mountOf[d] = p
    BY DEF MountedPaths
  <2>2. ParentDisk(p) \in Drives /\ mountOf[ParentDisk(p)] = p
    BY <2>1 DEF ParentDisk
  <2> QED BY <1>1, <2>2 DEF MountedPaths
<1>3. ASSUME NEW d \in Drives, mountOf[d] # NoPath
      PROVE  mountOf[d] \in MountedPaths /\ ParentDisk(mountOf[d]) = d
  <2>1. mountOf[d] \in MountedPaths
    BY <1>3 DEF MountedPaths
  <2> QED BY <1>1, <1>2, <1>3, <2>1 DEF MountsOK
<1> QED BY <1>2, <1>3

(* The types hold at the start, with every screen idle.                      *)
LEMMA UsbTypesStart ==
  ASSUME UsbInit
  PROVE  UsbTypeOK
<1>1. (CHOOSE d \in Drives : TRUE) \in Drives
  BY UsbSetupAssumption
<1>2. IdleSetup(CHOOSE d \in Drives : TRUE) \in SetupStates
  BY <1>1 DEF IdleSetup, SetupStates, SetupAts
<1>3. secure \in [Drives -> SecureStates]
  BY DEF UsbInit, NoSecure, SecureStates, DriveContents
<1> QED BY <1>2, <1>3, UsbTypesParts DEF UsbInit, MountsOK

(* The types hold whether or not drives are disturbed.                       *)
LEMMA UsbTypesOfDrives ==
  ASSUME UsbTypeOK, NEW d \in Drives,
         Plug(d) \/ mountSecure(d) \/ ejectDrive(d) \/ unmountSecure(d) \/ resetDrive(d)
  PROVE  UsbTypeOK'
<1>1. /\ platform \in {"darwin", "linux", "win32"} /\ plugged \subseteq Drives
      /\ secure \in [Drives -> SecureStates] /\ mountOf \in [Drives -> Paths \cup {NoPath}]
      /\ MountsOK /\ setup \in [Setups -> SetupStates]
  BY UsbTypesParts
<1>2. CASE Plug(d)
  <2>1. MountsOK'
    BY <1>1, <1>2 DEF MountsOK, Plug
  <2> QED BY <1>1, <1>2, <2>1, UsbTypesParts DEF Plug, UsbTypeOK, MountsOK, SecureStates, SetupStates, SetupAts
<1>3. CASE mountSecure(d)
  <2>1. PICK p \in FreePaths : MountAt(d, p)
    BY <1>3 DEF mountSecure
  <2>2. p \in Paths
    BY <2>1 DEF FreePaths
  <2>3. mountOf' \in [Drives -> Paths \cup {NoPath}] /\ MountsOK'
    BY <1>3, <2>1, <2>2, MountsChange DEF mountSecure
  <2> QED BY <1>1, <1>3, <2>3 DEF mountSecure, UsbTypeOK, MountsOK, SecureStates, SetupStates, SetupAts
<1>4. CASE ejectDrive(d) \/ unmountSecure(d) \/ resetDrive(d)
  <2>1. /\ MountAt(d, NoPath) /\ plugged \ {d} \subseteq plugged' /\ plugged' \subseteq plugged
        /\ \A e \in Drives \ {d} : secure'[e] = secure[e]
        /\ UNCHANGED <<platform, setup>>
    BY <1>1, <1>4 DEF ejectDrive, unmountSecure, resetDrive
  <2>2. mountOf' \in [Drives -> Paths \cup {NoPath}] /\ MountsOK'
    BY <2>1, MountsChange
  <2>3. NoSecure \in SecureStates
    BY DEF NoSecure, SecureStates, DriveContents
  <2>4. secure' \in [Drives -> SecureStates]
    BY <1>1, <1>4, <2>3 DEF ejectDrive, unmountSecure, resetDrive
  <2> QED BY <1>1, <2>1, <2>2, <2>4 DEF UsbTypeOK, MountsOK, SecureStates, SetupStates, SetupAts
<1> QED BY <1>2, <1>3, <1>4

(* The steps of a screen that only look.                                     *)
LooksAt(s) ==
    \/ \E d \in Drives : provisionVault(s, d)
    \/ SetupFails(s) \/ AwaitMount(s) \/ FallbackMount(s) \/ validatePartitionLayout(s)
    \/ writeToolsContent(s) \/ ResetForm(s)

(* The steps that write into VAULT.bin, at the path.                         *)
WritesBin(s) ==
    writeVaultBin(s) \/ provisionHeader(s) \/ provisionIndex(s) \/ provisionCommit(s)

(* The steps that replace the volumes of the drive or move its mount point.  *)
MovesVolumes(s) ==
    \/ partitionMacOS(s) \/ partitionLinux(s) \/ partitionWindows(s) \/ PartitioningBreaks(s)
    \/ UdisksMount(s) \/ FinishSetup(s)

(* The steps that only look at drives change nothing but their screen.       *)
LEMMA LooksGo ==
  ASSUME UsbTypeOK, NEW s \in Setups, LooksAt(s)
  PROVE  /\ UNCHANGED <<platform, plugged, secure, mountOf>>
         /\ \E r \in SetupStates : setup' = [setup EXCEPT ![s] = r]
<1>1. setup[s] \in SetupStates /\ Target(s) \in Drives
  BY ScreenGoes
<1>2. \A at \in SetupAts : [at |-> at, drive |-> Target(s), path |-> setup[s].path] \in SetupStates
  BY <1>1 DEF SetupStates
<1>3. \A p \in Paths : [at |-> "validate", drive |-> Target(s), path |-> p] \in SetupStates
  BY <1>1 DEF SetupStates, SetupAts
<1>4. CASE \E d \in Drives : provisionVault(s, d)
  <2>1. PICK d \in Drives : provisionVault(s, d)
    BY <1>4
  <2>2. [IdleSetup(d) EXCEPT !.at = "partition"] \in SetupStates
    BY DEF IdleSetup, SetupStates, SetupAts
  <2> QED BY <2>1, <2>2 DEF provisionVault
<1>5. CASE SetupFails(s) \/ ResetForm(s)
  <2>1. IdleSetup(Target(s)) \in SetupStates
    BY <1>1 DEF IdleSetup, SetupStates, SetupAts
  <2> QED BY <1>5, <2>1 DEF SetupFails, ResetForm
<1>6. CASE validatePartitionLayout(s) \/ writeToolsContent(s)
  <2>1. \E at \in SetupAts : SetupGoes(s, at)
    BY <1>6 DEF validatePartitionLayout, writeToolsContent, SetupAts
  <2> QED BY <1>2, <1>6, <2>1, ScreenGoes DEF validatePartitionLayout, writeToolsContent
<1>7. CASE AwaitMount(s)
  <2>1. mountOf[Target(s)] \in Paths \cup {NoPath}
    BY <1>1, UsbTypesParts
  <2>2. "fallback" \in SetupAts
    BY DEF SetupAts
  <2> QED BY <1>2, <1>3, <1>7, <2>1, <2>2, ScreenGoes DEF AwaitMount
<1>8. CASE FallbackMount(s)
  <2>1. PICK p \in findVolumeForDisk(Target(s)) : Found(s, p)
    BY <1>8 DEF FallbackMount
  <2>2. p \in Paths
    BY <2>1, OneParent DEF findVolumeForDisk
  <2> QED BY <1>3, <1>8, <2>1, <2>2, ScreenGoes DEF FallbackMount
<1> QED BY <1>4, <1>5, <1>6, <1>7, <1>8 DEF LooksAt

(* What a step that writes does: where, and what.                            *)
LEMMA WritesGo ==
  ASSUME UsbTypeOK, NEW s \in Setups, WritesBin(s)
  PROVE  /\ UNCHANGED <<platform, plugged, mountOf>>
         /\ setup[s].path \in MountedPaths
         /\ \E at \in SetupAts : setup' = [setup EXCEPT ![s] =
                                    [at |-> at, drive |-> Target(s), path |-> setup[s].path]]
         /\ \E v \in SecureStates : v.is # "none" /\ secure' = [secure EXCEPT ![ParentDisk(setup[s].path)] = v]
<1> DEFINE p == setup[s].path
           d == ParentDisk(p)
<1>1. p \in MountedPaths /\ UNCHANGED <<platform, plugged, mountOf>>
  BY DEF WritesBin, writeVaultBin, provisionHeader, provisionIndex, provisionCommit, HasVaultBin
<1>2. d \in Drives
  BY <1>1, OneParent
<1>3. secure \in [Drives -> SecureStates] /\ secure[d] \in SecureStates
  BY <1>2, UsbTypesParts
<1>4. \E at \in {"header", "index", "commit", "unmount"} : SetupGoes(s, at)
  BY DEF WritesBin, writeVaultBin, provisionHeader, provisionIndex, provisionCommit
<1>5. \E at \in SetupAts : setup' = [setup EXCEPT ![s] =
                                    [at |-> at, drive |-> Target(s), path |-> setup[s].path]]
  BY <1>4, ScreenGoes DEF SetupAts
<1> HIDE DEF d, p
<1>6. \A is \in DriveContents : [is |-> is, by |-> s] \in SecureStates
  BY DEF SecureStates
<1>7. {"placeholder", "keyed", "vault", "indexed"} \subseteq DriveContents
  BY DEF DriveContents
<1>8. CASE writeVaultBin(s)
  <2>1. secure' = [secure EXCEPT ![d] = [is |-> "placeholder", by |-> s]]
    BY <1>8 DEF writeVaultBin, d, p
  <2> QED BY <1>1, <1>5, <1>6, <1>7, <2>1 DEF d, p
<1>9. CASE provisionHeader(s)
  <2>1. secure' = [secure EXCEPT ![d] = [is |-> "keyed", by |-> s]]
    BY <1>9 DEF provisionHeader, d, p
  <2> QED BY <1>1, <1>5, <1>6, <1>7, <2>1 DEF d, p
<1>10. CASE provisionIndex(s)
  <2>1. secure[d].is # "none"
    BY <1>10 DEF provisionIndex, HasVaultBin, d, p
  <2>2. CASE secure[d].is = "keyed"
    <3>1. secure' = [secure EXCEPT ![d] = [secure[d] EXCEPT !.is = "indexed"]]
      BY <1>10, <2>2 DEF provisionIndex, d, p
    <3>2. [secure[d] EXCEPT !.is = "indexed"] \in SecureStates /\ [secure[d] EXCEPT !.is = "indexed"].is # "none"
      BY <1>3, <1>7 DEF SecureStates
    <3> QED BY <1>1, <1>5, <3>1, <3>2 DEF d, p
  <2>3. CASE secure[d].is # "keyed"
    <3>1. secure' = secure
      BY <1>10, <2>3 DEF provisionIndex, d, p
    <3>2. secure' = [secure EXCEPT ![d] = secure[d]]
      BY <1>2, <1>3, <3>1
    <3> QED BY <1>1, <1>3, <1>5, <2>1, <3>2 DEF d, p
  <2> QED BY <2>2, <2>3
<1>11. CASE provisionCommit(s)
  <2>1. secure' = [secure EXCEPT ![d] =
                      [is |-> IF secure[d].is \in {"indexed", "vault"} THEN "vault" ELSE "keyed", by |-> s]]
    BY <1>2, <1>3, <1>11 DEF provisionCommit, d, p
  <2> QED BY <1>1, <1>5, <1>6, <1>7, <2>1 DEF d, p
<1> QED BY <1>8, <1>9, <1>10, <1>11 DEF WritesBin

(* What the other steps do: they concern the drive of the screen alone.      *)
LEMMA MovesGo ==
  ASSUME UsbTypeOK, NEW s \in Setups, MovesVolumes(s)
  PROVE  /\ UNCHANGED <<platform, plugged>> /\ setup[s].at # "idle" /\ Target(s) \in plugged
         /\ \E r \in SetupStates : setup' = [setup EXCEPT ![s] = r] /\ r.drive = Target(s)
         /\ \A e \in Drives \ {Target(s)} : secure'[e] = secure[e] /\ mountOf'[e] = mountOf[e]
         /\ secure' \in [Drives -> SecureStates]
         /\ mountOf' \in [Drives -> Paths \cup {NoPath}] /\ MountsOK'
<1> DEFINE d == Target(s)
<1>1. /\ plugged \subseteq Drives /\ secure \in [Drives -> SecureStates]
      /\ mountOf \in [Drives -> Paths \cup {NoPath}] /\ MountsOK
  BY UsbTypesParts
<1>2. setup[s] \in SetupStates /\ d \in Drives
  BY ScreenGoes
<1>3. \A at \in SetupAts : [at |-> at, drive |-> d, path |-> setup[s].path] \in SetupStates
  BY <1>2 DEF SetupStates
<1>4. \A p \in Paths : [at |-> "validate", drive |-> d, path |-> p] \in SetupStates
  BY <1>2 DEF SetupStates, SetupAts
<1>5. {"wait", "done", "validate"} \subseteq SetupAts
  BY DEF SetupAts
<1>6. [is |-> "empty", by |-> s] \in SecureStates /\ NoSecure \in SecureStates
  BY DEF SecureStates, NoSecure, DriveContents
<1>7. /\ UNCHANGED <<platform, plugged>> /\ setup[s].at # "idle" /\ d \in plugged
  BY DEF MovesVolumes, partitionMacOS, partitionLinux, partitionWindows, PartitioningBreaks,
         UdisksMount, FinishSetup, NewVolumes, SetupAt
<1>8. \E r \in SetupStates : setup' = [setup EXCEPT ![s] = r] /\ r.drive = d
  <2>1. CASE \E at \in SetupAts : SetupGoes(s, at)
    <3>1. PICK at \in SetupAts : SetupGoes(s, at)
      BY <2>1
    <3>2. setup' = [setup EXCEPT ![s] = [at |-> at, drive |-> d, path |-> setup[s].path]]
      BY <3>1, ScreenGoes
    <3> QED BY <1>3, <3>2
  <2>2. CASE \E p \in Paths : Found(s, p)
    <3>1. PICK p \in Paths : Found(s, p)
      BY <2>2
    <3>2. setup' = [setup EXCEPT ![s] = [at |-> "validate", drive |-> d, path |-> p]]
      BY <3>1, ScreenGoes
    <3> QED BY <1>4, <3>2
  <2>3. CASE PartitioningBreaks(s)
    <3>1. IdleSetup(d) \in SetupStates /\ IdleSetup(d).drive = d
      BY <1>2 DEF IdleSetup, SetupStates, SetupAts
    <3> QED BY <2>3, <3>1 DEF PartitioningBreaks
  <2>4. CASE partitionMacOS(s) \/ partitionLinux(s) \/ FinishSetup(s)
    BY <1>5, <2>1, <2>4 DEF partitionMacOS, partitionLinux, FinishSetup
  <2>5. FreePaths \subseteq Paths /\ mountOf[d] \in Paths \cup {NoPath}
    BY <1>1, <1>2 DEF FreePaths
  <2>6. CASE partitionWindows(s) \/ UdisksMount(s)
    BY <2>2, <2>5, <2>6 DEF partitionWindows, UdisksMount
  <2> QED BY <2>3, <2>4, <2>6 DEF MovesVolumes
<1>9. /\ secure' \in [Drives -> SecureStates]
      /\ \A e \in Drives \ {d} : secure'[e] = secure[e]
  <2>1. CASE NewVolumes(s)
    BY <1>1, <1>6, <2>1 DEF NewVolumes
  <2>2. CASE PartitioningBreaks(s)
    BY <1>1, <1>6, <2>2 DEF PartitioningBreaks
  <2>3. CASE UNCHANGED secure
    BY <1>1, <2>3
  <2> QED BY <2>1, <2>2, <2>3 DEF MovesVolumes, partitionMacOS, partitionLinux, partitionWindows,
                                  UdisksMount, FinishSetup
<1>10. CASE UNCHANGED mountOf /\ FinishSetup(s)
  <2>1. MountsOK'
    BY <1>1, <1>10 DEF MountsOK, FinishSetup
  <2> QED BY <1>1, <1>7, <1>8, <1>9, <1>10, <2>1
<1>11. ASSUME NEW p \in Paths \cup {NoPath}, MountAt(d, p),
              p \in FreePaths \/ p = mountOf[d] \/ p = NoPath,
              p # NoPath => secure'[d].is # "none"
       PROVE  /\ mountOf' \in [Drives -> Paths \cup {NoPath}] /\ MountsOK'
              /\ \A e \in Drives \ {d} : mountOf'[e] = mountOf[e]
  <2>1. mountOf' \in [Drives -> Paths \cup {NoPath}] /\ MountsOK'
    BY <1>2, <1>7, <1>9, <1>11, MountsChange
  <2>2. \A e \in Drives \ {d} : mountOf'[e] = mountOf[e]
    BY <1>1, <1>11 DEF MountAt
  <2> QED BY <2>1, <2>2
<1>12. \/ UNCHANGED mountOf /\ FinishSetup(s)
       \/ \E p \in Paths \cup {NoPath} :
             /\ MountAt(d, p) /\ (p \in FreePaths \/ p = mountOf[d] \/ p = NoPath)
             /\ p # NoPath => secure'[d].is # "none"
  <2>1. FreePaths \subseteq Paths /\ mountOf[d] \in Paths \cup {NoPath}
    BY <1>1, <1>2 DEF FreePaths
  <2>2. CASE MountAt(d, NoPath)
    BY <2>2
  <2>3. CASE partitionWindows(s)
    <3>1. PICK p \in FreePaths \cup ({mountOf[d]} \ {NoPath}) : MountAt(d, p)
      BY <2>3 DEF partitionWindows
    <3>2. secure'[d].is # "none"
      BY <1>1, <1>2, <2>3 DEF partitionWindows, NewVolumes
    <3> QED BY <2>1, <3>1, <3>2
  <2>4. CASE UdisksMount(s)
    <3>1. PICK p \in IF mountOf[d] # NoPath THEN {mountOf[d]} ELSE FreePaths : MountAt(d, p)
      BY <2>4 DEF UdisksMount
    <3>2. secure'[d].is # "none"
      BY <2>4 DEF UdisksMount
    <3> QED BY <2>1, <3>1, <3>2
  <2> QED BY <2>2, <2>3, <2>4 DEF MovesVolumes, partitionMacOS, partitionLinux, PartitioningBreaks,
                                  FinishSetup
<1> QED BY <1>7, <1>8, <1>9, <1>10, <1>11, <1>12

(* Drives that come and go, and the steps of every screen, keep the types.   *)
LEMMA UsbTypesKept ==
  ASSUME UsbTypeOK, [UsbNext]_UsbVars
  PROVE  UsbTypeOK'
<1>1. /\ platform \in {"darwin", "linux", "win32"} /\ plugged \subseteq Drives
      /\ secure \in [Drives -> SecureStates] /\ mountOf \in [Drives -> Paths \cup {NoPath}]
      /\ MountsOK /\ setup \in [Setups -> SetupStates]
  BY UsbTypesParts
<1>2. ASSUME /\ platform' = platform /\ plugged' = plugged
             /\ secure' \in [Drives -> SecureStates] /\ mountOf' \in [Drives -> Paths \cup {NoPath}]
             /\ MountsOK' /\ setup' \in [Setups -> SetupStates]
      PROVE  UsbTypeOK'
  BY <1>1, <1>2 DEF UsbTypeOK, MountsOK, SecureStates, SetupStates, SetupAts
<1>3. ASSUME NEW s \in Setups, LooksAt(s) PROVE UsbTypeOK'
  <2>1. UNCHANGED <<platform, plugged, secure, mountOf>> /\ setup' \in [Setups -> SetupStates]
    BY <1>1, <1>3, LooksGo
  <2>2. MountsOK'
    BY <1>1, <2>1 DEF MountsOK
  <2> QED BY <1>1, <1>2, <2>1, <2>2
<1>4. ASSUME NEW s \in Setups, WritesBin(s) PROVE UsbTypeOK'
  <2>1. UNCHANGED <<platform, plugged, mountOf>> /\ setup[s].path \in MountedPaths
    BY <1>4, WritesGo
  <2>2. setup' \in [Setups -> SetupStates]
    <3>1. PICK at \in SetupAts : setup' = [setup EXCEPT ![s] =
                                    [at |-> at, drive |-> Target(s), path |-> setup[s].path]]
      BY <1>4, WritesGo
    <3>2. [at |-> at, drive |-> Target(s), path |-> setup[s].path] \in SetupStates
      BY <1>1 DEF SetupStates, Target
    <3> QED BY <1>1, <3>1, <3>2
  <2>3. PICK v \in SecureStates : v.is # "none" /\ secure' = [secure EXCEPT ![ParentDisk(setup[s].path)] = v]
    BY <1>4, WritesGo
  <2>4. ParentDisk(setup[s].path) \in Drives
    BY <2>1, OneParent
  <2>5. secure' \in [Drives -> SecureStates] /\ \A d \in Drives : secure[d].is # "none" => secure'[d].is # "none"
    BY <1>1, <2>3, <2>4
  <2>6. MountsOK'
    BY <1>1, <2>1, <2>5 DEF MountsOK
  <2> QED BY <1>1, <1>2, <2>1, <2>2, <2>5, <2>6
<1>5. ASSUME NEW s \in Setups, MovesVolumes(s) PROVE UsbTypeOK'
  <2>1. setup' \in [Setups -> SetupStates]
    BY <1>1, <1>5, MovesGo
  <2> QED BY <1>2, <1>5, <2>1, MovesGo
<1>6. CASE UNCHANGED UsbVars
  BY <1>6 DEF UsbVars, UsbTypeOK
<1> QED BY <1>3, <1>4, <1>5, <1>6, UsbTypesOfDrives DEF UsbNext, LooksAt, WritesBin, MovesVolumes

(* A step of one screen, on its own drive, leaves the others as they are.    *)
LEMMA ScreenSteps ==
  ASSUME UsbInv, UsbTypeOK', NEW s \in Setups, NEW r \in SetupStates, setup' = [setup EXCEPT ![s] = r],
         setup[s].at # "idle", r.drive = Target(s), plugged' = plugged,
         \A e \in Drives \ {Target(s)} : secure'[e] = secure[e] /\ mountOf'[e] = mountOf[e],
         SetupHolds(s)'
  PROVE  UsbInv'
<1>1. UsbTypeOK /\ Alone /\ \A t \in Setups : SetupHolds(t)
  BY DEF UsbInv
<1>2. setup'[s] = r /\ \A t \in Setups \ {s} : setup'[t] = setup[t]
  BY <1>1, UsbTypesParts
<1>3. \A t \in Setups : setup'[t].drive = setup[t].drive /\ setup[t].drive \in Drives
  BY <1>1, <1>2, ScreenGoes DEF Target
<1>4. Alone'
  BY <1>1, <1>2, <1>3 DEF Alone, Target
<1>5. ASSUME NEW t \in Setups \ {s} PROVE SetupHolds(t)'
  <2>1. CASE setup[t].at = "idle"
    BY <1>2, <2>1 DEF SetupHolds
  <2>2. CASE setup[t].at # "idle"
    <3>1. Target(t) \in Drives \ {Target(s)}
      BY <1>1, <1>3, <2>2 DEF Alone, Target
    <3>2. SetupHolds(t)
      BY <1>1
    <3> QED BY <1>2, <3>1, <3>2 DEF SetupHolds, Made, Target
  <2> QED BY <2>1, <2>2
<1> QED BY <1>4, <1>5 DEF UsbInv

(* Undisturbed, what the user does with drives leaves those of running       *)
(* setups alone.                                                             *)
LEMMA UsbDriveSteps ==
  ASSUME ~Disturbed, UsbInv, UsbTypeOK', NEW d \in Drives,
         Plug(d) \/ mountSecure(d) \/ ejectDrive(d) \/ unmountSecure(d) \/ resetDrive(d)
  PROVE  UsbInv'
<1>1. UsbTypeOK /\ Alone /\ \A s \in Setups : SetupHolds(s)
  BY DEF UsbInv
<1>2. setup' = setup /\ \A s \in Setups : Target(s) \in Drives
  BY <1>1, ScreenGoes DEF Plug, mountSecure, ejectDrive, unmountSecure, resetDrive
<1>3. secure \in [Drives -> SecureStates] /\ mountOf \in [Drives -> Paths \cup {NoPath}]
  BY <1>1, UsbTypesParts
<1>4. Alone'
  BY <1>1, <1>2 DEF Alone, Target
<1>5. ASSUME NEW s \in Setups PROVE SetupHolds(s)'
  <2>1. CASE setup[s].at = "idle"
    BY <1>2, <2>1 DEF SetupHolds
  <2>2. CASE setup[s].at # "idle" /\ (Plug(d) \/ mountSecure(d))
    <3>1. plugged \subseteq plugged' /\ secure' = secure
      BY <2>2 DEF Plug, mountSecure
    <3>2. mountOf[Target(s)] # NoPath => mountOf'[Target(s)] = mountOf[Target(s)]
      BY <1>2, <1>3, <2>2 DEF Plug, mountSecure, MountAt
    <3> QED BY <1>1, <1>2, <3>1, <3>2 DEF SetupHolds, Made, Target
  <2>3. CASE setup[s].at # "idle" /\ (ejectDrive(d) \/ unmountSecure(d) \/ resetDrive(d))
    <3>1. Target(s) # d
      BY <2>3 DEF ejectDrive, unmountSecure, resetDrive, MayTouch, Working, Target
    <3>2. /\ plugged \ {d} \subseteq plugged'
          /\ secure'[Target(s)] = secure[Target(s)] /\ mountOf'[Target(s)] = mountOf[Target(s)]
      BY <1>2, <1>3, <2>3, <3>1 DEF ejectDrive, unmountSecure, resetDrive, MountAt
    <3> QED BY <1>1, <1>2, <3>1, <3>2 DEF SetupHolds, Made, Target
  <2> QED BY <2>1, <2>2, <2>3
<1> QED BY <1>4, <1>5 DEF UsbInv

(* A step that only looks at drives keeps the invariant.                     *)
LEMMA UsbLookSteps ==
  ASSUME ~Disturbed, UsbInv, UsbTypeOK', NEW s \in Setups, LooksAt(s)
  PROVE  UsbInv'
<1>1. UsbTypeOK /\ Alone /\ \A t \in Setups : SetupHolds(t)
  BY DEF UsbInv
<1>2. /\ setup[s] \in SetupStates /\ Target(s) \in Drives
      /\ mountOf \in [Drives -> Paths \cup {NoPath}] /\ setup \in [Setups -> SetupStates]
  BY <1>1, ScreenGoes, UsbTypesParts
<1>3. UNCHANGED <<platform, plugged, secure, mountOf>>
  BY <1>1, LooksGo
<1>4. ASSUME NEW at \in SetupAts, SetupGoes(s, at), setup[s].at # "idle",
             \/ setup[s].at = "validate" /\ at = "tools"
             \/ setup[s].at = "tools" /\ at = "bin"
             \/ setup[s].at = "wait" /\ at = "fallback"
      PROVE  UsbInv'
  <2> DEFINE r == [at |-> at, drive |-> Target(s), path |-> setup[s].path]
  <2>1. r \in SetupStates /\ setup' = [setup EXCEPT ![s] = r] /\ r.drive = Target(s) /\ setup'[s] = r
    BY <1>1, <1>2, <1>4, ScreenGoes DEF SetupStates
  <2>2. setup'[s].at = at /\ setup'[s].drive = setup[s].drive /\ setup'[s].path = setup[s].path
    BY <2>1 DEF Target
  <2> HIDE DEF r
  <2>3. SetupHolds(s)
    BY <1>1
  <2>4. SetupHolds(s)'
    BY <1>3, <1>4, <2>2, <2>3 DEF SetupHolds, Made, Target
  <2> QED BY <1>3, <1>4, <2>1, <2>4, ScreenSteps
<1>5. ASSUME Found(s, mountOf[Target(s)]), mountOf[Target(s)] # NoPath, setup[s].at \in {"wait", "fallback"}
      PROVE  UsbInv'
  <2> DEFINE r == [at |-> "validate", drive |-> Target(s), path |-> mountOf[Target(s)]]
  <2>1. mountOf[Target(s)] \in Paths
    BY <1>2, <1>5
  <2>2. setup' = [setup EXCEPT ![s] = r]
    BY <1>1, <1>5, <2>1, ScreenGoes
  <2>3. r \in SetupStates /\ r.drive = Target(s) /\ setup'[s] = r
    BY <1>2, <2>1, <2>2 DEF SetupStates, SetupAts
  <2>4. /\ setup'[s].at = "validate" /\ setup'[s].drive = setup[s].drive
        /\ setup'[s].path = mountOf[setup[s].drive]
    BY <2>3 DEF Target
  <2> HIDE DEF r
  <2>5. SetupHolds(s)
    BY <1>1
  <2>6. SetupHolds(s)'
    BY <1>3, <1>5, <2>4, <2>5 DEF SetupHolds, Made, Target
  <2> QED BY <1>3, <1>5, <2>2, <2>3, <2>6, ScreenSteps
<1>6. CASE SetupFails(s) \/ ResetForm(s)
  <2>1. IdleSetup(Target(s)) \in SetupStates /\ IdleSetup(Target(s)).drive = Target(s)
    BY <1>2 DEF IdleSetup, SetupStates, SetupAts
  <2>2. setup' = [setup EXCEPT ![s] = IdleSetup(Target(s))] /\ setup[s].at # "idle"
    BY <1>6 DEF SetupFails, ResetForm, SetupAt
  <2>3. SetupHolds(s)'
    BY <1>2, <2>2 DEF SetupHolds, IdleSetup
  <2> QED BY <1>3, <2>1, <2>2, <2>3, ScreenSteps
<1>7. ASSUME NEW d \in Drives, provisionVault(s, d) PROVE UsbInv'
  <2>1. setup' = [setup EXCEPT ![s] = [at |-> "partition", drive |-> d, path |-> NoPath]]
    <3>1. [IdleSetup(d) EXCEPT !.at = "partition"] = [at |-> "partition", drive |-> d, path |-> NoPath]
      BY DEF IdleSetup
    <3> QED BY <1>7, <3>1 DEF provisionVault
  <2>2. /\ setup'[s] = [at |-> "partition", drive |-> d, path |-> NoPath]
        /\ \A t \in Setups \ {s} : setup'[t] = setup[t]
    BY <1>2, <2>1
  <2>3. d \in plugged /\ \A t \in Setups : setup[t].at # "idle" => Target(t) # d
    BY <1>7 DEF provisionVault, MayTouch, Working, Target
  <2>4. Alone'
    BY <1>1, <2>2, <2>3 DEF Alone, Target
  <2>5. SetupHolds(s)'
    BY <1>3, <2>2, <2>3 DEF SetupHolds, Target
  <2>6. ASSUME NEW t \in Setups \ {s} PROVE SetupHolds(t)'
    <3>1. SetupHolds(t) /\ setup'[t] = setup[t]
      BY <1>1, <2>2
    <3> QED BY <1>3, <3>1 DEF SetupHolds, Made, Target
  <2> QED BY <2>4, <2>5, <2>6 DEF UsbInv
<1>8. CASE validatePartitionLayout(s) \/ writeToolsContent(s)
  BY <1>4, <1>8 DEF validatePartitionLayout, writeToolsContent, SetupAt, SetupAts
<1>9. CASE AwaitMount(s)
  BY <1>4, <1>5, <1>9 DEF AwaitMount, SetupAt, SetupAts
<1>10. CASE FallbackMount(s)
  <2>1. PICK p \in findVolumeForDisk(Target(s)) : Found(s, p)
    BY <1>10 DEF FallbackMount
  <2>2. p = mountOf[Target(s)] /\ p # NoPath
    BY <1>1, <2>1, OneParent DEF findVolumeForDisk, MountedPaths
  <2> QED BY <1>5, <1>10, <2>1, <2>2 DEF FallbackMount, SetupAt
<1> QED BY <1>6, <1>7, <1>8, <1>9, <1>10 DEF LooksAt

(* The path of a screen that writes is where its drive is mounted.           *)
LEMMA WritesToTarget ==
  ASSUME UsbInv, NEW s \in Setups, setup[s].at \in {"bin", "header", "index", "commit"}
  PROVE  setup[s].path \in MountedPaths /\ ParentDisk(setup[s].path) = Target(s)
<1>1. UsbTypeOK /\ SetupHolds(s) /\ Target(s) \in Drives
  BY ScreenGoes DEF UsbInv
<1>2. mountOf[Target(s)] = setup[s].path /\ setup[s].path # NoPath
  BY <1>1 DEF SetupHolds
<1> QED BY <1>1, <1>2, OneParent

(* A step that writes by the path keeps the invariant and reaches no other   *)
(* drive.                                                                    *)
LEMMA UsbWriteSteps ==
  ASSUME UsbInv, UsbTypeOK', NEW s \in Setups, WritesBin(s)
  PROVE  UsbInv' /\ \A d \in Drives \ {Target(s)} : secure'[d] = secure[d]
<1>1. UsbTypeOK /\ SetupHolds(s)
  BY DEF UsbInv
<1>2. setup[s].at \in {"bin", "header", "index", "commit"}
  BY DEF WritesBin, writeVaultBin, provisionHeader, provisionIndex, provisionCommit, SetupAt
<1>3. /\ ParentDisk(setup[s].path) = Target(s) /\ Target(s) \in Drives /\ setup[s] \in SetupStates
      /\ secure \in [Drives -> SecureStates] /\ setup \in [Setups -> SetupStates]
  BY <1>1, <1>2, WritesToTarget, ScreenGoes, UsbTypesParts
<1>4. UNCHANGED <<platform, plugged, mountOf>>
  BY <1>1, WritesGo
<1>5. \A e \in Drives \ {Target(s)} : secure'[e] = secure[e]
  BY <1>1, <1>3, WritesGo
<1>6. ASSUME NEW at \in SetupAts, SetupGoes(s, at), NEW is, secure'[Target(s)] = [is |-> is, by |-> s],
             <<at, is>> \in {<<"header", "placeholder">>, <<"index", "keyed">>,
                             <<"commit", "indexed">>, <<"unmount", "vault">>}
      PROVE  UsbInv'
  <2> DEFINE r == [at |-> at, drive |-> Target(s), path |-> setup[s].path]
  <2>1. setup' = [setup EXCEPT ![s] = r]
    BY <1>1, <1>6, ScreenGoes
  <2>2. r \in SetupStates /\ r.drive = Target(s)
    BY <1>3 DEF SetupStates
  <2>3. setup'[s].at = at /\ setup'[s].drive = setup[s].drive /\ setup'[s].path = setup[s].path
    BY <1>3, <2>1 DEF Target
  <2> HIDE DEF r
  <2>4. SetupHolds(s)'
    BY <1>1, <1>2, <1>4, <1>6, <2>3 DEF SetupHolds, Made, Target
  <2> QED BY <1>2, <1>4, <1>5, <2>1, <2>2, <2>4, ScreenSteps
<1>7. CASE writeVaultBin(s)
  <2>1. secure'[Target(s)] = [is |-> "placeholder", by |-> s] /\ SetupGoes(s, "header")
    BY <1>3, <1>7 DEF writeVaultBin
  <2> QED BY <1>5, <1>6, <2>1 DEF SetupAts
<1>8. CASE provisionHeader(s)
  <2>1. secure'[Target(s)] = [is |-> "keyed", by |-> s] /\ SetupGoes(s, "index")
    BY <1>3, <1>8 DEF provisionHeader
  <2> QED BY <1>5, <1>6, <2>1 DEF SetupAts
<1>9. CASE provisionIndex(s)
  <2>1. secure[Target(s)] = [is |-> "keyed", by |-> s]
    BY <1>1, <1>9 DEF SetupHolds, Made, provisionIndex, SetupAt
  <2>2. secure' = [secure EXCEPT ![Target(s)] = [secure[Target(s)] EXCEPT !.is = "indexed"]]
    BY <1>3, <1>9, <2>1 DEF provisionIndex
  <2>3. [secure[Target(s)] EXCEPT !.is = "indexed"] = [is |-> "indexed", by |-> s]
    BY <2>1
  <2>4. secure'[Target(s)] = [is |-> "indexed", by |-> s] /\ SetupGoes(s, "commit")
    BY <1>3, <1>9, <2>2, <2>3 DEF provisionIndex
  <2> QED BY <1>5, <1>6, <2>4 DEF SetupAts
<1>10. CASE provisionCommit(s)
  <2>1. secure[Target(s)].is = "indexed"
    BY <1>1, <1>10 DEF SetupHolds, Made, provisionCommit, SetupAt
  <2>2. secure'[Target(s)] = [is |-> "vault", by |-> s] /\ SetupGoes(s, "unmount")
    BY <1>3, <1>10, <2>1 DEF provisionCommit
  <2> QED BY <1>5, <1>6, <2>2 DEF SetupAts
<1> QED BY <1>7, <1>8, <1>9, <1>10, <1>5 DEF WritesBin

(* A step that replaces or mounts the volumes of its drive keeps the         *)
(* invariant.                                                                *)
LEMMA UsbMoveSteps ==
  ASSUME UsbInv, UsbTypeOK', NEW s \in Setups, MovesVolumes(s)
  PROVE  UsbInv'
<1>1. UsbTypeOK /\ SetupHolds(s)
  BY DEF UsbInv
<1>2. /\ Target(s) \in Drives /\ setup \in [Setups -> SetupStates] /\ secure \in [Drives -> SecureStates]
      /\ mountOf \in [Drives -> Paths \cup {NoPath}]
  BY <1>1, ScreenGoes, UsbTypesParts
<1>3. /\ UNCHANGED <<platform, plugged>> /\ setup[s].at # "idle" /\ Target(s) \in plugged
      /\ \A e \in Drives \ {Target(s)} : secure'[e] = secure[e] /\ mountOf'[e] = mountOf[e]
  BY <1>1, MovesGo
<1>4. PICK r \in SetupStates : setup' = [setup EXCEPT ![s] = r] /\ r.drive = Target(s)
  BY <1>1, MovesGo
<1>5. setup'[s] = r
  BY <1>2, <1>4
<1>6. SetupHolds(s)'
  <2>1. ASSUME NEW at \in SetupAts, SetupGoes(s, at) PROVE r.at = at
    BY <1>1, <1>5, <1>2, <2>1, ScreenGoes
  <2>2. ASSUME NEW p \in Paths, Found(s, p) PROVE r.at = "validate" /\ r.path = p
    BY <1>1, <1>5, <1>2, <2>2, ScreenGoes
  <2>3. FreePaths \subseteq Paths /\ mountOf[Target(s)] \in Paths \cup {NoPath} /\ NoPath \notin Paths
    BY <1>2, UsbSetupAssumption DEF FreePaths
  <2>4. CASE NewVolumes(s) /\ SetupGoes(s, "wait")
    <3>1. secure'[Target(s)] = [is |-> "empty", by |-> s]
      BY <1>2, <2>4 DEF NewVolumes
    <3>2. r.at = "wait"
      BY <2>1, <2>4 DEF SetupAts
    <3> QED BY <1>3, <1>4, <1>5, <3>1, <3>2 DEF SetupHolds, Made, Target
  <2>5. CASE partitionWindows(s)
    <3>1. secure'[Target(s)] = [is |-> "empty", by |-> s]
      BY <1>2, <2>5 DEF partitionWindows, NewVolumes
    <3>2. PICK p \in FreePaths \cup ({mountOf[Target(s)]} \ {NoPath}) : MountAt(Target(s), p) /\ Found(s, p)
      BY <2>5 DEF partitionWindows
    <3>3. r.at = "validate" /\ r.path = p /\ p # NoPath /\ mountOf'[Target(s)] = p
      BY <1>2, <2>2, <2>3, <3>2 DEF MountAt
    <3> QED BY <1>3, <1>4, <1>5, <3>1, <3>3 DEF SetupHolds, Made, Target
  <2>6. CASE PartitioningBreaks(s)
    <3>1. r.at = "idle"
      BY <1>2, <1>5, <2>6 DEF PartitioningBreaks, IdleSetup
    <3> QED BY <1>5, <3>1 DEF SetupHolds
  <2>7. CASE UdisksMount(s)
    <3>1. PICK p \in IF mountOf[Target(s)] # NoPath THEN {mountOf[Target(s)]} ELSE FreePaths :
             MountAt(Target(s), p) /\ Found(s, p)
      BY <2>7 DEF UdisksMount
    <3>2. r.at = "validate" /\ r.path = p /\ p # NoPath /\ mountOf'[Target(s)] = p
      BY <1>2, <2>2, <2>3, <3>1 DEF MountAt
    <3>3. secure'[Target(s)] = [is |-> "empty", by |-> s]
      BY <1>1, <2>7 DEF UdisksMount, SetupHolds, Made, SetupAt
    <3> QED BY <1>3, <1>4, <1>5, <3>2, <3>3 DEF SetupHolds, Made, Target
  <2>8. CASE FinishSetup(s)
    <3>1. secure'[Target(s)] = [is |-> "vault", by |-> s]
      BY <1>1, <2>8 DEF FinishSetup, SetupHolds, Made, SetupAt
    <3>2. r.at = "done"
      BY <2>1, <2>8 DEF SetupAts, FinishSetup
    <3> QED BY <1>3, <1>4, <1>5, <3>1, <3>2 DEF SetupHolds, Made, Target
  <2> QED BY <2>4, <2>5, <2>6, <2>7, <2>8 DEF MovesVolumes, partitionMacOS, partitionLinux
<1> QED BY <1>3, <1>4, <1>6, ScreenSteps

(* Undisturbed, every step keeps the invariant of the setup.                 *)
LEMMA UsbInductive ==
  ASSUME ~Disturbed, UsbInv, [UsbNext]_UsbVars
  PROVE  UsbInv'
<1>1. UsbTypeOK'
  BY UsbTypesKept DEF UsbInv
<1>2. CASE UNCHANGED UsbVars
  <2>1. UNCHANGED <<plugged, secure, mountOf, setup>>
    BY <1>2 DEF UsbVars
  <2>2. Alone'
    BY <2>1 DEF UsbInv, Alone, Target
  <2>3. ASSUME NEW s \in Setups PROVE SetupHolds(s)'
    BY <2>1 DEF UsbInv, SetupHolds, Made, Target
  <2> QED BY <1>1, <2>2, <2>3 DEF UsbInv
<1> QED BY <1>1, <1>2, UsbDriveSteps, UsbLookSteps, UsbWriteSteps, UsbMoveSteps
        DEF UsbNext, LooksAt, WritesBin, MovesVolumes

(* Undisturbed, the invariant of the setup holds throughout every behaviour. *)
LEMMA UsbInvariant ==
  ASSUME ~Disturbed
  PROVE  UsbSpec => []UsbInv
<1>1. UsbInit => UsbInv
  <2> SUFFICES ASSUME UsbInit PROVE UsbInv
    OBVIOUS
  <2>1. \A s \in Setups : setup[s].at = "idle"
    BY DEF UsbInit, IdleSetup
  <2> QED BY <2>1, UsbTypesStart DEF UsbInv, Alone, SetupHolds
<1>2. UsbInv /\ [UsbNext]_UsbVars => UsbInv'
  BY UsbInductive
<1> QED BY <1>1, <1>2, PTL DEF UsbSpec

(* When a screen reports success, the drive the user chose holds a complete  *)
(* vault with the header of this setup, however many drives with a SECURE    *)
(* volume are plugged in and however many screens set drives up; provided    *)
(* nobody pulls, wipes or unmounts a drive while a screen works on it.       *)
THEOREM SetupLeavesVault ==
  ASSUME ~Disturbed
  PROVE  UsbSpec => []SetupIsUsable
<1>1. UsbInv => SetupIsUsable
  BY DEF UsbInv, SetupIsUsable, SetupHolds, Made, SetupAt
<1> QED BY <1>1, UsbInvariant, PTL

(* What is on a drive changes only while a setup of that drive runs, or      *)
(* because it is wiped: the paths by which the companion and the application *)
(* go never lead a setup to another drive.                                   *)
THEOREM SetupKeepsToDrive ==
  ASSUME ~Disturbed
  PROVE  UsbSpec => OnlyChosenDrive
<1> DEFINE Safe == \A d \in Drives : secure'[d] # secure[d] => Working(d) \/ secure'[d] = NoSecure
<1>1. ASSUME UsbInv, [UsbNext]_UsbVars PROVE [Safe]_UsbVars
  <2>1. UsbTypeOK /\ UsbTypeOK' /\ secure \in [Drives -> SecureStates]
    BY <1>1, UsbTypesKept, UsbTypesParts DEF UsbInv
  <2>2. ASSUME NEW s \in Setups, setup[s].at # "idle",
               \A d \in Drives \ {Target(s)} : secure'[d] = secure[d]
        PROVE  Safe
    BY <2>2 DEF Working, Target
  <2>3. ASSUME NEW s \in Setups, WritesBin(s) PROVE Safe
    <3>1. setup[s].at # "idle"
      BY <2>3 DEF WritesBin, writeVaultBin, provisionHeader, provisionIndex, provisionCommit, SetupAt
    <3> QED BY <1>1, <2>1, <2>2, <2>3, <3>1, UsbWriteSteps
  <2>4. ASSUME NEW s \in Setups, MovesVolumes(s) PROVE Safe
    BY <2>1, <2>2, <2>4, MovesGo
  <2>5. ASSUME NEW s \in Setups, LooksAt(s) PROVE Safe
    <3>1. secure' = secure
      BY <2>1, <2>5, LooksGo
    <3> QED BY <3>1
  <2>6. ASSUME NEW d \in Drives,
               Plug(d) \/ mountSecure(d) \/ ejectDrive(d) \/ unmountSecure(d) \/ resetDrive(d)
        PROVE  Safe
    <3>1. \A e \in Drives : secure'[e] = secure[e] \/ secure'[e] = NoSecure
      BY <2>1, <2>6 DEF Plug, mountSecure, ejectDrive, unmountSecure, resetDrive
    <3> QED BY <3>1
  <2>7. CASE UNCHANGED UsbVars
    BY <2>7
  <2> HIDE DEF Safe
  <2> QED BY <1>1, <2>3, <2>4, <2>5, <2>6, <2>7 DEF UsbNext, LooksAt, WritesBin, MovesVolumes
<1> QED BY <1>1, UsbInvariant, PTL DEF UsbSpec, OnlyChosenDrive

-----------------------------------------------------------------------------
(* The four side by side.                                                    *)

(* The keepers of vaults have their types; the container's part needs its    *)
(* one flow, without which a compaction may copy more records than fit.      *)
THEOREM VaultTypes ==
  ASSUME NEW t, OneFlow(t)
  PROVE  Spec => []TypeOK
<1> DEFINE vars == <<ContainerVars, ListVars, FileListVars, UsbVars, part>>
           AllInv == ContainerInv(t) /\ ListInv /\ FileListInv /\ UsbTypeOK
<1>1. Init => AllInv
  BY ContainerInvInit, ListStarts, FileListStarts, UsbTypesStart DEF Init
<1>2. AllInv /\ [Next]_vars => AllInv'
  <2> SUFFICES ASSUME AllInv, [Next]_vars PROVE AllInv'
    OBVIOUS
  <2>1. /\ [ContainerNext]_ContainerVars /\ [ListNext]_ListVars
        /\ [FileListNext]_FileListVars /\ [UsbNext]_UsbVars
    BY DEF Next
  <2> QED BY <2>1, ContainerInvStep, ListInductive, FileListInductive, UsbTypesKept
<1>3. AllInv => TypeOK
  BY DEF TypeOK, ContainerInv, ListInv, FileListInv
<1> QED BY <1>1, <1>2, <1>3, PTL DEF Spec
=============================================================================
