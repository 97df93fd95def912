------------------------- MODULE VaultContainerProofs -------------------------
(***************************************************************************)
(* Proofs about VaultContainer: for any finite set of files and any capacity *)
(* the container is readable wherever a flow is cut off, agrees with what    *)
(* callers were told, and implements VaultContents.  Flows run one at a time, *)
(* lock() waits for them, and no fault strikes between the rename and the    *)
(* commit of a compaction (otherwise the properties fail: README, section 7).*)
(***************************************************************************)
EXTENDS VaultContainer, FiniteSetTheorems, FunctionTheorems, TLAPS

(* The one flow, and the faults the theorems are about.                      *)
OneFlow(t) == Flows = {t} /\ ~CompactBreaks /\ ~LockInFlow

(* The index in memory points to the records of its files.                   *)
MemOK ==
    /\ vaultOpen => keyLive
    /\ ~vaultOpen => memIndex = EmptyIndex
    /\ \A f \in FilesOf(memIndex) : HasRecord(f, memIndex[f])

(* Which flow waits for which call.                                          *)
FlowShape(fl) ==
    /\ fl.at = "idle" => fl = Idle
    /\ fl.op = "unlock" <=> fl.at \in {"read", "reset", "open"}
    /\ fl.at = "record" => fl.op = "add"
    /\ fl.at \in {"rewrite", "reread"} => fl.op = "compact"
    /\ fl.at \in {"index", "header"} => fl.op \in {"add", "remove", "compact"}
    /\ fl.op \in {"add", "remove"} <=> fl.file \in Files
    /\ fl.op = "compact" => fl.file = NoFile

(* What it holds: an unlock the header that is on the drive; a change the    *)
(* index that is in memory, and in the end a header that points to it.       *)
FlowHolds(fl) ==
    /\ fl.at \in {"reset", "open"} => fl.hdr = header
    /\ fl.at \in {"record", "rewrite", "reread", "index", "header"} => vaultOpen
    /\ fl.at \in {"rewrite", "index", "header"} => fl.ix = memIndex
    /\ fl.at \in {"index", "header"} => fl.live
    /\ fl.at = "header" => Readable(fl.hdr) /\ IndexAt(fl.hdr) = fl.ix

(* What callers were told, and what memory holds.                            *)
ToldOK(fl) ==
    /\ fl.op \in {"add", "remove"} => outcome[fl.file] = "unsure"
    /\ fl.op = "add" /\ fl.at \in {"index", "header"} => fl.file \in FilesOf(memIndex)
    /\ fl.op = "remove" /\ fl.at \in {"index", "header"} => fl.file \notin FilesOf(memIndex)
    /\ vaultOpen => \A f \in Files : /\ outcome[f] = "in" => f \in FilesOf(memIndex)
                                     /\ outcome[f] = "out" => f \notin FilesOf(memIndex)

(* The window of a compaction, in which the new index is sure to fit: it     *)
(* replaces at least the block of the old one.                               *)
WindowOK(fl) ==
    /\ preCompact # NotCompacting <=> fl.op = "compact" /\ fl.at \in {"reread", "index", "header"}
    /\ fl.op = "compact" /\ fl.at \in {"reread", "index"} => checkCapacity

ContainerInv(t) ==
    /\ ContainerTypeOK /\ CrashSafe /\ DiskMatchesOutcomes /\ MemOK
    /\ FlowShape(flow[t]) /\ FlowHolds(flow[t]) /\ ToldOK(flow[t]) /\ WindowOK(flow[t])

-----------------------------------------------------------------------------
(* The records the model is built from have their types.                     *)
LEMMA BuiltTypes ==
  /\ EmptyIndex \in Indexes /\ FreshHeader \in Headers /\ Idle \in FlowStates
  /\ \A f \in Files : Record(f) \in Blocks
  /\ \A x \in Indexes : Index(x, TRUE) \in Blocks /\ Index(x, FALSE) \in Blocks
  /\ \A h \in Headers, off \in Offsets : commitVaultIndex(h, off) \in Headers
<1> USE VaultContainerAssumption
<1>1. 0 \in Offsets /\ 1 \in Offsets
  BY DEF Offsets
<1>2. EmptyIndex \in Indexes
  BY <1>1 DEF EmptyIndex, Indexes, Absent
<1>3. FreshHeader \in Headers
  BY <1>1 DEF FreshHeader, Headers, Absent
<1>4. Idle \in FlowStates
  BY <1>2, <1>3 DEF Idle, FlowStates
<1>5. \A f \in Files : Record(f) \in Blocks
  BY <1>2 DEF Record, Blocks
<1>6. \A x \in Indexes : Index(x, TRUE) \in Blocks /\ Index(x, FALSE) \in Blocks
  BY DEF Index, Blocks
<1>7. ASSUME NEW h \in Headers, NEW off \in Offsets PROVE commitVaultIndex(h, off) \in Headers
  <2>1. 1 - h.active \in {0, 1} /\ h.ptr \in [{0, 1} -> Offsets]
    BY DEF Headers
  <2>2. [h.ptr EXCEPT ![1 - h.active] = off] \in [{0, 1} -> Offsets]
    BY <2>1
  <2> QED BY <2>1, <2>2 DEF commitVaultIndex, Headers
<1> QED BY <1>2, <1>3, <1>4, <1>5, <1>6, <1>7

(* The committed header points to the new index.                             *)
LEMMA CommitPoints ==
  ASSUME NEW h \in Headers, NEW off \in Offsets
  PROVE  commitVaultIndex(h, off).ptr[commitVaultIndex(h, off).active] = off
  BY DEF commitVaultIndex, Headers

(* The one flow goes on.                                                     *)
LEMMA FlowGoes ==
  ASSUME NEW t, OneFlow(t), ContainerTypeOK, NEW s \in FlowStates, Goes(t, s)
  PROVE  flow'[t] = s /\ flow' \in [Flows -> FlowStates]
  BY DEF OneFlow, ContainerTypeOK, Goes

(* An append keeps what is there: a reader of a header finds the same index, *)
(* and an entry the same record.                                             *)
LEMMA AppendKeeps ==
  ASSUME ContainerTypeOK, NEW b \in Blocks, _appendBytesImpl(b)
  PROVE  /\ blocks' \in Seq(Blocks) /\ Len(blocks') <= CapBlocks
         /\ Len(blocks') = Len(blocks) + 1 /\ Len(blocks') \in Offsets /\ blocks'[Len(blocks')] = b
         /\ \A i \in 1..Len(blocks) : i \in 1..Len(blocks') /\ blocks'[i] = blocks[i]
<1>1. Len(blocks) \in Nat /\ Len(blocks) < CapBlocks /\ CapBlocks \in Nat
  BY VaultContainerAssumption DEF ContainerTypeOK, _appendBytesImpl, checkCapacity
<1>2. blocks' = Append(blocks, b) /\ blocks \in Seq(Blocks)
  BY DEF ContainerTypeOK, _appendBytesImpl
<1>3. blocks' \in Seq(Blocks) /\ Len(blocks') = Len(blocks) + 1
  BY <1>2
<1>4. blocks'[Len(blocks')] = b /\ \A i \in 1..Len(blocks) : blocks'[i] = blocks[i]
  BY <1>1, <1>2, <1>3
<1> QED BY <1>1, <1>3, <1>4 DEF Offsets

(* What is read through a header or an entry, when the blocks are kept.      *)
BlocksKept == \A i \in 1..Len(blocks) : i \in 1..Len(blocks') /\ blocks'[i] = blocks[i]

(* A reader finds the same, through any header and any entry.                *)
LEMMA ReadsKept ==
  ASSUME BlocksKept
  PROVE  /\ \A h : Readable(h) => Readable(h)' /\ IndexAt(h)' = IndexAt(h)
         /\ \A f, off : HasRecord(f, off) => HasRecord(f, off)'
  BY DEF BlocksKept, Readable, IndexAt, HasRecord

(* While the header and the blocks it leads to stay, so does what is safe.   *)
LEMMA DiskKept ==
  ASSUME ContainerTypeOK, CrashSafe, DiskMatchesOutcomes, BlocksKept, header' = header,
         preCompact' = preCompact,
         \A f \in Files : outcome'[f] = outcome[f] \/ outcome'[f] = "unsure"
  PROVE  CrashSafe' /\ DiskMatchesOutcomes' /\ (preCompact = NotCompacting => DiskFiles' = DiskFiles)
<1>1. ASSUME preCompact = NotCompacting
      PROVE  Readable(header)' /\ IndexAt(header)' = IndexAt(header) /\ Readable(header)
  BY <1>1, ReadsKept DEF CrashSafe
<1>2. preCompact = NotCompacting => DiskFiles' = DiskFiles
  BY <1>1 DEF DiskFiles, FilesOf
<1>3. CrashSafe'
  BY <1>1, <1>2, ReadsKept DEF CrashSafe
<1>4. DiskMatchesOutcomes'
  BY <1>2 DEF DiskMatchesOutcomes
<1> QED BY <1>2, <1>3, <1>4

(* A sequence of two.                                                        *)
LEMMA TwoBlocks ==
  ASSUME NEW S, NEW b \in S
  PROVE  <<b, b>> \in Seq(S) /\ Len(<<b, b>>) = 2 /\ <<b, b>>[1] = b
  OBVIOUS

(* The container as provisioned.                                             *)
LEMMA ContainerInvInit ==
  ASSUME NEW t, OneFlow(t), ContainerInit
  PROVE  ContainerInv(t) /\ DiskFiles = {}
<1> USE VaultContainerAssumption DEF ContainerInit
<1>1. blocks \in Seq(Blocks) /\ Len(blocks) = 2 /\ blocks[1] = Index(EmptyIndex, TRUE)
  <2>1. Index(EmptyIndex, TRUE) \in Blocks
    BY BuiltTypes
  <2> QED BY <2>1, TwoBlocks
<1>2. /\ header = FreshHeader /\ Readable(header) /\ IndexAt(header) = EmptyIndex
  BY <1>1 DEF Readable, IndexAt, FreshHeader, Index
<1>3. FilesOf(EmptyIndex) = {}
  BY DEF FilesOf, EmptyIndex
<1>4. DiskFiles = {}
  BY <1>2, <1>3 DEF DiskFiles
<1>5. ContainerTypeOK
  BY <1>1, BuiltTypes DEF ContainerTypeOK
<1>6. CrashSafe /\ DiskMatchesOutcomes
  BY <1>2, <1>4 DEF CrashSafe, DiskMatchesOutcomes
<1>7. MemOK
  BY <1>3 DEF MemOK
<1>8. flow[t] = Idle
  BY DEF OneFlow
<1>9. FlowShape(flow[t]) /\ FlowHolds(flow[t]) /\ ToldOK(flow[t]) /\ WindowOK(flow[t])
  BY <1>8 DEF FlowShape, FlowHolds, ToldOK, WindowOK, Idle, NotCompacting
<1> QED BY <1>4, <1>5, <1>6, <1>7, <1>9 DEF ContainerInv

(* A flow that ends, by a failure or a reload, outside the window of a       *)
(* compaction, with the drive and the memory as they are.                    *)
LEMMA FlowCutOff ==
  ASSUME NEW t, OneFlow(t), ContainerInv(t), preCompact = NotCompacting, Goes(t, Idle),
         UNCHANGED <<diskVars, vaultVars, outcome, preCompact>>
  PROVE  ContainerInv(t)'
<1> USE DEF ContainerInv, diskVars, vaultVars
<1>1. flow'[t] = Idle /\ flow' \in [Flows -> FlowStates]
  BY FlowGoes, BuiltTypes
<1>2. ContainerTypeOK'
  BY <1>1 DEF ContainerTypeOK
<1>3. BlocksKept
  BY DEF BlocksKept
<1>4. CrashSafe' /\ DiskMatchesOutcomes'
  BY <1>3, DiskKept
<1>5. MemOK'
  BY DEF MemOK, HasRecord
<1>6. FlowShape(flow[t])' /\ FlowHolds(flow[t])' /\ ToldOK(flow[t])' /\ WindowOK(flow[t])'
  BY <1>1, VaultContainerAssumption DEF FlowShape, FlowHolds, ToldOK, WindowOK, Idle
<1> QED BY <1>2, <1>4, <1>5, <1>6

(* The steps of an unlock before it opens the vault.                         *)
LEMMA ContainerInvUnlock ==
  ASSUME NEW t, OneFlow(t), ContainerInv(t),
         Unlock(t) \/ UnlockReadHeader(t) \/ UnlockResetCounter(t)
  PROVE  ContainerInv(t)'
<1> USE DEF ContainerInv, diskVars, vaultVars
<1>1. preCompact = NotCompacting /\ UNCHANGED <<diskVars, vaultVars, outcome, preCompact>>
  BY DEF Unlock, UnlockReadHeader, UnlockResetCounter, Quiet, OneFlow, WindowOK, FlowShape,
         FlowHolds, Idle, _writeVaultHeaderImpl
<1>2. BlocksKept
  BY <1>1 DEF BlocksKept
<1>3. CrashSafe' /\ DiskMatchesOutcomes'
  BY <1>1, <1>2, DiskKept
<1>4. MemOK'
  BY <1>1 DEF MemOK, HasRecord
<1>5. ASSUME NEW s \in FlowStates, Goes(t, s), s.op = "unlock", s.at \in {"read", "reset", "open"},
             s.file = NoFile, s.at \in {"reset", "open"} => s.hdr = header
      PROVE  ContainerInv(t)'
  <2>1. flow'[t] = s /\ flow' \in [Flows -> FlowStates]
    BY <1>5, FlowGoes
  <2>2. ContainerTypeOK'
    BY <1>1, <2>1 DEF ContainerTypeOK
  <2>3. FlowShape(flow[t])' /\ FlowHolds(flow[t])' /\ ToldOK(flow[t])' /\ WindowOK(flow[t])'
    BY <1>1, <1>5, <2>1, VaultContainerAssumption DEF FlowShape, FlowHolds, ToldOK, WindowOK
  <2> QED BY <1>3, <1>4, <2>2, <2>3
<1>6. CASE Unlock(t)
  <2>1. [Idle EXCEPT !.op = "unlock", !.at = "read"] \in FlowStates
    BY BuiltTypes DEF FlowStates
  <2> QED BY <1>5, <1>6, <2>1 DEF Unlock, Idle
<1>7. flow[t] \in FlowStates /\ header \in Headers
  BY DEF OneFlow, ContainerTypeOK
<1>8. flow[t].op = "unlock" => flow[t].file = NoFile
  BY <1>7 DEF FlowShape, FlowStates
<1>9. CASE UnlockReadHeader(t)
  <2>1. CASE Goes(t, [flow[t] EXCEPT !.at = "reset", !.hdr = header])
    <3>1. [flow[t] EXCEPT !.at = "reset", !.hdr = header] \in FlowStates
      BY <1>7 DEF FlowStates
    <3> QED BY <1>5, <1>7, <1>8, <1>9, <2>1, <3>1 DEF UnlockReadHeader, FlowStates
  <2>2. CASE Goes(t, Idle)
    BY <1>1, <2>2, FlowCutOff
  <2> QED BY <1>9, <2>1, <2>2 DEF UnlockReadHeader
<1>10. CASE UnlockResetCounter(t)
  <2>1. [flow[t] EXCEPT !.at = "open"] \in FlowStates
    BY <1>7 DEF FlowStates
  <2>2. flow[t].op = "unlock" /\ flow[t].hdr = header
    BY <1>10 DEF UnlockResetCounter, FlowShape, FlowHolds
  <2> QED BY <1>5, <1>7, <1>8, <1>10, <2>1, <2>2 DEF UnlockResetCounter, FlowStates
<1> QED BY <1>6, <1>9, <1>10

(* The index of an unlock is the one the drive has been found to be safe by. *)
LEMMA ContainerInvOpen ==
  ASSUME NEW t, OneFlow(t), ContainerInv(t), UnlockOpen(t)
  PROVE  /\ ContainerInv(t)' /\ preCompact = NotCompacting
         /\ vaultOpen' /\ FilesOf(memIndex') = DiskFiles
<1> USE DEF ContainerInv, diskVars, vaultVars
<1>1. flow[t].op = "unlock" /\ flow[t].hdr = header /\ preCompact = NotCompacting
  BY DEF UnlockOpen, FlowShape, FlowHolds, WindowOK
<1>2. Readable(header) /\ \A f \in DiskFiles : HasRecord(f, IndexAt(header)[f])
  BY <1>1 DEF CrashSafe
<1>3. DiskFiles = FilesOf(IndexAt(header))
  BY <1>2 DEF DiskFiles
<1>4. /\ vaultOpen' = TRUE /\ keyLive' = TRUE /\ memIndex' = IndexAt(header) /\ memHeader' = header
      /\ Goes(t, Idle) /\ UNCHANGED <<blocks, header, outcome, preCompact>>
  BY <1>1, <1>2 DEF UnlockOpen
<1>5. flow'[t] = Idle /\ flow' \in [Flows -> FlowStates]
  BY <1>4, FlowGoes, BuiltTypes
<1>6. IndexAt(header) \in Indexes
  <2>1. header.ptr[header.active] \in 1..Len(blocks)
    BY <1>2 DEF Readable
  <2>2. blocks[header.ptr[header.active]] \in Blocks
    BY <2>1 DEF ContainerTypeOK
  <2> QED BY <2>2 DEF IndexAt, Blocks
<1>7. ContainerTypeOK'
  BY <1>4, <1>5, <1>6 DEF ContainerTypeOK
<1>8. CrashSafe' /\ DiskMatchesOutcomes'
  BY <1>4, DiskKept DEF BlocksKept
<1>9. MemOK'
  BY <1>2, <1>3, <1>4 DEF MemOK, HasRecord
<1>10. ToldOK(flow[t])'
  BY <1>1, <1>3, <1>4, <1>5 DEF ToldOK, DiskMatchesOutcomes, Idle
<1>11. FlowShape(flow[t])' /\ FlowHolds(flow[t])' /\ WindowOK(flow[t])'
  BY <1>1, <1>4, <1>5, VaultContainerAssumption DEF FlowShape, FlowHolds, WindowOK, Idle
<1> QED BY <1>1, <1>3, <1>4, <1>7, <1>8, <1>9, <1>10, <1>11

(* The beginnings of the flows that change the container.                    *)
LEMMA ContainerInvBegin ==
  ASSUME NEW t, OneFlow(t), ContainerInv(t),
         (\E f \in Files : addFile(t, f) \/ removeFile(t, f)) \/ compactVault(t)
  PROVE  ContainerInv(t)'
<1> USE DEF ContainerInv, diskVars, vaultVars
<1>1. /\ vaultOpen /\ keyLive /\ flow[t] = Idle /\ preCompact = NotCompacting
      /\ UNCHANGED <<diskVars, vaultOpen, keyLive, memHeader, preCompact>>
  <2>1. /\ vaultOpen /\ flow[t] = Idle
        /\ UNCHANGED <<diskVars, vaultOpen, keyLive, memHeader, preCompact>>
    BY DEF addFile, removeFile, compactVault, MayStart
  <2> QED BY <2>1 DEF MemOK, WindowOK, Idle
<1>2. BlocksKept
  BY <1>1 DEF BlocksKept
<1>3. memIndex \in Indexes /\ Absent \in Offsets
  BY VaultContainerAssumption DEF ContainerTypeOK, Offsets, Absent
<1>4. ASSUME NEW f \in Files, addFile(t, f) PROVE ContainerInv(t)'
  <2> DEFINE s == [Idle EXCEPT !.op = "add", !.at = "record", !.file = f]
  <2>1. s \in FlowStates
    BY BuiltTypes DEF FlowStates
  <2>2. flow'[t] = s /\ flow' \in [Flows -> FlowStates]
    BY <1>4, <2>1, FlowGoes DEF addFile
  <2>3. outcome' = [outcome EXCEPT ![f] = "unsure"] /\ memIndex' = memIndex
    BY <1>4 DEF addFile
  <2>4. ContainerTypeOK'
    BY <1>1, <2>2, <2>3 DEF ContainerTypeOK
  <2>5. CrashSafe' /\ DiskMatchesOutcomes'
    BY <1>1, <1>2, <2>3, DiskKept DEF ContainerTypeOK
  <2>6. MemOK'
    BY <1>1, <2>3 DEF MemOK, HasRecord
  <2>7. s.op = "add" /\ s.at = "record" /\ s.file = f
    BY DEF Idle
  <2>8. FlowShape(flow[t])' /\ FlowHolds(flow[t])' /\ WindowOK(flow[t])'
    BY <1>1, <2>2, <2>7 DEF FlowShape, FlowHolds, WindowOK
  <2>9. ToldOK(flow[t])'
    BY <1>1, <2>2, <2>3, <2>7 DEF ToldOK, ContainerTypeOK
  <2> QED BY <2>4, <2>5, <2>6, <2>8, <2>9
<1>5. ASSUME NEW f \in Files, removeFile(t, f) PROVE ContainerInv(t)'
  <2> DEFINE s == [Idle EXCEPT !.op = "remove", !.at = "index", !.file = f,
                               !.ix = memIndex', !.live = keyLive]
  <2>1. memIndex' = [memIndex EXCEPT ![f] = Absent] /\ memIndex' \in Indexes
    BY <1>3, <1>5 DEF removeFile, Indexes
  <2>2. s \in FlowStates
    BY <1>1, <2>1, BuiltTypes DEF FlowStates
  <2>3. flow'[t] = s /\ flow' \in [Flows -> FlowStates]
    BY <1>5, <2>2, FlowGoes DEF removeFile, Goes
  <2>4. outcome' = [outcome EXCEPT ![f] = "unsure"]
    BY <1>5 DEF removeFile
  <2>5. ContainerTypeOK'
    BY <1>1, <2>1, <2>3, <2>4 DEF ContainerTypeOK
  <2>6. CrashSafe' /\ DiskMatchesOutcomes'
    BY <1>1, <1>2, <2>4, DiskKept DEF ContainerTypeOK
  <2>7. FilesOf(memIndex') = FilesOf(memIndex) \ {f} /\ \A g \in Files \ {f} : memIndex'[g] = memIndex[g]
    BY <1>3, <2>1 DEF FilesOf, Indexes
  <2>8. MemOK'
    BY <1>1, <2>7 DEF MemOK, HasRecord, FilesOf
  <2>9. s.op = "remove" /\ s.at = "index" /\ s.file = f /\ s.ix = memIndex' /\ s.live = TRUE
    BY <1>1 DEF Idle
  <2>10. FlowShape(flow[t])' /\ FlowHolds(flow[t])' /\ WindowOK(flow[t])'
    BY <1>1, <2>3, <2>9 DEF FlowShape, FlowHolds, WindowOK
  <2>11. ToldOK(flow[t])'
    BY <1>1, <2>3, <2>4, <2>7, <2>9 DEF ToldOK, ContainerTypeOK
  <2> QED BY <2>5, <2>6, <2>8, <2>10, <2>11
<1>6. CASE compactVault(t)
  <2> DEFINE s == [Idle EXCEPT !.op = "compact", !.at = "rewrite", !.ix = memIndex]
  <2>1. s \in FlowStates
    BY <1>3, BuiltTypes DEF FlowStates
  <2>2. flow'[t] = s /\ flow' \in [Flows -> FlowStates]
    BY <1>6, <2>1, FlowGoes DEF compactVault
  <2>3. UNCHANGED <<memIndex, outcome>>
    BY <1>6 DEF compactVault
  <2>4. ContainerTypeOK'
    BY <1>1, <2>2, <2>3 DEF ContainerTypeOK
  <2>5. CrashSafe' /\ DiskMatchesOutcomes'
    BY <1>1, <1>2, <2>3, DiskKept
  <2>6. MemOK'
    BY <1>1, <2>3 DEF MemOK, HasRecord
  <2>7. s.op = "compact" /\ s.at = "rewrite" /\ s.file = NoFile /\ s.ix = memIndex
    BY DEF Idle
  <2>8. FlowShape(flow[t])' /\ FlowHolds(flow[t])' /\ WindowOK(flow[t])'
    BY <1>1, <2>2, <2>3, <2>7, VaultContainerAssumption DEF FlowShape, FlowHolds, WindowOK
  <2>9. ToldOK(flow[t])'
    BY <1>1, <2>2, <2>3, <2>7 DEF ToldOK
  <2> QED BY <2>4, <2>5, <2>6, <2>8, <2>9
<1> QED BY <1>4, <1>5, <1>6

(* The record is appended; if the answer arrives, the file joins the index   *)
(* in memory at the place of its record.                                     *)
LEMMA ContainerInvRecord ==
  ASSUME NEW t, OneFlow(t), ContainerInv(t), AppendRecord(t)
  PROVE  ContainerInv(t)'
<1> USE DEF ContainerInv, diskVars, vaultVars
<1> DEFINE f == flow[t].file
<1>1. /\ flow[t].at = "record" /\ flow[t].op = "add" /\ f \in Files /\ vaultOpen /\ keyLive
      /\ preCompact = NotCompacting /\ outcome[f] = "unsure"
  <2>1. flow[t].at = "record"
    BY DEF AppendRecord
  <2> QED BY <2>1 DEF FlowShape, FlowHolds, ToldOK, MemOK, WindowOK
<1>2. _appendBytesImpl(Record(f)) /\ Record(f) \in Blocks
  BY <1>1, BuiltTypes DEF AppendRecord
<1>3. /\ blocks' \in Seq(Blocks) /\ Len(blocks') <= CapBlocks
      /\ Len(blocks') = Len(blocks) + 1 /\ Len(blocks') \in Offsets
      /\ blocks'[Len(blocks')] = Record(f) /\ BlocksKept
  BY <1>2, AppendKeeps DEF BlocksKept
<1>4. UNCHANGED <<header, vaultOpen, keyLive, memHeader, outcome, preCompact>>
  BY DEF AppendRecord
<1>5. CrashSafe' /\ DiskMatchesOutcomes'
  BY <1>3, <1>4, DiskKept
<1>6. flow[t] \in FlowStates /\ memIndex \in Indexes /\ Len(blocks) \in Nat
  BY DEF OneFlow, ContainerTypeOK
<1>7. CASE memIndex' = [memIndex EXCEPT ![f] = Len(blocks')] /\ EncryptIndex(t, memIndex')
  <2> DEFINE s == [flow[t] EXCEPT !.at = "index", !.ix = memIndex', !.live = keyLive]
  <2>1. memIndex' \in Indexes
    BY <1>3, <1>6, <1>7 DEF Indexes
  <2>2. s \in FlowStates
    BY <1>1, <1>6, <2>1 DEF FlowStates
  <2>3. flow'[t] = s /\ flow' \in [Flows -> FlowStates]
    BY <1>7, <2>2, FlowGoes DEF EncryptIndex
  <2>4. ContainerTypeOK'
    BY <1>3, <1>4, <2>1, <2>3 DEF ContainerTypeOK
  <2>5. /\ memIndex'[f] = Len(blocks') /\ Len(blocks') # Absent
        /\ \A g \in Files \ {f} : memIndex'[g] = memIndex[g]
        /\ FilesOf(memIndex') = FilesOf(memIndex) \cup {f}
    BY <1>1, <1>3, <1>6, <1>7 DEF FilesOf, Indexes, Absent
  <2>6. MemOK'
    <3>1. Len(blocks') \in 1..Len(blocks') /\ blocks'[Len(blocks')] = Record(f)
      BY <1>3, <1>6
    <3>2. \A g \in FilesOf(memIndex) : /\ memIndex[g] \in 1..Len(blocks')
                                       /\ blocks'[memIndex[g]] = Record(g)
      BY <1>3 DEF MemOK, HasRecord, BlocksKept
    <3>3. \A g \in FilesOf(memIndex') : /\ memIndex'[g] \in 1..Len(blocks')
                                        /\ blocks'[memIndex'[g]] = Record(g)
      BY <2>5, <3>1, <3>2 DEF FilesOf
    <3> QED BY <1>1, <1>4, <3>3 DEF MemOK, HasRecord
  <2>7. s.op = "add" /\ s.at = "index" /\ s.file = f /\ s.ix = memIndex' /\ s.live = TRUE
    BY <1>1, <1>6 DEF FlowStates
  <2>8. FlowShape(flow[t])' /\ FlowHolds(flow[t])' /\ WindowOK(flow[t])'
    BY <1>1, <1>4, <2>3, <2>7 DEF FlowShape, FlowHolds, WindowOK
  <2>9. ToldOK(flow[t])'
    BY <1>1, <1>4, <2>3, <2>5, <2>7 DEF ToldOK
  <2> QED BY <1>5, <2>4, <2>6, <2>8, <2>9
<1>8. CASE Goes(t, Idle) /\ UNCHANGED memIndex
  <2>1. flow'[t] = Idle /\ flow' \in [Flows -> FlowStates]
    BY <1>8, FlowGoes, BuiltTypes
  <2>2. ContainerTypeOK'
    BY <1>3, <1>4, <1>8, <2>1 DEF ContainerTypeOK
  <2>3. MemOK'
    BY <1>3, <1>4, <1>8, ReadsKept DEF MemOK
  <2>4. FlowShape(flow[t])' /\ FlowHolds(flow[t])' /\ ToldOK(flow[t])' /\ WindowOK(flow[t])'
    BY <1>1, <1>4, <1>8, <2>1, VaultContainerAssumption DEF FlowShape, FlowHolds, ToldOK, WindowOK, Idle
  <2> QED BY <1>5, <2>2, <2>3, <2>4
<1> QED BY <1>7, <1>8 DEF AppendRecord

(* The index is appended, and the header that will point to it is made.      *)
LEMMA ContainerInvIndex ==
  ASSUME NEW t, OneFlow(t), ContainerInv(t), AppendIndex(t)
  PROVE  ContainerInv(t)'
<1> USE DEF ContainerInv, diskVars, vaultVars
<1>1. /\ flow[t].at = "index" /\ flow[t].op \in {"add", "remove", "compact"}
      /\ flow[t].ix = memIndex /\ flow[t].live = TRUE /\ vaultOpen
  <2>1. flow[t].at = "index"
    BY DEF AppendIndex
  <2>2. flow[t] \in FlowStates
    BY DEF OneFlow, ContainerTypeOK
  <2> QED BY <2>1, <2>2 DEF FlowShape, FlowHolds, FlowStates
<1>2. flow[t] \in FlowStates /\ memIndex \in Indexes /\ memHeader \in Headers /\ Len(blocks) \in Nat
  BY DEF OneFlow, ContainerTypeOK
<1>3. _appendBytesImpl(Index(memIndex, TRUE)) /\ Index(memIndex, TRUE) \in Blocks
  BY <1>1, <1>2, BuiltTypes DEF AppendIndex
<1>4. /\ blocks' \in Seq(Blocks) /\ Len(blocks') <= CapBlocks
      /\ Len(blocks') = Len(blocks) + 1 /\ Len(blocks') \in Offsets
      /\ blocks'[Len(blocks')] = Index(memIndex, TRUE) /\ BlocksKept
  BY <1>3, AppendKeeps DEF BlocksKept
<1>5. UNCHANGED <<header, vaultVars, outcome, preCompact>>
  BY DEF AppendIndex
<1>6. CrashSafe' /\ DiskMatchesOutcomes'
  BY <1>4, <1>5, DiskKept
<1>7. MemOK'
  BY <1>4, <1>5, ReadsKept DEF MemOK
<1>8. CASE Goes(t, [flow[t] EXCEPT !.at = "header", !.hdr = commitVaultIndex(memHeader, Len(blocks'))])
  <2> DEFINE h == commitVaultIndex(memHeader, Len(blocks'))
             s == [flow[t] EXCEPT !.at = "header", !.hdr = h]
  <2>1. h \in Headers /\ h.ptr[h.active] = Len(blocks')
    BY <1>2, <1>4, BuiltTypes, CommitPoints
  <2>2. s \in FlowStates
    BY <1>2, <2>1 DEF FlowStates
  <2>3. flow'[t] = s /\ flow' \in [Flows -> FlowStates]
    BY <1>8, <2>2, FlowGoes
  <2>4. ContainerTypeOK'
    BY <1>4, <1>5, <2>3 DEF ContainerTypeOK
  <2>5. /\ s.op = flow[t].op /\ s.at = "header" /\ s.file = flow[t].file
        /\ s.ix = memIndex /\ s.live = TRUE /\ s.hdr = h
    BY <1>1, <1>2 DEF FlowStates
  <2>6. /\ h.ptr[h.active] \in 1..Len(blocks') /\ blocks'[h.ptr[h.active]].kind = "index"
        /\ blocks'[h.ptr[h.active]].index = memIndex
    BY <1>2, <1>4, <2>1 DEF Index
  <2>7. FlowShape(flow[t])' /\ WindowOK(flow[t])'
    BY <1>1, <1>5, <2>3, <2>5 DEF FlowShape, WindowOK
  <2>8. FlowHolds(flow[t])'
    <3> HIDE DEF h, s
    <3> QED BY <1>1, <1>5, <2>3, <2>5, <2>6 DEF FlowHolds, Readable, IndexAt
  <2>9. ToldOK(flow[t])'
    BY <1>1, <1>5, <2>3, <2>5 DEF ToldOK
  <2> QED BY <1>6, <1>7, <2>4, <2>7, <2>8, <2>9
<1>9. CASE MayFail /\ Goes(t, Idle)
  <2>1. flow'[t] = Idle /\ flow' \in [Flows -> FlowStates]
    BY <1>9, FlowGoes, BuiltTypes
  <2>2. ContainerTypeOK'
    BY <1>4, <1>5, <2>1 DEF ContainerTypeOK
  <2>3. preCompact = NotCompacting
    BY <1>9 DEF MayFail, OneFlow
  <2>4. FlowShape(flow[t])' /\ FlowHolds(flow[t])' /\ ToldOK(flow[t])' /\ WindowOK(flow[t])'
    BY <1>1, <1>5, <2>1, <2>3, VaultContainerAssumption DEF FlowShape, FlowHolds, ToldOK, WindowOK, Idle
  <2> QED BY <1>6, <1>7, <2>2, <2>4
<1> QED BY <1>8, <1>9 DEF AppendIndex

(* The commit: the drive holds what memory holds, at once.                   *)
LEMMA ContainerInvHeader ==
  ASSUME NEW t, OneFlow(t), ContainerInv(t), WriteHeader(t)
  PROVE  ContainerInv(t)' /\ preCompact' = NotCompacting /\ vaultOpen /\ DiskFiles' = FilesOf(memIndex)
<1> USE DEF ContainerInv, diskVars, vaultVars
<1> DEFINE fl == flow[t]
<1>1. /\ fl.at = "header" /\ fl.op \in {"add", "remove", "compact"} /\ fl.ix = memIndex
      /\ Readable(fl.hdr) /\ IndexAt(fl.hdr) = memIndex /\ vaultOpen
  <2>1. fl.at = "header"
    BY DEF WriteHeader
  <2> QED BY <2>1 DEF FlowShape, FlowHolds
<1>2. fl \in FlowStates /\ fl.hdr \in Headers /\ memIndex \in Indexes
  BY DEF OneFlow, ContainerTypeOK, FlowStates
<1>3. /\ header' = fl.hdr /\ preCompact' = NotCompacting /\ Goes(t, Idle)
      /\ UNCHANGED <<blocks, vaultOpen, keyLive, memIndex>>
  BY DEF WriteHeader, _writeVaultHeaderImpl
<1>4. flow'[t] = Idle /\ flow' \in [Flows -> FlowStates]
  BY <1>3, FlowGoes, BuiltTypes
<1>5. Readable(header)' /\ IndexAt(header)' = memIndex
  BY <1>1, <1>3 DEF Readable, IndexAt
<1>6. DiskFiles' = FilesOf(memIndex)
  BY <1>5 DEF DiskFiles, FilesOf
<1>7. memHeader' \in Headers
  BY <1>2 DEF WriteHeader, ContainerTypeOK
<1>8. /\ outcome' \in [Files -> {"unsure", "in", "out"}]
      /\ \A f \in Files : \/ outcome'[f] = outcome[f]
                          \/ f = fl.file /\ outcome'[f] = IF fl.op = "add" THEN "in" ELSE "out"
  BY DEF WriteHeader, ContainerTypeOK
<1>9. ContainerTypeOK'
  BY <1>2, <1>3, <1>4, <1>7, <1>8 DEF ContainerTypeOK
<1>10. MemOK'
  BY <1>3 DEF MemOK, HasRecord
<1>11. CrashSafe'
  BY <1>3, <1>5, <1>6 DEF CrashSafe, MemOK, HasRecord
<1>12. \A f \in Files : /\ outcome'[f] = "in" => f \in FilesOf(memIndex)
                        /\ outcome'[f] = "out" => f \notin FilesOf(memIndex)
  <2> TAKE f \in Files
  <2>1. CASE outcome'[f] = outcome[f]
    BY <1>1, <2>1 DEF ToldOK
  <2>2. CASE f = fl.file /\ outcome'[f] = IF fl.op = "add" THEN "in" ELSE "out"
    <3>1. fl.op \in {"add", "remove"}
      BY <1>2, <2>2 DEF FlowShape
    <3> QED BY <1>1, <2>2, <3>1 DEF ToldOK
  <2> QED BY <1>8, <2>1, <2>2
<1>13. DiskMatchesOutcomes'
  BY <1>6, <1>12 DEF DiskMatchesOutcomes
<1>14. ToldOK(flow[t])'
  BY <1>3, <1>4, <1>12 DEF ToldOK, Idle
<1>15. FlowShape(flow[t])' /\ FlowHolds(flow[t])' /\ WindowOK(flow[t])'
  BY <1>3, <1>4, VaultContainerAssumption DEF FlowShape, FlowHolds, WindowOK, Idle
<1> QED BY <1>1, <1>3, <1>6, <1>9, <1>10, <1>11, <1>13, <1>14, <1>15

(* A finite set is put in sequence: each element once.                       *)
LEMMA InSequence ==
  ASSUME NEW S, IsFiniteSet(S)
  PROVE  /\ Cardinality(S) \in Nat
         /\ SetToSeq(S) \in [1..Cardinality(S) -> S] /\ Len(SetToSeq(S)) = Cardinality(S)
         /\ Range(SetToSeq(S)) = S
<1> DEFINE n == Cardinality(S)
           q == SetToSeq(S)
<1>1. n \in Nat /\ ExistsBijection(1..n, S)
  BY FS_CardinalityType
<1>2. PICK b : b \in Bijection(1..n, S)
  BY <1>1 DEF ExistsBijection
<1>3. b \in [1..n -> S] /\ IsInjective(b)
  BY <1>2 DEF Bijection, Injection
<1>4. q \in [1..n -> S] /\ IsInjective(q)
  BY <1>3 DEF SetToSeq
<1>5. q \in Injection(1..n, S)
  BY <1>4 DEF Injection
<1>6. Cardinality(1..n) = n
  BY <1>1, FS_Interval
<1>7. q \in Surjection(1..n, S)
  BY <1>5, <1>6, FS_Injection
<1>8. Range(q) = S
  BY <1>7, Fun_SurjectionProperties
<1>9. Len(q) = n
  BY <1>1, <1>4
<1> QED BY <1>1, <1>4, <1>8, <1>9

(* A compaction of records: each has its place in the new file.              *)
LEMMA CompactedRecords ==
  ASSUME NEW x, NEW S, S \subseteq Files, \A f \in S : HasRecord(f, x[f])
  PROVE  LET new == Compacted(x, SetToSeq(S)) IN
         /\ new.bl \in Seq(Blocks) /\ Len(new.bl) = Cardinality(S)
         /\ \A f \in S : new.at[f] \in 1..Cardinality(S) /\ new.bl[new.at[f]] = Record(f)
         /\ \A f \in Files \ S : new.at[f] = Absent
         /\ Cardinality(S) \in Nat
<1> DEFINE n == Cardinality(S)
           q == SetToSeq(S)
           new == Compacted(x, q)
<1>1. IsFiniteSet(S)
  BY FS_Subset, VaultContainerAssumption
<1>2. n \in Nat /\ q \in [1..n -> S] /\ Len(q) = n /\ Range(q) = S
  BY <1>1, InSequence
<1> HIDE DEF q, n
<1>3. new.bl = [i \in 1..n |-> blocks[x[q[i]]]]
  BY <1>2 DEF Compacted
<1>4. \A i \in 1..n : new.bl[i] = Record(q[i]) /\ Record(q[i]) \in Blocks
  BY <1>2, <1>3, BuiltTypes DEF HasRecord
<1>5. new.bl \in [1..n -> Blocks]
  BY <1>3, <1>4
<1>6. new.bl \in Seq(Blocks) /\ Len(new.bl) = n
  BY <1>2, <1>5
<1>7. new.at = [f \in Files |-> IF f \in S THEN CHOOSE i \in 1..n : q[i] = f ELSE Absent]
  BY <1>2 DEF Compacted
<1>8. ASSUME NEW f \in S PROVE new.at[f] \in 1..n /\ q[new.at[f]] = f
  <2>1. \E i \in 1..n : q[i] = f
    BY <1>2 DEF Range
  <2> QED BY <1>7, <2>1
<1>9. \A f \in Files \ S : new.at[f] = Absent
  BY <1>7
<1> HIDE DEF new
<1>10. \A f \in S : new.at[f] \in 1..n /\ new.bl[new.at[f]] = Record(f)
  BY <1>4, <1>8
<1> QED BY <1>2, <1>6, <1>9, <1>10 DEF new, q, n

(* The records of an index leave room for one block more: two files have     *)
(* their records in two places, and the active index is in a third.          *)
LEMMA RecordsLeaveRoom ==
  ASSUME ContainerTypeOK, Readable(header), \A f \in FilesOf(memIndex) : HasRecord(f, memIndex[f])
  PROVE  Cardinality(FilesOf(memIndex)) < CapBlocks
<1> DEFINE S == FilesOf(memIndex)
           p == header.ptr[header.active]
           T == 1..Len(blocks) \ {p}
           F == [f \in S |-> memIndex[f]]
<1>1. Len(blocks) \in Nat /\ Len(blocks) <= CapBlocks /\ CapBlocks \in Nat
  BY VaultContainerAssumption DEF ContainerTypeOK
<1>2. p \in 1..Len(blocks) /\ blocks[p].kind = "index"
  BY DEF Readable
<1>3. \A f \in S : memIndex[f] \in 1..Len(blocks) /\ blocks[memIndex[f]] = Record(f)
  BY DEF HasRecord
<1>4. \A f \in S : Record(f).kind = "record" /\ Record(f).file = f
  BY DEF Record
<1>5. F \in [S -> T]
  BY <1>2, <1>3, <1>4
<1>6. \A f, g \in S : F[f] = F[g] => f = g
  BY <1>3, <1>4
<1>7. F \in Injection(S, T)
  BY <1>5, <1>6, Fun_IsInj
<1>8. IsFiniteSet(1..Len(blocks)) /\ Cardinality(1..Len(blocks)) = Len(blocks)
  <2>1. \A n \in Nat : IsFiniteSet(1..n) /\ Cardinality(1..n) = n
    BY FS_Interval
  <2> QED BY <1>1, <2>1
<1>9. IsFiniteSet(T) /\ Cardinality(T) = Len(blocks) - 1
  BY <1>2, <1>8, FS_RemoveElement
<1>10. IsFiniteSet(S) /\ Cardinality(S) <= Cardinality(T)
  BY <1>7, <1>9, FS_Injection
<1>11. Cardinality(S) \in Nat
  BY <1>10, FS_CardinalityType
<1> QED BY <1>1, <1>9, <1>10, <1>11

(* The compaction moves the records and the entries of the index in memory   *)
(* with them; the files it held are noted.                                   *)
LEMMA ContainerInvRewrite ==
  ASSUME NEW t, OneFlow(t), ContainerInv(t), RewriteVault(t)
  PROVE  /\ ContainerInv(t)' /\ preCompact = NotCompacting /\ preCompact' = <<DiskFiles>>
         /\ UNCHANGED vaultOpen /\ FilesOf(memIndex') = FilesOf(memIndex)
<1> USE DEF ContainerInv
<1> DEFINE S == FilesOf(memIndex)
           new == Compacted(memIndex, SetToSeq(S))
           n == Cardinality(S)
<1>1. /\ flow[t].at = "rewrite" /\ flow[t].op = "compact" /\ flow[t].file = NoFile /\ vaultOpen
      /\ flow[t].ix = memIndex /\ preCompact = NotCompacting
  <2>1. flow[t].at = "rewrite"
    BY DEF RewriteVault
  <2> QED BY <2>1 DEF FlowShape, FlowHolds, WindowOK
<1>2. flow[t] \in FlowStates /\ memIndex \in Indexes
  BY DEF OneFlow, ContainerTypeOK
<1>3. S \subseteq Files /\ \A f \in S : HasRecord(f, memIndex[f])
  BY DEF MemOK, FilesOf
<1>4. {f \in Files : memIndex[f] \in 1..Len(blocks)} = S
  BY <1>3 DEF FilesOf, HasRecord, Absent
<1>5. /\ blocks' = new.bl /\ preCompact' = <<DiskFiles>>
      /\ memIndex' = [f \in Files |-> IF memIndex[f] # Absent THEN new.at[f] ELSE Absent]
      /\ Goes(t, [flow[t] EXCEPT !.at = "reread"])
      /\ UNCHANGED <<header, vaultOpen, keyLive, memHeader, outcome>>
  BY <1>1, <1>4 DEF RewriteVault, OneFlow
<1>6. /\ new.bl \in Seq(Blocks) /\ Len(new.bl) = n /\ n \in Nat
      /\ \A f \in S : new.at[f] \in 1..n /\ new.bl[new.at[f]] = Record(f)
      /\ \A f \in Files \ S : new.at[f] = Absent
  BY <1>3, CompactedRecords
<1> HIDE DEF new
<1>7. n < CapBlocks /\ CapBlocks \in Nat
  BY <1>1, <1>3, RecordsLeaveRoom, VaultContainerAssumption DEF CrashSafe
<1>8. blocks' \in Seq(Blocks) /\ Len(blocks') = n
  BY <1>5, <1>6
<1> HIDE DEF n
<1>9. /\ \A f \in S : memIndex'[f] \in 1..n /\ blocks'[memIndex'[f]] = Record(f)
      /\ \A f \in Files \ S : memIndex'[f] = Absent
  BY <1>3, <1>5, <1>6 DEF FilesOf
<1>10. FilesOf(memIndex') = S
  BY <1>3, <1>6, <1>9 DEF FilesOf, Absent
<1>11. memIndex' \in Indexes
  <2>1. \A f \in Files : memIndex'[f] \in Offsets
    <3> TAKE f \in Files
    <3>1. CASE f \in S
      BY <1>6, <1>7, <1>9, <3>1 DEF Offsets
    <3>2. CASE f \notin S
      BY <1>7, <1>9, <3>2 DEF Offsets, Absent
    <3> QED BY <3>1, <3>2
  <2>2. memIndex' = [f \in Files |-> memIndex'[f]]
    BY <1>5
  <2> QED BY <2>1, <2>2 DEF Indexes
<1>12. flow'[t] = [flow[t] EXCEPT !.at = "reread"] /\ flow' \in [Flows -> FlowStates]
  <2>1. [flow[t] EXCEPT !.at = "reread"] \in FlowStates
    BY <1>2 DEF FlowStates
  <2> QED BY <1>5, <2>1, FlowGoes
<1>13. flow'[t].at = "reread" /\ flow'[t].op = "compact" /\ flow'[t].file = NoFile
  BY <1>1, <1>2, <1>12 DEF FlowStates
<1>14. ContainerTypeOK'
  <2>1. DiskFiles \in SUBSET Files
    BY DEF DiskFiles, FilesOf
  <2>2. Len(blocks') <= CapBlocks
    BY <1>6, <1>7, <1>8
  <2> QED BY <1>5, <1>8, <1>11, <1>12, <2>1, <2>2 DEF ContainerTypeOK
<1>15. preCompact' # NotCompacting
  BY <1>5 DEF NotCompacting
<1>16. CrashSafe' /\ DiskMatchesOutcomes'
  BY <1>15 DEF CrashSafe, DiskMatchesOutcomes
<1>17. MemOK'
  BY <1>1, <1>5, <1>8, <1>9, <1>10 DEF MemOK, HasRecord
<1>18. FlowShape(flow[t])' /\ FlowHolds(flow[t])'
  BY <1>1, <1>5, <1>13, VaultContainerAssumption DEF FlowShape, FlowHolds
<1>19. ToldOK(flow[t])'
  BY <1>1, <1>5, <1>10, <1>13 DEF ToldOK
<1>20. WindowOK(flow[t])'
  BY <1>7, <1>8, <1>13, <1>15 DEF WindowOK, checkCapacity
<1> QED BY <1>1, <1>5, <1>10, <1>14, <1>16, <1>17, <1>18, <1>19, <1>20

(* After the compaction the header is read again and the index encrypted.    *)
LEMMA ContainerInvReread ==
  ASSUME NEW t, OneFlow(t), ContainerInv(t), RereadHeader(t)
  PROVE  ContainerInv(t)'
<1> USE DEF ContainerInv, diskVars
<1>1. /\ flow[t].at = "reread" /\ flow[t].op = "compact" /\ flow[t].file = NoFile
      /\ vaultOpen /\ keyLive = TRUE /\ preCompact # NotCompacting /\ checkCapacity
  <2>1. flow[t].at = "reread"
    BY DEF RereadHeader
  <2>2. keyLive \in BOOLEAN
    BY DEF ContainerTypeOK
  <2> QED BY <2>1, <2>2 DEF FlowShape, FlowHolds, WindowOK, MemOK
<1>2. flow[t] \in FlowStates /\ memIndex \in Indexes /\ header \in Headers
  BY DEF OneFlow, ContainerTypeOK
<1>3. /\ memHeader' = header
      /\ Goes(t, [flow[t] EXCEPT !.at = "index", !.ix = memIndex, !.live = keyLive])
      /\ UNCHANGED <<blocks, header, vaultOpen, keyLive, memIndex, outcome, preCompact>>
  BY DEF RereadHeader, EncryptIndex
<1> DEFINE s == [flow[t] EXCEPT !.at = "index", !.ix = memIndex, !.live = keyLive]
<1>4. s \in FlowStates
  BY <1>1, <1>2 DEF FlowStates
<1>5. flow'[t] = s /\ flow' \in [Flows -> FlowStates]
  BY <1>3, <1>4, FlowGoes
<1>6. /\ s.at = "index" /\ s.op = "compact" /\ s.file = NoFile
      /\ s.ix = memIndex /\ s.live = TRUE
  BY <1>1, <1>2 DEF FlowStates
<1>7. ContainerTypeOK'
  BY <1>2, <1>3, <1>5 DEF ContainerTypeOK
<1>8. CrashSafe' /\ DiskMatchesOutcomes'
  BY <1>1, <1>3 DEF CrashSafe, DiskMatchesOutcomes
<1>9. MemOK'
  BY <1>3 DEF MemOK, HasRecord
<1>10. FlowShape(flow[t])' /\ FlowHolds(flow[t])'
  BY <1>1, <1>3, <1>5, <1>6, VaultContainerAssumption DEF FlowShape, FlowHolds
<1>11. ToldOK(flow[t])' /\ WindowOK(flow[t])'
  BY <1>1, <1>3, <1>5, <1>6 DEF ToldOK, WindowOK, checkCapacity
<1> QED BY <1>7, <1>8, <1>9, <1>10, <1>11

(* A call fails, outside the window of a compaction: in it the append is     *)
(* never refused.                                                            *)
LEMMA ContainerInvFails ==
  ASSUME NEW t, OneFlow(t), ContainerInv(t), CallFails(t)
  PROVE  ContainerInv(t)' /\ preCompact = NotCompacting
<1>1. preCompact = NotCompacting
  BY DEF ContainerInv, CallFails, MayFail, OneFlow, WindowOK, FlowShape
<1> QED BY <1>1, FlowCutOff DEF CallFails

(* The end of a session, with the drive as it is.                            *)
LEMMA ContainerInvForget ==
  ASSUME NEW t, OneFlow(t), ContainerInv(t), lock \/ reload
  PROVE  ContainerInv(t)' /\ preCompact = NotCompacting /\ vaultOpen' = FALSE
<1> USE DEF ContainerInv, diskVars
<1>1. /\ preCompact = NotCompacting /\ vaultOpen' = FALSE /\ keyLive' = FALSE
      /\ memIndex' = EmptyIndex /\ flow' = [u \in Flows |-> Idle]
      /\ UNCHANGED <<blocks, header, memHeader, outcome, preCompact>>
  <2>1. CASE lock
    <3>1. Quiet
      BY <2>1 DEF lock, OneFlow
    <3>2. flow = [u \in Flows |-> Idle]
      BY <3>1 DEF Quiet, ContainerTypeOK
    <3>3. flow[t].op # "compact"
      BY <3>1 DEF Quiet, OneFlow, Idle
    <3> QED BY <2>1, <3>1, <3>2, <3>3 DEF lock, WindowOK
  <2>2. CASE reload
    BY <2>2 DEF reload, MayFail, OneFlow
  <2> QED BY <2>1, <2>2
<1>2. flow'[t] = Idle /\ flow' \in [Flows -> FlowStates]
  BY <1>1, BuiltTypes DEF OneFlow
<1>3. ContainerTypeOK'
  BY <1>1, <1>2, BuiltTypes DEF ContainerTypeOK
<1>4. BlocksKept
  BY <1>1 DEF BlocksKept
<1>5. CrashSafe' /\ DiskMatchesOutcomes'
  BY <1>1, <1>4, DiskKept
<1>6. FilesOf(EmptyIndex) = {}
  BY DEF FilesOf, EmptyIndex
<1>7. MemOK'
  BY <1>1, <1>6 DEF MemOK, EmptyIndex, FilesOf
<1>8. FlowShape(flow[t])' /\ FlowHolds(flow[t])' /\ ToldOK(flow[t])' /\ WindowOK(flow[t])'
  BY <1>1, <1>2, VaultContainerAssumption DEF FlowShape, FlowHolds, ToldOK, WindowOK, Idle
<1> QED BY <1>1, <1>3, <1>5, <1>7, <1>8

(* Nothing happens to the container.                                         *)
LEMMA ContainerInvStutters ==
  ASSUME NEW t, ContainerInv(t), UNCHANGED ContainerVars
  PROVE  ContainerInv(t)'
<1> USE DEF ContainerInv, ContainerVars, diskVars, vaultVars
<1>1. ContainerTypeOK' /\ MemOK'
  BY DEF ContainerTypeOK, MemOK, HasRecord
<1>2. CrashSafe' /\ DiskMatchesOutcomes'
  BY DEF CrashSafe, DiskMatchesOutcomes, DiskFiles, Readable, IndexAt, HasRecord
<1>3. FlowShape(flow[t])' /\ FlowHolds(flow[t])' /\ ToldOK(flow[t])' /\ WindowOK(flow[t])'
  BY DEF FlowShape, FlowHolds, ToldOK, WindowOK, Readable, IndexAt, checkCapacity
<1> QED BY <1>1, <1>2, <1>3

(* Every step keeps the invariant.                                           *)
LEMMA ContainerInvStep ==
  ASSUME NEW t, OneFlow(t), ContainerInv(t), [ContainerNext]_ContainerVars
  PROVE  ContainerInv(t)'
<1>1. CASE \E u \in Flows :
              \/ Unlock(u) \/ UnlockReadHeader(u) \/ UnlockResetCounter(u) \/ UnlockOpen(u)
              \/ \E f \in Files : addFile(u, f) \/ removeFile(u, f)
              \/ AppendRecord(u) \/ AppendIndex(u) \/ WriteHeader(u)
              \/ compactVault(u) \/ RewriteVault(u) \/ RereadHeader(u)
              \/ CallFails(u)
  BY <1>1, ContainerInvUnlock, ContainerInvOpen, ContainerInvBegin, ContainerInvRecord,
     ContainerInvIndex, ContainerInvHeader, ContainerInvRewrite, ContainerInvReread,
     ContainerInvFails DEF OneFlow
<1>2. CASE lock \/ reload
  BY <1>2, ContainerInvForget
<1>3. CASE UNCHANGED ContainerVars
  BY <1>3, ContainerInvStutters
<1> QED BY <1>1, <1>2, <1>3 DEF ContainerNext

(* The invariant of the container holds throughout every behaviour with one  *)
(* flow.                                                                     *)
LEMMA ContainerInvariant ==
  ASSUME NEW t, OneFlow(t)
  PROVE  ContainerSpec => []ContainerInv(t)
<1>1. ContainerInit => ContainerInv(t)
  BY ContainerInvInit
<1>2. ContainerInv(t) /\ [ContainerNext]_ContainerVars => ContainerInv(t)'
  BY ContainerInvStep
<1> QED BY <1>1, <1>2, PTL DEF ContainerSpec

(* Wherever a flow, the page or the drive is cut off, the container can be   *)
(* unlocked again and each entry of its index leads to the record of its file.*)
THEOREM ContainerCrashSafe ==
  ASSUME NEW t, OneFlow(t)
  PROVE  ContainerSpec => []CrashSafe
<1>1. ContainerInv(t) => CrashSafe
  BY DEF ContainerInv
<1> QED BY <1>1, ContainerInvariant, PTL

(* The drive agrees with what callers were told, whatever failed since.      *)
THEOREM ContainerTellsTheTruth ==
  ASSUME NEW t, OneFlow(t)
  PROVE  ContainerSpec => []DiskMatchesOutcomes
<1>1. ContainerInv(t) => DiskMatchesOutcomes
  BY DEF ContainerInv
<1> QED BY <1>1, ContainerInvariant, PTL

-----------------------------------------------------------------------------
(* The container implements VaultContents.                                   *)

Held == IF preCompact = NotCompacting THEN DiskFiles ELSE preCompact[1]
Wanted == IF vaultOpen THEN FilesOf(memIndex) ELSE Held

(* Only the header changes what the drive holds.                             *)
LEMMA OnlyHeaderCommits ==
  ASSUME NEW t, OneFlow(t), ContainerInv(t), [ContainerNext]_ContainerVars, ~WriteHeader(t)
  PROVE  Held' = Held
<1> USE DEF ContainerInv, diskVars, vaultVars, ContainerVars
<1>1. ASSUME UNCHANGED <<blocks, header, preCompact>> PROVE Held' = Held
  BY <1>1 DEF Held, DiskFiles, Readable, IndexAt
<1>2. ASSUME BlocksKept, UNCHANGED <<header, outcome, preCompact>> PROVE Held' = Held
  <2>1. preCompact = NotCompacting => DiskFiles' = DiskFiles
    BY <1>2, DiskKept
  <2> QED BY <1>2, <2>1 DEF Held
<1>3. ASSUME NEW u \in Flows, UnlockResetCounter(u) PROVE Held' = Held
  <2>1. u = t
    BY DEF OneFlow
  <2>2. UNCHANGED <<blocks, header, preCompact>>
    BY <1>3, <2>1 DEF UnlockResetCounter, FlowHolds, _writeVaultHeaderImpl
  <2> QED BY <1>1, <2>2
<1>4. ASSUME NEW u \in Flows, AppendRecord(u) \/ AppendIndex(u) PROVE Held' = Held
  <2>1. blocks \in Seq(Blocks) /\ \E b : blocks' = Append(blocks, b)
    BY <1>4 DEF ContainerTypeOK, AppendRecord, AppendIndex, _appendBytesImpl
  <2>2. BlocksKept
    BY <2>1 DEF BlocksKept
  <2> QED BY <1>2, <1>4, <2>2 DEF AppendRecord, AppendIndex
<1>5. ASSUME NEW u \in Flows, RewriteVault(u) PROVE Held' = Held
  <2>1. preCompact = NotCompacting /\ preCompact' = <<DiskFiles>>
    BY <1>5, ContainerInvRewrite DEF OneFlow
  <2> QED BY <2>1 DEF Held, NotCompacting
<1>6. ASSUME NEW u \in Flows,
             \/ Unlock(u) \/ UnlockReadHeader(u) \/ UnlockOpen(u)
             \/ \E f \in Files : addFile(u, f) \/ removeFile(u, f)
             \/ compactVault(u) \/ RereadHeader(u) \/ CallFails(u)
      PROVE  Held' = Held
  BY <1>1, <1>6 DEF Unlock, UnlockReadHeader, UnlockOpen, addFile, removeFile, compactVault,
                    RereadHeader, CallFails
<1>7. CASE lock \/ reload \/ UNCHANGED ContainerVars
  BY <1>1, <1>7 DEF lock, reload
<1> QED BY <1>3, <1>4, <1>5, <1>6, <1>7 DEF ContainerNext, OneFlow

(* The drive changes its files by whole commits of what memory holds, and by *)
(* nothing else, through failures, reloads and compactions.                  *)
THEOREM ContainerImplements ==
  ASSUME NEW t, OneFlow(t)
  PROVE  ContainerSpec => ImplementsContents
<1>1. ASSUME ContainerInit PROVE Contents!CInit
  <2>1. DiskFiles = {} /\ preCompact = NotCompacting /\ ~vaultOpen
    BY <1>1, ContainerInvInit DEF ContainerInit
  <2> QED BY <2>1 DEF Contents!CInit
<1>2. ASSUME ContainerInv(t), ContainerInv(t)', [ContainerNext]_ContainerVars
      PROVE  [Contents!CNext]_(Contents!cvars)
  <2>1. Wanted' \in SUBSET Files
    <3>1. ContainerTypeOK'
      BY <1>2 DEF ContainerInv
    <3>2. FilesOf(memIndex') \in SUBSET Files /\ DiskFiles' \in SUBSET Files
      BY DEF FilesOf, DiskFiles
    <3>3. preCompact' # NotCompacting => preCompact'[1] \in SUBSET Files
      BY <3>1 DEF ContainerTypeOK
    <3> QED BY <3>2, <3>3 DEF Wanted, Held, FilesOf
  <2>2. CASE WriteHeader(t)
    <3>1. /\ preCompact' = NotCompacting /\ vaultOpen /\ DiskFiles' = FilesOf(memIndex)
          /\ vaultOpen' = vaultOpen /\ memIndex' = memIndex
      BY <1>2, <2>2, ContainerInvHeader DEF WriteHeader
    <3>2. FilesOf(memIndex)' = FilesOf(memIndex)
      BY <3>1 DEF FilesOf
    <3>3. Contents!Commit
      BY <3>1, <3>2 DEF Contents!Commit
    <3> QED BY <3>3 DEF Contents!CNext
  <2>3. CASE ~WriteHeader(t)
    <3>1. Held' = Held
      BY <1>2, <2>3, OnlyHeaderCommits
    <3>2. Contents!Want
      BY <2>1, <3>1 DEF Contents!Want, Held, Wanted
    <3> QED BY <3>2 DEF Contents!CNext
  <2> QED BY <2>2, <2>3
<1> QED BY <1>1, <1>2, ContainerInvariant, PTL DEF ContainerSpec, ImplementsContents
=============================================================================
