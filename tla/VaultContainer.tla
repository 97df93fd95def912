---------------------------- MODULE VaultContainer ----------------------------
(***************************************************************************)
(* The encrypted container VAULT.bin on a USB drive, from both sides:        *)
(* usbvault-app/src/services/vaultOrchestrator.ts, which keeps the decrypted *)
(* index of the unlocked vault and runs the flows that change the container, *)
(* and usb-companion/src/services/vaultContainerService.js, which performs   *)
(* one mutation of the file at a time (withVaultWriteLock).                  *)
(*                                                                          *)
(* The file is a header and a sequence of blocks; an offset is the position  *)
(* of a block.  A block is the record of a file or an encrypted index, which *)
(* maps files to offsets.  The header holds two index slots and says which   *)
(* is active.  A flow is a sequence of calls to the companion with an await  *)
(* at each: a call may fail, or take effect and its answer be lost, and the  *)
(* page may be reloaded between any two.  The unlock dialog is modal: no     *)
(* other flow runs beside an unlock.                                         *)
(*                                                                          *)
(* A write of the header happens as a whole or not at all.  The code         *)
(* overwrites its 24 KiB in place: a drive pulled out in the middle of that  *)
(* write may keep a header of which a part is new, which is left out.        *)
(***************************************************************************)
EXTENDS Naturals, SequencesExt

CONSTANTS
    Files,          \* file ids
    NoFile,         \* no file id
    Flows,          \* flows that may be in progress at once
    CapBlocks,      \* blocks the 50% rule allows, the header aside
    CompactBreaks,  \* whether a fault may strike between the rename and the commit of a compaction
    LockInFlow      \* whether lock() may be called while a flow is in progress

ASSUME VaultContainerAssumption ==
    /\ IsFiniteSet(Files) /\ NoFile \notin Files /\ CapBlocks \in Nat /\ CapBlocks >= 2
    /\ {CompactBreaks, LockInFlow} \subseteq BOOLEAN

VARIABLES
    blocks,      \* the blocks of VAULT.bin after the header
    header,      \* the header on the drive
    vaultOpen,   \* activeVault # null
    keyLive,     \* the session keys of the vault object are not zeroed
    memIndex,    \* activeVault.index
    memHeader,   \* activeVault.headerBytes
    flow,        \* the flows in progress
    outcome,     \* history: per file, what its last flow told the caller
    preCompact   \* history: the files held when VAULT.bin was compacted, until the next commit

diskVars == <<blocks, header>>
vaultVars == <<vaultOpen, keyLive, memIndex, memHeader>>
ContainerVars == <<diskVars, vaultVars, flow, outcome, preCompact>>

Absent == 0
Offsets == 0..CapBlocks
Indexes == [Files -> Offsets]
Headers == [active : {0, 1}, ptr : [{0, 1} -> Offsets]]
NotCompacting == <<>>

EmptyIndex == [f \in Files |-> Absent]
FilesOf(x) == {f \in Files : x[f] # Absent}
Record(f) == [kind |-> "record", file |-> f, index |-> EmptyIndex]
Index(x, live) == [kind |-> IF live THEN "index" ELSE "garbage", file |-> NoFile, index |-> x]
Blocks == [kind : {"record", "index", "garbage"}, file : Files \cup {NoFile}, index : Indexes]

(* commitVaultIndex: the other slot gets the new index and becomes active.   *)
commitVaultIndex(h, off) ==
    [active |-> 1 - h.active, ptr |-> [h.ptr EXCEPT ![1 - h.active] = off]]

(* provision has appended the empty index twice and committed the first.     *)
FreshHeader == [active |-> 1, ptr |-> [s \in {0, 1} |-> IF s = 1 THEN 1 ELSE Absent]]

(* A flow: what it does, the call it waits for, its file, the header it has  *)
(* read or will write, the index it has encrypted or sent, whether under     *)
(* live keys.                                                                *)
Idle == [op |-> "none", at |-> "idle", file |-> NoFile, hdr |-> FreshHeader,
         ix |-> EmptyIndex, live |-> TRUE]
FlowStates ==
    [op : {"none", "unlock", "add", "remove", "compact"},
     at : {"idle", "read", "reset", "open", "record", "rewrite", "reread", "index", "header"},
     file : Files \cup {NoFile}, hdr : Headers, ix : Indexes, live : BOOLEAN]

(* The type invariant.                                                       *)
ContainerTypeOK ==
    /\ blocks \in Seq(Blocks) /\ Len(blocks) <= CapBlocks
    /\ header \in Headers /\ memHeader \in Headers
    /\ {vaultOpen, keyLive} \subseteq BOOLEAN
    /\ memIndex \in Indexes
    /\ flow \in [Flows -> FlowStates]
    /\ outcome \in [Files -> {"unsure", "in", "out"}]
    /\ preCompact = NotCompacting \/ preCompact \in {<<s>> : s \in SUBSET Files}

ContainerInit ==
    /\ blocks = <<Index(EmptyIndex, TRUE), Index(EmptyIndex, TRUE)>>
    /\ header = FreshHeader /\ memHeader = FreshHeader
    /\ vaultOpen = FALSE /\ keyLive = FALSE
    /\ memIndex = EmptyIndex
    /\ flow = [t \in Flows |-> Idle]
    /\ outcome = [f \in Files |-> "out"]
    /\ preCompact = NotCompacting

Quiet == \A t \in Flows : flow[t] = Idle
MayStart(t) == flow[t] = Idle /\ \A u \in Flows : flow[u].op # "unlock"
MayFail == CompactBreaks \/ preCompact = NotCompacting

Goes(t, s) == flow' = [flow EXCEPT ![t] = s]

-----------------------------------------------------------------------------
(* The companion's calls.                                                    *)

(* The 50% rule.                                                             *)
checkCapacity == Len(blocks) < CapBlocks

_appendBytesImpl(b) == checkCapacity /\ blocks' = Append(blocks, b)

_writeVaultHeaderImpl(h) == header' = h

-----------------------------------------------------------------------------
(* What a reader of the drive finds.                                         *)

Readable(h) ==
    LET p == h.ptr[h.active] IN p \in 1..Len(blocks) /\ blocks[p].kind = "index"

IndexAt(h) == blocks[h.ptr[h.active]].index

DiskFiles == IF Readable(header) THEN FilesOf(IndexAt(header)) ELSE {}

HasRecord(f, off) == off \in 1..Len(blocks) /\ blocks[off] = Record(f)

-----------------------------------------------------------------------------
(* Unlock: read the header; check the password, reset the fail counter in    *)
(* the header that was read and write it back; read the active index.        *)

Unlock(t) ==
    /\ Quiet
    /\ Goes(t, [Idle EXCEPT !.op = "unlock", !.at = "read"])
    /\ UNCHANGED <<diskVars, vaultVars, outcome, preCompact>>

(* A wrong password ends the flow here, without a write.                     *)
UnlockReadHeader(t) ==
    /\ flow[t].op = "unlock" /\ flow[t].at = "read"
    /\ \/ Goes(t, [flow[t] EXCEPT !.at = "reset", !.hdr = header])
       \/ Goes(t, Idle)
    /\ UNCHANGED <<diskVars, vaultVars, outcome, preCompact>>

UnlockResetCounter(t) ==
    /\ flow[t].at = "reset"
    /\ _writeVaultHeaderImpl(flow[t].hdr)
    /\ Goes(t, [flow[t] EXCEPT !.at = "open"])
    /\ UNCHANGED <<blocks, vaultVars, outcome, preCompact>>

UnlockOpen(t) ==
    /\ flow[t].at = "open"
    /\ \/ /\ Readable(flow[t].hdr)
          /\ vaultOpen' = TRUE /\ keyLive' = TRUE
          /\ memIndex' = IndexAt(flow[t].hdr) /\ memHeader' = flow[t].hdr
       \/ /\ ~Readable(flow[t].hdr)
          /\ UNCHANGED vaultVars
    /\ Goes(t, Idle)
    /\ UNCHANGED <<diskVars, outcome, preCompact>>

-----------------------------------------------------------------------------
(* The flows that change the container.                                      *)

(* addFile, after the capacity check has allowed the record.                 *)
addFile(t, f) ==
    /\ vaultOpen /\ MayStart(t) /\ checkCapacity
    /\ Goes(t, [Idle EXCEPT !.op = "add", !.at = "record", !.file = f])
    /\ outcome' = [outcome EXCEPT ![f] = "unsure"]
    /\ UNCHANGED <<diskVars, vaultVars, preCompact>>

(* The encryption of the index as it stands, before it is appended.          *)
EncryptIndex(t, x) ==
    Goes(t, [flow[t] EXCEPT !.at = "index", !.ix = x, !.live = keyLive])

(* The record is appended; the file joins the index in memory.               *)
AppendRecord(t) ==
    LET f == flow[t].file IN
    /\ flow[t].at = "record"
    /\ _appendBytesImpl(IF keyLive THEN Record(f) ELSE Index(EmptyIndex, FALSE))
    /\ \/ /\ memIndex' = [memIndex EXCEPT ![f] = Len(blocks')]
          /\ EncryptIndex(t, memIndex')
       \/ /\ MayFail /\ Goes(t, Idle)
          /\ UNCHANGED memIndex
    /\ UNCHANGED <<header, vaultOpen, keyLive, memHeader, outcome, preCompact>>

(* Slip: the index is encrypted before the file is taken out of it.          *)
removeFileLate(t, f) ==
    /\ vaultOpen /\ MayStart(t) /\ memIndex[f] # Absent
    /\ memIndex' = [memIndex EXCEPT ![f] = Absent]
    /\ flow' = [flow EXCEPT ![t] = [Idle EXCEPT !.op = "remove", !.at = "index", !.file = f,
                                                !.ix = memIndex, !.live = keyLive]]
    /\ outcome' = [outcome EXCEPT ![f] = "unsure"]
    /\ UNCHANGED <<diskVars, vaultOpen, keyLive, memHeader, preCompact>>

(* removeFile deletes from the index in memory first.                        *)
removeFile(t, f) ==
    /\ vaultOpen /\ MayStart(t) /\ memIndex[f] # Absent
    /\ memIndex' = [memIndex EXCEPT ![f] = Absent]
    /\ flow' = [flow EXCEPT ![t] = [Idle EXCEPT !.op = "remove", !.at = "index", !.file = f,
                                                !.ix = memIndex', !.live = keyLive]]
    /\ outcome' = [outcome EXCEPT ![f] = "unsure"]
    /\ UNCHANGED <<diskVars, vaultOpen, keyLive, memHeader, preCompact>>

compactVault(t) ==
    /\ vaultOpen /\ MayStart(t)
    /\ Goes(t, [Idle EXCEPT !.op = "compact", !.at = "rewrite", !.ix = memIndex])
    /\ UNCHANGED <<diskVars, vaultVars, outcome, preCompact>>

(* _compactVaultImpl: only the records of the given files stay, in a file    *)
(* that replaces VAULT.bin by a rename.  The header is copied as it is: both *)
(* of its pointers now point nowhere.                                        *)
Compacted(x, order) ==
    [bl |-> [i \in 1..Len(order) |-> blocks[x[order[i]]]],
     at |-> [f \in Files |-> IF f \in Range(order) THEN CHOOSE i \in 1..Len(order) : order[i] = f
                             ELSE Absent]]

RewriteVault(t) ==
    LET x == flow[t].ix
        new == Compacted(x, SetToSeq({f \in Files : x[f] \in 1..Len(blocks)}))
    IN
    /\ flow[t].at = "rewrite"
    /\ blocks' = new.bl
    /\ preCompact' = IF preCompact = NotCompacting THEN <<DiskFiles>> ELSE preCompact
    /\ \/ /\ memIndex' = [f \in Files |-> IF memIndex[f] # Absent THEN new.at[f] ELSE Absent]
          /\ Goes(t, [flow[t] EXCEPT !.at = "reread"])
       \/ /\ CompactBreaks /\ Goes(t, Idle)
          /\ UNCHANGED memIndex
    /\ UNCHANGED <<header, vaultOpen, keyLive, memHeader, outcome>>

RereadHeader(t) ==
    /\ flow[t].at = "reread"
    /\ memHeader' = header
    /\ EncryptIndex(t, memIndex)
    /\ UNCHANGED <<diskVars, vaultOpen, keyLive, memIndex, outcome, preCompact>>

(* Slip: the index is appended without a look at the 50% rule.               *)
AppendIndexUnchecked(t) ==
    /\ flow[t].at = "index"
    /\ blocks' = Append(blocks, Index(flow[t].ix, flow[t].live))
    /\ Goes(t, [flow[t] EXCEPT !.at = "header",
                               !.hdr = commitVaultIndex(memHeader, Len(blocks'))])
    /\ UNCHANGED <<header, vaultVars, outcome, preCompact>>

(* Slip: the new index replaces the block of the active one.                 *)
AppendIndexInPlace(t) ==
    LET p == header.ptr[header.active] IN
    /\ flow[t].at = "index"
    /\ blocks' = [blocks EXCEPT ![p] = Index(flow[t].ix, flow[t].live)]
    /\ Goes(t, [flow[t] EXCEPT !.at = "header", !.hdr = commitVaultIndex(memHeader, p)])
    /\ UNCHANGED <<header, vaultVars, outcome, preCompact>>

(* The encrypted index is appended and the header that will point to it made *)
(* from the cached one.                                                      *)
AppendIndex(t) ==
    /\ flow[t].at = "index"
    /\ _appendBytesImpl(Index(flow[t].ix, flow[t].live))
    /\ \/ Goes(t, [flow[t] EXCEPT !.at = "header",
                                  !.hdr = commitVaultIndex(memHeader, Len(blocks'))])
       \/ MayFail /\ Goes(t, Idle)
    /\ UNCHANGED <<header, vaultVars, outcome, preCompact>>

(* Slip: the slot that was active stays active.                              *)
WriteHeaderSameSlot(t) ==
    LET fl == flow[t] IN
    /\ fl.at = "header"
    /\ header' = [fl.hdr EXCEPT !.active = 1 - @]
    /\ preCompact' = NotCompacting
    /\ memHeader' = header'
    /\ outcome' = [f \in Files |-> IF f # fl.file THEN outcome[f]
                                   ELSE IF fl.op = "add" THEN "in" ELSE "out"]
    /\ Goes(t, Idle)
    /\ UNCHANGED <<blocks, vaultOpen, keyLive, memIndex>>

(* _writeVaultHeaderImpl, the commit.  The caller learns of it, and the      *)
(* cached header follows, when the answer arrives.                           *)
WriteHeader(t) ==
    LET fl == flow[t] IN
    /\ fl.at = "header"
    /\ _writeVaultHeaderImpl(fl.hdr)
    /\ preCompact' = NotCompacting
    /\ \/ /\ memHeader' = fl.hdr
          /\ outcome' = [f \in Files |-> IF f # fl.file THEN outcome[f]
                                         ELSE IF fl.op = "add" THEN "in" ELSE "out"]
       \/ UNCHANGED <<memHeader, outcome>>
    /\ Goes(t, Idle)
    /\ UNCHANGED <<blocks, vaultOpen, keyLive, memIndex>>

(* A call fails without effect: the drive is gone, or the 50% rule refuses   *)
(* an append.  The flow rejects; the index in memory stays as it is.         *)
CallFails(t) ==
    /\ flow[t] # Idle
    /\ MayFail \/ (flow[t].at \in {"record", "index"} /\ ~checkCapacity)
    /\ Goes(t, Idle)
    /\ UNCHANGED <<diskVars, vaultVars, outcome, preCompact>>

-----------------------------------------------------------------------------
(* lock zeroes the keys in place; a flow in progress keeps its reference.    *)
lock ==
    /\ vaultOpen /\ (LockInFlow \/ Quiet)
    /\ vaultOpen' = FALSE /\ keyLive' = FALSE
    /\ memIndex' = IF Quiet THEN EmptyIndex ELSE memIndex
    /\ UNCHANGED <<diskVars, memHeader, flow, outcome, preCompact>>

(* The page is closed or reloaded.                                           *)
reload ==
    /\ vaultOpen \/ ~Quiet
    /\ MayFail
    /\ vaultOpen' = FALSE /\ keyLive' = FALSE /\ memIndex' = EmptyIndex
    /\ flow' = [t \in Flows |-> Idle]
    /\ UNCHANGED <<diskVars, memHeader, outcome, preCompact>>

ContainerNext ==
    \/ \E t \in Flows :
          \/ Unlock(t) \/ UnlockReadHeader(t) \/ UnlockResetCounter(t) \/ UnlockOpen(t)
          \/ \E f \in Files : addFile(t, f) \/ removeFile(t, f)
          \/ AppendRecord(t) \/ AppendIndex(t) \/ WriteHeader(t)
          \/ compactVault(t) \/ RewriteVault(t) \/ RereadHeader(t)
          \/ CallFails(t)
    \/ lock \/ reload

ContainerSpec == ContainerInit /\ [][ContainerNext]_ContainerVars

-----------------------------------------------------------------------------
(* Wherever a flow is cut off, the drive can be unlocked again: the active   *)
(* slot of the header points to a readable index, and each of its entries to *)
(* the record of its file, the window of a compaction aside.                 *)
CrashSafe ==
    preCompact = NotCompacting =>
        /\ Readable(header)
        /\ \A f \in DiskFiles : HasRecord(f, IndexAt(header)[f])

(* "Use a write-then-rename pattern for atomicity" (_compactVaultImpl): a    *)
(* reader finds the old container or the new one, at every moment.           *)
AlwaysReadable == Readable(header)

(* The drive agrees with what the callers were told last: a file whose       *)
(* addition was confirmed is there, one whose removal was confirmed is not,  *)
(* whatever other flows failed since.                                        *)
DiskMatchesOutcomes ==
    preCompact = NotCompacting =>
        \A f \in Files : /\ outcome[f] = "in" => f \in DiskFiles
                         /\ outcome[f] = "out" => f \notin DiskFiles

(* The drive changes its files by whole commits of what memory holds, and by *)
(* nothing else: the container implements VaultContents.  During a           *)
(* compaction the contents are those of before it.                           *)
Contents == INSTANCE VaultContents WITH
    contents <- IF preCompact = NotCompacting THEN DiskFiles ELSE preCompact[1],
    wanted <- IF vaultOpen THEN FilesOf(memIndex)
              ELSE IF preCompact = NotCompacting THEN DiskFiles ELSE preCompact[1]

ImplementsContents == Contents!CInit /\ [][Contents!CNext]_(Contents!cvars)
=============================================================================
