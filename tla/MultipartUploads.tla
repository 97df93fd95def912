-------------------------- MODULE MultipartUploads --------------------------
(***************************************************************************)
(* The tracking of one resumable multipart upload: the row and parts in      *)
(* PostgreSQL, the write-through cache of every server process, the state of *)
(* the upload in S3, the sweeps that end abandoned uploads                   *)
(* (usbvault-server/internal/storage/multipart.go and multipart_store.go,    *)
(* internal/gc/multipart_cleanup.go).                                        *)
(*                                                                          *)
(* Every call to PostgreSQL or S3 is a step of its own; work on the cache    *)
(* under MultipartService.mu is atomic with the lookup before it, as no I/O  *)
(* lies between.  A part is its number: ETags and sizes are left out, and    *)
(* the outcome of the size and quota checks is a choice (ObjectStorage       *)
(* models them).  The client reports a part only after its PUT.              *)
(***************************************************************************)
EXTENDS Integers, FiniteSets

CONSTANTS
    Instances,  \* server processes
    Requests,   \* handler slots, reused
    Parts,      \* part numbers
    MaxFaults,  \* bound on restarts and on failed calls
    None        \* no cached entry, no part, no process

ASSUME MultipartAssumption ==
    /\ MaxFaults \in Nat
    /\ None \notin Instances /\ None \notin Parts /\ \A S \in SUBSET Parts : S # None

VARIABLES
    s3,       \* the upload in S3
    objectParts, \* the parts of the assembled object
    row,      \* the row of multipart_uploads exists
    parts,    \* its multipart_upload_parts
    cache,    \* ms.uploads of each process: the parts of its entry, or None
    known,    \* the client has been told the upload id
    acked,    \* parts whose report was answered with success
    req,      \* the handlers
    sweep,    \* cleanupExpiredOnce of each process
    expired,  \* UploadExpiryTTL, and the GC job's maxAge, have passed
    faults

durable == <<s3, objectParts, row, parts>>
uploadVars == <<s3, objectParts, row, parts, cache, known, acked, req, sweep, expired, faults>>

Quiet == [pc |-> "idle", at |-> None, part |-> None, list |-> {}, need |-> {}]

(* The type invariant; a part is on record only under its row.               *)
UploadTypeOK ==
    /\ s3 \in {"none", "open", "assembled", "aborted"}
    /\ objectParts \subseteq Parts
    /\ row \in BOOLEAN /\ parts \subseteq Parts /\ (~row => parts = {})
    /\ cache \in [Instances -> (SUBSET Parts) \cup {None}]
    /\ known \in BOOLEAN /\ acked \subseteq Parts
    /\ req \in [Requests ->
         [pc : {"idle", "insert", "unwind", "store", "part", "fillPart", "upsert",
                "final", "fillFinal", "complete", "enforce", "abort", "fillAbort",
                "abortS3", "forget"},
          at : Instances \cup {None}, part : Parts \cup {None},
          list : SUBSET Parts, need : SUBSET Parts]]
    /\ sweep \in [Instances -> {"idle", "abort", "delete", "evict"}]
    /\ expired \in BOOLEAN /\ faults \in 0..MaxFaults

UploadInit ==
    /\ s3 = "none" /\ objectParts = {} /\ row = FALSE /\ parts = {}
    /\ cache = [i \in Instances |-> None]
    /\ known = FALSE /\ acked = {}
    /\ req = [r \in Requests |-> Quiet]
    /\ sweep = [i \in Instances |-> "idle"]
    /\ expired = FALSE /\ faults = 0

-----------------------------------------------------------------------------
UploadGoto(r, l) == req' = [req EXCEPT ![r].pc = l]
Return(r) == req' = [req EXCEPT ![r] = Quiet]
Fault == faults < MaxFaults /\ faults' = faults + 1
Evict(i) == cache' = [cache EXCEPT ![i] = None]
DeleteRow == row' = FALSE /\ parts' = {}
At(r) == req[r].at

(* InitiateUpload: CreateMultipartUpload, the row, the cache entry.          *)
InitiateUpload(r, i) ==
    /\ s3 = "none" /\ req[r].pc = "idle"
    /\ s3' = "open"
    /\ req' = [req EXCEPT ![r] = [Quiet EXCEPT !.pc = "insert", !.at = i]]
    /\ UNCHANGED <<objectParts, row, parts, cache, known, acked, sweep, expired, faults>>

InitiateInsert(r) ==
    /\ req[r].pc = "insert"
    /\ \/ row' = TRUE /\ UploadGoto(r, "store") /\ UNCHANGED faults
       \/ Fault /\ UploadGoto(r, "unwind") /\ UNCHANGED row
    /\ UNCHANGED <<s3, objectParts, parts, cache, known, acked, sweep, expired>>

(* The abort after a failed INSERT is best effort.                           *)
InitiateUnwind(r) ==
    /\ req[r].pc = "unwind"
    /\ \/ s3' = "aborted" /\ UNCHANGED faults
       \/ Fault /\ UNCHANGED s3
    /\ Return(r)
    /\ UNCHANGED <<objectParts, row, parts, cache, known, acked, sweep, expired>>

InitiateStore(r) ==
    /\ req[r].pc = "store"
    /\ cache' = [cache EXCEPT ![At(r)] = {}]
    /\ known' = TRUE
    /\ Return(r)
    /\ UNCHANGED <<durable, acked, sweep, expired, faults>>

-----------------------------------------------------------------------------
(* A request for the upload arrives at process i: a report of part p, the    *)
(* finalization or the cancellation.  need is what had been answered by then.*)
Request(r, i, l, p) ==
    /\ known /\ req[r].pc = "idle"
    /\ req' = [req EXCEPT ![r] = [pc |-> l, at |-> i, part |-> p,
                                  list |-> {}, need |-> acked]]
    /\ UNCHANGED <<durable, cache, known, acked, sweep, expired, faults>>

ReportPart(r, i) == \E p \in Parts : Request(r, i, "part", p)
RequestFinal(r, i) == Request(r, i, "final", None)
RequestAbort(r, i) == Request(r, i, "abort", None)

(* Slip: the process answers with an empty entry of its own on a miss.       *)
loadMissEmpty(r, l) ==
    /\ cache[At(r)] = None
    /\ req' = [req EXCEPT ![r].pc = l, ![r].list = {}]
    /\ UNCHANGED faults

(* loadUpload on a cache miss: the row is read, or there is none.            *)
loadMiss(r, l) ==
    /\ cache[At(r)] = None
    /\ \/ row /\ req' = [req EXCEPT ![r].pc = l, ![r].list = parts] /\ UNCHANGED faults
       \/ ~row /\ Return(r) /\ UNCHANGED faults
       \/ row /\ Fault /\ Return(r)

(* Its end: an entry that appeared meanwhile is preferred.                   *)
Filled(r) == IF cache[At(r)] # None THEN cache[At(r)] ELSE req[r].list

LoadMisses(r) ==
    /\ \/ req[r].pc = "part" /\ loadMiss(r, "fillPart")
       \/ req[r].pc = "final" /\ loadMiss(r, "fillFinal")
       \/ req[r].pc = "abort" /\ loadMiss(r, "fillAbort")
    /\ UNCHANGED <<durable, cache, known, acked, sweep, expired>>

(* The entry is at hand: from the cache, or filled from what was read.       *)
Loaded(r, hit, fill) ==
    \/ req[r].pc = hit /\ cache[At(r)] # None
    \/ req[r].pc = fill

(* CompletePart: in the cache first, then in the store.                      *)
CompletePart(r) ==
    /\ Loaded(r, "part", "fillPart")
    /\ cache' = [cache EXCEPT ![At(r)] = Filled(r) \cup {req[r].part}]
    /\ UploadGoto(r, "upsert")
    /\ UNCHANGED <<durable, known, acked, sweep, expired, faults>>

(* Slip: the part is stored without its upload, as if there were no foreign  *)
(* key.                                                                      *)
UpsertOrphan(r) ==
    /\ req[r].pc = "upsert"
    /\ parts' = parts \cup {req[r].part} /\ acked' = acked \cup {req[r].part}
    /\ Return(r)
    /\ UNCHANGED <<s3, objectParts, row, cache, known, sweep, expired, faults>>

(* UpsertPart.  Without the row the foreign key refuses the part; the second *)
(* statement may fail after the first has been committed.                    *)
UpsertPart(r) ==
    /\ req[r].pc = "upsert"
    /\ LET p == req[r].part
       IN \/ row /\ parts' = parts \cup {p} /\ acked' = acked \cup {p} /\ UNCHANGED faults
          \/ ~row /\ UNCHANGED <<parts, acked, faults>>
          \/ row /\ Fault /\ parts' \in {parts, parts \cup {p}} /\ UNCHANGED acked
    /\ Return(r)
    /\ UNCHANGED <<s3, objectParts, row, cache, known, sweep, expired>>

(* FinalizeUpload: the parts of the cached entry go to S3.                   *)
FinalizeUpload(r) ==
    /\ Loaded(r, "final", "fillFinal")
    /\ cache' = [cache EXCEPT ![At(r)] = Filled(r)]
    /\ req' = [req EXCEPT ![r].pc = "complete", ![r].list = Filled(r)]
    /\ UNCHANGED <<durable, known, acked, sweep, expired, faults>>

(* CompleteMultipartUpload takes any nonempty list of uploaded parts; it     *)
(* fails once the upload is no longer open.                                  *)
CompleteMultipart(r) ==
    /\ req[r].pc = "complete"
    /\ \/ s3 = "open" /\ req[r].list # {}
          /\ s3' = "assembled" /\ objectParts' = req[r].list /\ UploadGoto(r, "enforce")
          /\ UNCHANGED faults
       \/ (s3 # "open" \/ req[r].list = {})
          /\ Return(r) /\ UNCHANGED <<s3, objectParts, faults>>
       \/ Fault /\ Return(r) /\ UNCHANGED <<s3, objectParts>>
    /\ UNCHANGED <<row, parts, cache, known, acked, sweep, expired>>

(* The object is accepted, or deleted as over a limit.                       *)
Enforce(r) ==
    /\ req[r].pc = "enforce"
    /\ objectParts' \in {objectParts, {}}
    /\ Evict(At(r))
    /\ UploadGoto(r, "forget")
    /\ UNCHANGED <<s3, row, parts, known, acked, sweep, expired, faults>>

(* AbortUpload.                                                              *)
AbortUpload(r) ==
    /\ Loaded(r, "abort", "fillAbort")
    /\ cache' = [cache EXCEPT ![At(r)] = Filled(r)]
    /\ UploadGoto(r, "abortS3")
    /\ UNCHANGED <<durable, known, acked, sweep, expired, faults>>

AbortMultipart(r) ==
    /\ req[r].pc = "abortS3"
    /\ \/ s3 = "open" /\ s3' = "aborted" /\ Evict(At(r)) /\ UploadGoto(r, "forget")
          /\ UNCHANGED faults
       \/ s3 # "open" /\ Return(r) /\ UNCHANGED <<s3, cache, faults>>
       \/ Fault /\ Return(r) /\ UNCHANGED <<s3, cache>>
    /\ UNCHANGED <<objectParts, row, parts, known, acked, sweep, expired>>

(* store.Delete at the end of a finalization or an abort; a failure is       *)
(* logged.                                                                   *)
StoreDelete(r) ==
    /\ req[r].pc = "forget"
    /\ \/ DeleteRow /\ UNCHANGED faults
       \/ Fault /\ UNCHANGED <<row, parts>>
    /\ Return(r)
    /\ UNCHANGED <<s3, objectParts, cache, known, acked, sweep, expired>>

-----------------------------------------------------------------------------
(* Time and the sweeps.                                                      *)

Expire ==
    /\ s3 # "none" /\ ~expired
    /\ expired' = TRUE
    /\ UNCHANGED <<durable, cache, known, acked, req, sweep, faults>>

SweepTo(i, l) == sweep' = [sweep EXCEPT ![i] = l]

(* cleanupExpiredOnce: ListExpired, then for the upload abort, delete the    *)
(* row, drop this process's entry; each is best effort.                      *)
CleanupList(i) ==
    /\ sweep[i] = "idle" /\ row /\ expired
    /\ SweepTo(i, "abort")
    /\ UNCHANGED <<durable, cache, known, acked, req, expired, faults>>

CleanupAbort(i) ==
    /\ sweep[i] = "abort"
    /\ \/ s3 = "open" /\ s3' = "aborted" /\ UNCHANGED faults
       \/ s3 # "open" /\ UNCHANGED <<s3, faults>>
       \/ Fault /\ UNCHANGED s3
    /\ SweepTo(i, "delete")
    /\ UNCHANGED <<objectParts, row, parts, cache, known, acked, req, expired>>

CleanupDelete(i) ==
    /\ sweep[i] = "delete"
    /\ \/ DeleteRow /\ UNCHANGED faults
       \/ Fault /\ UNCHANGED <<row, parts>>
    /\ SweepTo(i, "evict")
    /\ UNCHANGED <<s3, objectParts, cache, known, acked, req, expired>>

CleanupEvict(i) ==
    /\ sweep[i] = "evict"
    /\ Evict(i) /\ SweepTo(i, "idle")
    /\ UNCHANGED <<durable, known, acked, req, expired, faults>>

(* Slip: the job aborts only uploads that are still tracked.                 *)
MultipartCleanupTracked ==
    /\ expired /\ s3 = "open" /\ row
    /\ s3' = "aborted"
    /\ UNCHANGED <<objectParts, row, parts, cache, known, acked, req, sweep, expired, faults>>

(* MultipartCleanupJob of the GC leader asks S3 alone.                       *)
MultipartCleanupJob ==
    /\ expired /\ s3 = "open"
    /\ s3' = "aborted"
    /\ UNCHANGED <<objectParts, row, parts, cache, known, acked, req, sweep, expired, faults>>

(* A process restarts: its cache, its handlers and its sweep are gone.       *)
Restart(i) ==
    /\ Fault
    /\ Evict(i) /\ SweepTo(i, "idle")
    /\ req' = [r \in Requests |-> IF At(r) = i THEN Quiet ELSE req[r]]
    /\ UNCHANGED <<durable, known, acked, expired>>

-----------------------------------------------------------------------------
Handler(r) ==
    \/ InitiateInsert(r) \/ InitiateUnwind(r) \/ InitiateStore(r)
    \/ LoadMisses(r) \/ CompletePart(r) \/ UpsertPart(r)
    \/ FinalizeUpload(r) \/ CompleteMultipart(r) \/ Enforce(r)
    \/ AbortUpload(r) \/ AbortMultipart(r) \/ StoreDelete(r)

Client(r, i) ==
    \/ InitiateUpload(r, i) \/ ReportPart(r, i)
    \/ RequestFinal(r, i) \/ RequestAbort(r, i)

Cleanup(i) == CleanupList(i) \/ CleanupAbort(i) \/ CleanupDelete(i) \/ CleanupEvict(i)

UploadNext ==
    \/ \E r \in Requests : Handler(r) \/ \E i \in Instances : Client(r, i)
    \/ \E i \in Instances : Cleanup(i) \/ Restart(i)
    \/ Expire \/ MultipartCleanupJob

UploadSpec == UploadInit /\ [][UploadNext]_uploadVars

(* The hourly ticker of every process and the GC scheduler keep running,     *)
(* time passes, and a handler that has started is scheduled.                 *)
UploadFairness ==
    /\ WF_uploadVars(Expire) /\ WF_uploadVars(MultipartCleanupJob)
    /\ \A i \in Instances : WF_uploadVars(Cleanup(i))
    /\ \A r \in Requests : WF_uploadVars(Handler(r))

UploadFairSpec == UploadSpec /\ UploadFairness

-----------------------------------------------------------------------------
(* An assembled object holds every part whose report had been answered with  *)
(* success before its finalization was requested.  This is what the package  *)
(* comment promises (resume survives restarts and works across replicas): a  *)
(* finalization reads the cache, so the cache may never miss an answered     *)
(* part.                                                                     *)
AckedPartsAssembled ==
    \A r \in Requests : req[r].pc = "enforce" => req[r].need \subseteq objectParts

(* The same for an upload within its 24 hours, which is as far as a single    *)
(* process goes: after that a sweep whose abort and DELETE have both failed   *)
(* still drops the cache entry, and a handler may refill it from before a     *)
(* part that is being stored.                                                *)
ResumeKeepsParts == ~expired => AckedPartsAssembled

(* Whatever fails on the way (the INSERT, the abort after it, a process      *)
(* between two steps, the deletion of the row), S3 does not keep the upload  *)
(* open and PostgreSQL does not keep its row.                                *)
UploadEnds == (s3 = "open") ~> (s3 # "open" /\ ~row)
=============================================================================
