----------------------------- MODULE ObjectsProofs -----------------------------
(***************************************************************************)
(* Proofs about ObjectStorage and MultipartUploads, for any sets of keys,    *)
(* uploads, handlers and parts, any sizes, limits and numbers of faults.     *)
(***************************************************************************)
EXTENDS MCObjects, FiniteSetTheorems, TLAPS

-----------------------------------------------------------------------------
(* The types of the object storage.                                          *)

Scans == [page : SUBSET BlobKeys, listed : SUBSET BlobKeys, deleted : Nat, on : BOOLEAN]
StorageTypes == StorageTypeOK /\ scan \in Scans

(* The types hold at the start, with no object in place.                     *)
LEMMA StorageTypesInit == StorageInit => StorageTypes
<1> SUFFICES ASSUME StorageInit PROVE StorageTypes
  OBVIOUS
<1>1. NoScan \in Scans
  BY DEF NoScan, Scans
<1> QED BY <1>1 DEF StorageInit, StorageTypes, StorageTypeOK, Scans

(* An object is written, or removed; an object that is there has a size.     *)
LEMMA PutTypes ==
  ASSUME StorageTypeOK, NEW k, NEW by, NEW n, Put(k, by, n),
         \/ by = NoObject /\ n = 0
         \/ by \in Uploads \cup {"put"} /\ n \in Sizes
  PROVE  /\ object' \in [ObjectKeys -> Uploads \cup {"put", NoObject}]
         /\ size' \in [ObjectKeys -> Sizes \cup {0}]
         /\ \A j \in ObjectKeys : object'[j] = NoObject <=> size'[j] = 0
<1>1. by = NoObject <=> n = 0
  BY SizesAssumption, KeysAssumption
<1>2. /\ object' \in [ObjectKeys -> Uploads \cup {"put", NoObject}]
      /\ size' \in [ObjectKeys -> Sizes \cup {0}]
  BY DEF Put, StorageTypeOK
<1>3. ASSUME NEW j \in ObjectKeys PROVE object'[j] = NoObject <=> size'[j] = 0
  <2>1. CASE j = k
    BY <1>1, <2>1 DEF Put, StorageTypeOK
  <2>2. CASE j # k
    BY <2>2 DEF Put, StorageTypeOK
  <2> QED BY <2>1, <2>2
<1> QED BY <1>2, <1>3

(* Finalizations, single-shot uploads and the orphan job keep the types.     *)
LEMMA StorageTypesStep ==
  ASSUME StorageTypes, [StorageNext]_storageVars
  PROVE  StorageTypes'
<1> USE DEF StorageTypes, store, finalizing, single, storageVars
<1>1. ASSUME NEW u \in Uploads, Finalize(u) PROVE StorageTypes'
  <2>1. CASE Assemble(u)
    <3>1. PICK k \in FileKeys, n \in Sizes : Put(k, u, n) /\ key' = [key EXCEPT ![u] = k]
      BY <2>1 DEF Assemble
    <3> QED BY <2>1, <3>1, PutTypes DEF Assemble, Goto, StorageTypeOK
  <2>2. CASE HeadObject(u)
    <3>1. finalizePc' \in [Uploads -> {"open", "head", "list", "reject", "done"}]
          /\ left' \in [Uploads -> SUBSET ObjectKeys]
      BY <2>2 DEF HeadObject, Goto, StorageTypeOK
    <3> QED BY <2>2, <3>1 DEF HeadObject, StorageTypeOK
  <2>3. CASE ListKey(u)
    <3>1. PICK k \in left[u] : sum' = [sum EXCEPT ![u] = @ + size[k]] /\ left' = [left EXCEPT ![u] = @ \ {k}]
      BY <2>3 DEF ListKey
    <3>2. size[k] \in Nat
      <4>1. k \in ObjectKeys /\ size \in [ObjectKeys -> Sizes \cup {0}]
        BY DEF StorageTypeOK
      <4>2. Sizes \cup {0} \subseteq Nat
        BY SizesAssumption
      <4>3. size[k] \in Sizes \cup {0}
        BY <4>1
      <4> QED BY <4>2, <4>3
    <3>3. sum' \in [Uploads -> Nat] /\ left' \in [Uploads -> SUBSET ObjectKeys]
      BY <3>1, <3>2 DEF StorageTypeOK
    <3> QED BY <2>3, <3>3 DEF ListKey, StorageTypeOK
  <2>4. CASE ListFails(u) \/ EnforceQuota(u) \/ Disconnect(u)
    <3>1. /\ finalizePc' \in [Uploads -> {"open", "head", "list", "reject", "done"}]
          /\ sum' \in [Uploads -> Nat] /\ left' \in [Uploads -> SUBSET ObjectKeys]
          /\ accepted' \subseteq Uploads
      BY <2>4 DEF ListFails, EnforceQuota, Disconnect, Goto, EndListing, StorageTypeOK
    <3> QED BY <2>4, <3>1 DEF ListFails, EnforceQuota, Disconnect, StorageTypeOK
  <2>5. CASE deleteFinalObject(u)
    <3>1. /\ object' \in [ObjectKeys -> Uploads \cup {"put", NoObject}]
          /\ size' \in [ObjectKeys -> Sizes \cup {0}]
          /\ \A j \in ObjectKeys : object'[j] = NoObject <=> size'[j] = 0
      BY <2>5, PutTypes DEF deleteFinalObject, Remove, StorageTypeOK
    <3>2. finalizePc' \in [Uploads -> {"open", "head", "list", "reject", "done"}]
      BY <2>5 DEF deleteFinalObject, Goto, StorageTypeOK
    <3> QED BY <2>5, <3>1, <3>2 DEF deleteFinalObject, StorageTypeOK
  <2> QED BY <1>1, <2>1, <2>2, <2>3, <2>4, <2>5 DEF Finalize
<1>2. ASSUME NEW b \in BlobKeys, SingleShot(b) PROVE StorageTypes'
  <2>1. CASE HandleGenerateUploadURL(b) \/ UrlExpires(b) \/ ConfirmUpload(b)
    BY <2>1 DEF HandleGenerateUploadURL, UrlExpires, ConfirmUpload, StorageTypeOK
  <2>2. CASE ClientPut(b)
    <3>1. PICK n \in Sizes : Put(b, "put", n)
      BY <2>2 DEF ClientPut
    <3> QED BY <2>2, <3>1, PutTypes DEF ClientPut, StorageTypeOK
  <2>3. CASE ConfirmRemoves(b) \/ DeleteBlob(b)
    <3>1. /\ object' \in [ObjectKeys -> Uploads \cup {"put", NoObject}]
          /\ size' \in [ObjectKeys -> Sizes \cup {0}]
          /\ \A j \in ObjectKeys : object'[j] = NoObject <=> size'[j] = 0
      BY <2>3, PutTypes DEF ConfirmRemoves, DeleteBlob, Remove, StorageTypeOK
    <3> QED BY <2>3, <3>1 DEF ConfirmRemoves, DeleteBlob, StorageTypeOK
  <2> QED BY <1>2, <2>1, <2>2, <2>3 DEF SingleShot
<1>3. CASE OrphanPage
  <2>1. PICK S \in SUBSET (Found \ scan.listed) :
            scan' = [scan EXCEPT !.on = TRUE, !.page = S, !.listed = @ \cup S]
    BY <1>3 DEF OrphanPage
  <2>2. S \subseteq BlobKeys
    BY DEF Found
  <2>3. scan' \in Scans
    <3>1. scan.listed \cup S \in SUBSET BlobKeys /\ scan.deleted \in Nat
      BY <2>2 DEF Scans
    <3>2. scan' = [page |-> S, listed |-> scan.listed \cup S, deleted |-> scan.deleted, on |-> TRUE]
      BY <2>1 DEF Scans
    <3> QED BY <2>2, <3>1, <3>2 DEF Scans
  <2> QED BY <1>3, <2>3 DEF OrphanPage, StorageTypeOK, Scans
<1>4. CASE OrphanDelete
  <2>1. PICK b \in scan.page :
          \/ Remove(b) /\ scan' = [scan EXCEPT !.page = @ \ {b}, !.deleted = @ + 1]
          \/ UNCHANGED store /\ scan' = [scan EXCEPT !.page = @ \ {b}]
    BY <1>4 DEF OrphanDelete
  <2>2. scan' \in Scans
    <3>1. /\ scan.page \ {b} \in SUBSET BlobKeys /\ scan.listed \in SUBSET BlobKeys
          /\ scan.deleted \in Nat /\ scan.deleted + 1 \in Nat /\ scan.on \in BOOLEAN
      BY DEF Scans
    <3>2. \/ scan' = [page |-> scan.page \ {b}, listed |-> scan.listed,
                     deleted |-> scan.deleted + 1, on |-> scan.on]
          \/ scan' = [page |-> scan.page \ {b}, listed |-> scan.listed,
                     deleted |-> scan.deleted, on |-> scan.on]
      BY <2>1 DEF Scans
    <3> QED BY <3>1, <3>2 DEF Scans
  <2>3. /\ object' \in [ObjectKeys -> Uploads \cup {"put", NoObject}]
        /\ size' \in [ObjectKeys -> Sizes \cup {0}]
        /\ \A j \in ObjectKeys : object'[j] = NoObject <=> size'[j] = 0
    BY <2>1, PutTypes DEF Remove, StorageTypeOK
  <2> QED BY <1>4, <2>2, <2>3 DEF OrphanDelete, StorageTypeOK, Scans
<1>5. CASE OrphanEnds
  <2>1. NoScan \in Scans
    BY DEF NoScan, Scans
  <2> QED BY <1>5, <2>1 DEF OrphanEnds, StorageTypeOK, Scans
<1>6. CASE UNCHANGED storageVars
  BY <1>6 DEF StorageTypeOK
<1> QED BY <1>1, <1>2, <1>3, <1>4, <1>5, <1>6 DEF StorageNext

-----------------------------------------------------------------------------
(* The types of the multipart upload.                                        *)

Handlers ==
    [pc : {"idle", "insert", "unwind", "store", "part", "fillPart", "upsert",
           "final", "fillFinal", "complete", "enforce", "abort", "fillAbort",
           "abortS3", "forget"},
     at : Instances \cup {None}, part : Parts \cup {None}, list : SUBSET Parts, need : SUBSET Parts]
Reporting == {"part", "fillPart", "upsert"}

(* A handler at work is in a process, and a report has its part.             *)
HandlerShape(q) ==
    /\ q.pc # "idle" => q.at \in Instances
    /\ q.pc \in Reporting => q.part \in Parts

UploadTypes == UploadTypeOK /\ \A r \in Requests : HandlerShape(req[r])

(* A slot without a request has its type.                                    *)
LEMMA QuietTypes == Quiet \in Handlers /\ HandlerShape(Quiet)
<1>1. Quiet \in Handlers
  BY DEF Quiet, Handlers
<1> QED BY <1>1 DEF Quiet, HandlerShape, Reporting

(* One handler goes on.                                                      *)
LEMMA HandlersGo ==
  ASSUME UploadTypes, NEW r \in Requests, NEW q \in Handlers, HandlerShape(q),
         req' = [req EXCEPT ![r] = q]
  PROVE  /\ req' \in [Requests -> Handlers]
         /\ \A x \in Requests : HandlerShape(req'[x])
         /\ req'[r] = q /\ \A x \in Requests \ {r} : req'[x] = req[x]
<1>1. req \in [Requests -> Handlers]
  BY DEF UploadTypes, UploadTypeOK, Handlers
<1>2. req'[r] = q /\ \A x \in Requests \ {r} : req'[x] = req[x]
  BY <1>1
<1>3. req' \in [Requests -> Handlers]
  BY <1>1
<1> QED BY <1>2, <1>3 DEF UploadTypes

(* To its next step, or to its answer.                                       *)
LEMMA HandlerGoes ==
  ASSUME UploadTypes, NEW r \in Requests, req[r].pc # "idle", NEW l, NEW s \in SUBSET Parts,
         l \in {"store", "unwind", "fillPart", "fillFinal", "fillAbort", "upsert", "complete",
                "enforce", "abortS3", "forget"},
         l \in Reporting => req[r].pc \in Reporting,
         \/ Return(r) \/ UploadGoto(r, l)
         \/ req' = [req EXCEPT ![r].pc = l, ![r].list = s]
  PROVE  /\ req' \in [Requests -> Handlers]
         /\ \A x \in Requests : HandlerShape(req'[x])
         /\ \A x \in Requests \ {r} : req'[x] = req[x]
         /\ \/ req'[r] = Quiet
            \/ /\ req'[r].pc = l /\ req'[r].at = req[r].at /\ req'[r].part = req[r].part
               /\ req'[r].need = req[r].need
               /\ req'[r].list = req[r].list \/ req'[r].list = s
<1>1. req \in [Requests -> Handlers] /\ req[r] \in Handlers /\ HandlerShape(req[r])
  BY DEF UploadTypes, UploadTypeOK, Handlers
<1>2. CASE Return(r)
  BY <1>2, QuietTypes, HandlersGo DEF Return
<1>3. ASSUME NEW m \in SUBSET Parts, req' = [req EXCEPT ![r] = [req[r] EXCEPT !.pc = l, !.list = m]]
      PROVE  /\ req' \in [Requests -> Handlers]
             /\ \A x \in Requests : HandlerShape(req'[x])
             /\ \A x \in Requests \ {r} : req'[x] = req[x]
             /\ req'[r].pc = l /\ req'[r].at = req[r].at /\ req'[r].part = req[r].part
             /\ req'[r].need = req[r].need /\ req'[r].list = m
  <2> DEFINE q == [req[r] EXCEPT !.pc = l, !.list = m]
  <2>1. /\ q \in Handlers /\ q.pc = l /\ q.at = req[r].at /\ q.part = req[r].part
        /\ q.need = req[r].need /\ q.list = m
    BY <1>1 DEF Handlers
  <2>2. HandlerShape(q)
    BY <1>1, <2>1 DEF HandlerShape
  <2> QED BY <1>3, <2>1, <2>2, HandlersGo
<1>4. CASE UploadGoto(r, l)
  <2>1. req[r].list \in SUBSET Parts
    BY <1>1 DEF Handlers
  <2>2. req' = [req EXCEPT ![r] = [req[r] EXCEPT !.pc = l, !.list = req[r].list]]
    <3>1. [req[r] EXCEPT !.pc = l, !.list = req[r].list] = [req[r] EXCEPT !.pc = l]
      BY <1>1 DEF Handlers
    <3> QED BY <1>1, <1>4, <3>1 DEF UploadGoto
  <2> QED BY <1>3, <2>1, <2>2
<1>5. CASE req' = [req EXCEPT ![r].pc = l, ![r].list = s]
  <2>1. req' = [req EXCEPT ![r] = [req[r] EXCEPT !.pc = l, !.list = s]]
    BY <1>1, <1>5
  <2> QED BY <1>3, <2>1
<1> QED BY <1>2, <1>4, <1>5

(* A request arrives: an initiation, a report, a finalization or an abort.   *)
LEMMA HandlerStarts ==
  ASSUME UploadTypes, NEW r \in Requests, NEW i \in Instances, Client(r, i)
  PROVE  /\ req' \in [Requests -> Handlers]
         /\ \A x \in Requests : HandlerShape(req'[x])
         /\ \A x \in Requests \ {r} : req'[x] = req[x]
         /\ req[r].pc = "idle" /\ req'[r].at = i /\ req'[r].list = {}
         /\ \/ InitiateUpload(r, i) /\ req'[r].pc = "insert" /\ req'[r].need = {}
            \/ /\ known /\ req'[r].pc \in {"part", "final", "abort"} /\ req'[r].need = acked
               /\ UNCHANGED <<durable, cache, known, acked, sweep, expired, faults>>
<1>1. CASE InitiateUpload(r, i)
  <2> DEFINE q == [Quiet EXCEPT !.pc = "insert", !.at = i]
  <2>1. q \in Handlers /\ q.pc = "insert" /\ q.at = i /\ q.list = {} /\ q.need = {}
    BY QuietTypes DEF Handlers, Quiet
  <2>2. HandlerShape(q)
    BY <2>1 DEF HandlerShape, Reporting
  <2>3. req' = [req EXCEPT ![r] = q] /\ req[r].pc = "idle"
    BY <1>1 DEF InitiateUpload
  <2> HIDE DEF q
  <2> QED BY <1>1, <2>1, <2>2, <2>3, HandlersGo
<1>2. ASSUME NEW l \in {"part", "final", "abort"}, NEW p \in Parts \cup {None}, l = "part" => p \in Parts,
             Request(r, i, l, p)
      PROVE  /\ req' \in [Requests -> Handlers]
             /\ \A x \in Requests : HandlerShape(req'[x])
             /\ \A x \in Requests \ {r} : req'[x] = req[x]
             /\ req[r].pc = "idle" /\ req'[r].at = i /\ req'[r].list = {}
             /\ known /\ req'[r].pc \in {"part", "final", "abort"} /\ req'[r].need = acked
             /\ UNCHANGED <<durable, cache, known, acked, sweep, expired, faults>>
  <2> DEFINE q == [pc |-> l, at |-> i, part |-> p, list |-> {}, need |-> acked]
  <2>1. q \in Handlers /\ q.pc = l /\ q.at = i /\ q.part = p /\ q.list = {} /\ q.need = acked
    BY DEF Handlers, UploadTypes, UploadTypeOK
  <2>2. HandlerShape(q)
    BY <1>2, <2>1 DEF HandlerShape, Reporting
  <2>3. req' = [req EXCEPT ![r] = q] /\ req[r].pc = "idle"
    BY <1>2 DEF Request
  <2> HIDE DEF q
  <2>4. /\ known
        /\ UNCHANGED <<durable, cache, known, acked, sweep, expired, faults>>
    BY <1>2 DEF Request
  <2> QED BY <2>1, <2>2, <2>3, <2>4, HandlersGo
<1>3. CASE ReportPart(r, i)
  <2>1. PICK p \in Parts : Request(r, i, "part", p)
    BY <1>3 DEF ReportPart
  <2> QED BY <1>2, <2>1
<1>4. CASE RequestFinal(r, i) \/ RequestAbort(r, i)
  BY <1>2, <1>4 DEF RequestFinal, RequestAbort
<1> QED BY <1>1, <1>3, <1>4 DEF Client

(* A running handler is on a process, and leaves a set of parts in its       *)
(* cache.                                                                    *)
LEMMA FilledTypes ==
  ASSUME UploadTypes, NEW r \in Requests, req[r].pc # "idle"
  PROVE  At(r) \in Instances /\ Filled(r) \in SUBSET Parts /\ req[r] \in Handlers
<1>1. At(r) \in Instances /\ req[r] \in Handlers
  BY DEF UploadTypes, UploadTypeOK, HandlerShape, At, Handlers
<1>2. req[r].list \in SUBSET Parts /\ cache[At(r)] \in (SUBSET Parts) \cup {None}
  BY <1>1 DEF UploadTypes, UploadTypeOK, Handlers
<1> QED BY <1>1, <1>2 DEF Filled

(* A restart answers nothing: the handlers of the process are gone.          *)
LEMMA RestartTypes ==
  ASSUME UploadTypes, NEW i \in Instances, Restart(i)
  PROVE  /\ req' \in [Requests -> Handlers]
         /\ \A x \in Requests : HandlerShape(req'[x])
         /\ \A x \in Requests : req'[x] = IF At(x) = i THEN Quiet ELSE req[x]
<1>1. \A x \in Requests : req'[x] = IF At(x) = i THEN Quiet ELSE req[x]
  BY DEF Restart
<1>2. ASSUME NEW x \in Requests PROVE req[x] \in Handlers /\ HandlerShape(req[x])
  BY DEF UploadTypes, UploadTypeOK, Handlers
<1>3. ASSUME NEW x \in Requests PROVE (IF At(x) = i THEN Quiet ELSE req[x]) \in Handlers
  BY <1>2, QuietTypes
<1>4. req' \in [Requests -> Handlers]
  BY <1>3 DEF Restart
<1> QED BY <1>1, <1>2, <1>4, QuietTypes

(* The types hold at the start, with no upload.                              *)
LEMMA UploadTypesInit == UploadInit => UploadTypes
<1> SUFFICES ASSUME UploadInit PROVE UploadTypes
  OBVIOUS
<1>1. req \in [Requests -> Handlers] /\ \A r \in Requests : HandlerShape(req[r])
  BY QuietTypes DEF UploadInit
<1>2. faults \in 0..MaxFaults
  BY MultipartAssumption DEF UploadInit
<1> QED BY <1>1, <1>2 DEF UploadInit, UploadTypes, UploadTypeOK, Handlers

(* Handlers, sweeps, the job and restarts keep the types.                    *)
LEMMA UploadTypesStep ==
  ASSUME UploadTypes, [UploadNext]_uploadVars
  PROVE  UploadTypes'
<1> DEFINE ReqTypes == req' \in [Requests -> Handlers] /\ \A x \in Requests : HandlerShape(req'[x])
<1>0. req \in [Requests -> Handlers] /\ \A x \in Requests : HandlerShape(req[x])
  BY DEF UploadTypes, UploadTypeOK, Handlers
<1>f. ASSUME Fault \/ UNCHANGED faults PROVE faults' \in 0..MaxFaults
  BY <1>f, MultipartAssumption DEF Fault, UploadTypes, UploadTypeOK
<1>s. ASSUME ReqTypes,
             /\ s3' \in {"none", "open", "assembled", "aborted"} /\ objectParts' \subseteq Parts
             /\ row' \in BOOLEAN /\ parts' \subseteq Parts /\ (~row' => parts' = {})
             /\ cache' \in [Instances -> (SUBSET Parts) \cup {None}]
             /\ known' \in BOOLEAN /\ acked' \subseteq Parts
             /\ sweep' \in [Instances -> {"idle", "abort", "delete", "evict"}]
             /\ expired' \in BOOLEAN /\ faults' \in 0..MaxFaults
      PROVE  UploadTypes'
  BY <1>s DEF UploadTypes, UploadTypeOK, Handlers
<1> HIDE DEF ReqTypes
<1>1. ASSUME NEW r \in Requests, NEW i \in Instances, Client(r, i) PROVE UploadTypes'
  <2>1. ReqTypes
    BY <1>1, HandlerStarts DEF ReqTypes
  <2>2. CASE InitiateUpload(r, i)
    BY <1>s, <2>1, <2>2 DEF InitiateUpload, UploadTypes, UploadTypeOK
  <2>3. CASE UNCHANGED <<durable, cache, known, acked, sweep, expired, faults>>
    BY <1>s, <2>1, <2>3 DEF durable, UploadTypes, UploadTypeOK
  <2> QED BY <1>1, <2>2, <2>3, HandlerStarts
<1>2. ASSUME NEW r \in Requests, Handler(r) PROVE UploadTypes'
  <2>1. req[r].pc # "idle"
    BY <1>2 DEF Handler, InitiateInsert, InitiateUnwind, InitiateStore, LoadMisses, CompletePart,
       UpsertPart, FinalizeUpload, CompleteMultipart, Enforce, AbortUpload, AbortMultipart,
       StoreDelete, Loaded
  <2>2. At(r) \in Instances /\ Filled(r) \in SUBSET Parts /\ req[r] \in Handlers
    BY <2>1, FilledTypes
  <2>3. CASE InitiateInsert(r) \/ InitiateUnwind(r)
    <3>1. ReqTypes
      BY <2>1, <2>3, HandlerGoes DEF InitiateInsert, InitiateUnwind, ReqTypes, Reporting
    <3> QED BY <1>s, <1>f, <2>3, <3>1 DEF InitiateInsert, InitiateUnwind, UploadTypes, UploadTypeOK
  <2>4. CASE InitiateStore(r)
    <3>1. ReqTypes
      BY <2>1, <2>4, HandlerGoes DEF InitiateStore, ReqTypes, Reporting
    <3>2. cache' \in [Instances -> (SUBSET Parts) \cup {None}]
      BY <2>4 DEF InitiateStore, UploadTypes, UploadTypeOK
    <3> QED BY <1>s, <2>4, <3>1, <3>2 DEF InitiateStore, durable, UploadTypes, UploadTypeOK
  <2>5. CASE LoadMisses(r)
    <3>1. parts \in SUBSET Parts
      BY DEF UploadTypes, UploadTypeOK
    <3>2. ReqTypes
      BY <2>1, <2>5, <3>1, HandlerGoes DEF LoadMisses, loadMiss, ReqTypes, Reporting
    <3> QED BY <1>s, <1>f, <2>5, <3>2 DEF LoadMisses, loadMiss, durable, UploadTypes, UploadTypeOK
  <2>6. CASE CompletePart(r)
    <3>1. req[r].pc \in Reporting /\ req[r].part \in Parts
      BY <1>0, <2>6 DEF CompletePart, Loaded, Reporting, HandlerShape
    <3>2. ReqTypes
      BY <2>1, <2>6, <3>1, HandlerGoes DEF CompletePart, ReqTypes
    <3>3. cache' \in [Instances -> (SUBSET Parts) \cup {None}]
      BY <2>2, <2>6, <3>1 DEF CompletePart, UploadTypes, UploadTypeOK
    <3> QED BY <1>s, <2>6, <3>2, <3>3 DEF CompletePart, durable, UploadTypes, UploadTypeOK
  <2>7. CASE UpsertPart(r)
    <3>1. req[r].part \in Parts
      BY <1>0, <2>7 DEF UpsertPart, Reporting, HandlerShape
    <3>2. ReqTypes
      BY <2>1, <2>7, HandlerGoes DEF UpsertPart, ReqTypes, Reporting
    <3> QED BY <1>s, <1>f, <2>7, <3>1, <3>2 DEF UpsertPart, UploadTypes, UploadTypeOK
  <2>8. CASE FinalizeUpload(r) \/ AbortUpload(r)
    <3>1. ReqTypes
      BY <2>1, <2>2, <2>8, HandlerGoes DEF FinalizeUpload, AbortUpload, ReqTypes, Reporting
    <3>2. cache' \in [Instances -> (SUBSET Parts) \cup {None}]
      BY <2>2, <2>8 DEF FinalizeUpload, AbortUpload, UploadTypes, UploadTypeOK
    <3> QED BY <1>s, <2>8, <3>1, <3>2 DEF FinalizeUpload, AbortUpload, durable, UploadTypes, UploadTypeOK
  <2>9. CASE CompleteMultipart(r)
    <3>1. ReqTypes
      BY <2>1, <2>9, HandlerGoes DEF CompleteMultipart, ReqTypes, Reporting
    <3>2. req[r].list \subseteq Parts
      BY <2>2 DEF Handlers
    <3> QED BY <1>s, <1>f, <2>9, <3>1, <3>2 DEF CompleteMultipart, UploadTypes, UploadTypeOK
  <2>10. CASE Enforce(r)
    <3>1. ReqTypes
      BY <2>1, <2>10, HandlerGoes DEF Enforce, ReqTypes, Reporting
    <3>2. cache' \in [Instances -> (SUBSET Parts) \cup {None}]
      BY <2>10 DEF Enforce, Evict, UploadTypes, UploadTypeOK
    <3> QED BY <1>s, <2>10, <3>1, <3>2 DEF Enforce, UploadTypes, UploadTypeOK
  <2>11. CASE AbortMultipart(r)
    <3>1. ReqTypes
      BY <2>1, <2>11, HandlerGoes DEF AbortMultipart, ReqTypes, Reporting
    <3>2. cache' \in [Instances -> (SUBSET Parts) \cup {None}]
      BY <2>11 DEF AbortMultipart, Evict, UploadTypes, UploadTypeOK
    <3> QED BY <1>s, <1>f, <2>11, <3>1, <3>2 DEF AbortMultipart, UploadTypes, UploadTypeOK
  <2>12. CASE StoreDelete(r)
    <3>1. ReqTypes
      BY <2>1, <2>12, HandlerGoes DEF StoreDelete, ReqTypes, Reporting
    <3>2. row' \in BOOLEAN /\ parts' \subseteq Parts /\ (~row' => parts' = {})
      <4>1. CASE row' = FALSE /\ parts' = {}
        BY <4>1
      <4>2. CASE UNCHANGED <<row, parts>>
        BY <4>2 DEF UploadTypes, UploadTypeOK
      <4> QED BY <2>12, <4>1, <4>2 DEF StoreDelete, DeleteRow
    <3>3. faults' \in 0..MaxFaults
      BY <1>f, <2>12 DEF StoreDelete
    <3> QED BY <1>s, <2>12, <3>1, <3>2, <3>3 DEF StoreDelete, UploadTypes, UploadTypeOK
  <2> QED BY <1>2, <2>3, <2>4, <2>5, <2>6, <2>7, <2>8, <2>9, <2>10, <2>11, <2>12 DEF Handler
<1>3. ASSUME NEW i \in Instances, Cleanup(i) PROVE UploadTypes'
  <2>1. ReqTypes
    BY <1>0, <1>3 DEF Cleanup, CleanupList, CleanupAbort, CleanupDelete, CleanupEvict, ReqTypes
  <2>2. sweep' \in [Instances -> {"idle", "abort", "delete", "evict"}]
    BY <1>3 DEF Cleanup, CleanupList, CleanupAbort, CleanupDelete, CleanupEvict, SweepTo, UploadTypes, UploadTypeOK
  <2>3. cache' \in [Instances -> (SUBSET Parts) \cup {None}]
    BY <1>3 DEF Cleanup, CleanupList, CleanupAbort, CleanupDelete, CleanupEvict, Evict, UploadTypes, UploadTypeOK
  <2>4. CASE CleanupList(i) \/ CleanupEvict(i)
    BY <1>s, <2>1, <2>2, <2>3, <2>4 DEF CleanupList, CleanupEvict, durable, UploadTypes, UploadTypeOK
  <2>5. CASE CleanupAbort(i)
    BY <1>s, <1>f, <2>1, <2>2, <2>3, <2>5 DEF CleanupAbort, UploadTypes, UploadTypeOK
  <2>6. CASE CleanupDelete(i)
    <3>1. row' \in BOOLEAN /\ parts' \subseteq Parts /\ (~row' => parts' = {})
      <4>1. CASE row' = FALSE /\ parts' = {}
        BY <4>1
      <4>2. CASE UNCHANGED <<row, parts>>
        BY <4>2 DEF UploadTypes, UploadTypeOK
      <4> QED BY <2>6, <4>1, <4>2 DEF CleanupDelete, DeleteRow
    <3>2. faults' \in 0..MaxFaults
      BY <1>f, <2>6 DEF CleanupDelete
    <3> QED BY <1>s, <2>1, <2>2, <2>3, <2>6, <3>1, <3>2 DEF CleanupDelete, UploadTypes, UploadTypeOK
  <2> QED BY <1>3, <2>4, <2>5, <2>6 DEF Cleanup
<1>4. ASSUME NEW i \in Instances, Restart(i) PROVE UploadTypes'
  <2>1. ReqTypes
    BY <1>4, RestartTypes DEF ReqTypes
  <2>2. sweep' \in [Instances -> {"idle", "abort", "delete", "evict"}]
    BY <1>4 DEF Restart, SweepTo, UploadTypes, UploadTypeOK
  <2>3. cache' \in [Instances -> (SUBSET Parts) \cup {None}]
    BY <1>4 DEF Restart, Evict, UploadTypes, UploadTypeOK
  <2> QED BY <1>s, <1>f, <1>4, <2>1, <2>2, <2>3 DEF Restart, durable, UploadTypes, UploadTypeOK
<1>5. CASE Expire \/ MultipartCleanupJob
  BY <1>5 DEF Expire, MultipartCleanupJob, durable, UploadTypes, UploadTypeOK
<1>6. CASE UNCHANGED uploadVars
  BY <1>6 DEF uploadVars, UploadTypes, UploadTypeOK
<1> QED BY <1>1, <1>2, <1>3, <1>4, <1>5, <1>6 DEF UploadNext

(* Each of the two server components keeps its types: what is at a key has a *)
(* size exactly when it is there, and a part of an upload is on record only  *)
(* under the upload's row, whatever the handlers, the sweeps and the         *)
(* failures of S3 and PostgreSQL do.                                         *)
THEOREM ObjectTypes == Spec => []TypeOK
<1> DEFINE AllTypes == StorageTypes /\ UploadTypes
<1>1. Init => AllTypes
  BY StorageTypesInit, UploadTypesInit DEF Init
<1>2. AllTypes /\ [Next]_<<storageVars, uploadVars, part>> => AllTypes'
  <2> SUFFICES ASSUME AllTypes, [Next]_<<storageVars, uploadVars, part>> PROVE AllTypes'
    OBVIOUS
  <2>1. [StorageNext]_storageVars /\ [UploadNext]_uploadVars
    BY DEF Next
  <2> QED BY <2>1, StorageTypesStep, UploadTypesStep
<1>3. AllTypes => TypeOK
  BY DEF TypeOK, StorageTypes, UploadTypes
<1> QED BY <1>1, <1>2, <1>3, PTL DEF Spec

-----------------------------------------------------------------------------
(* One process resumes an upload and keeps its answered parts.               *)

Opening == {"insert", "unwind", "store"}
Filling == {"fillPart", "fillFinal", "fillAbort"}
Holding == {"upsert", "complete", "abortS3"}

(* Until the client knows the upload its one initiation is all there is.     *)
Initiation(i) ==
    /\ \A r \in Requests : req[r].pc \in Opening => ~known /\ s3 = "open"
    /\ \A r \in Requests : req[r].pc = "store" => row
    /\ ~known => /\ acked = {} /\ parts = {} /\ cache[i] = None
                 /\ \A r \in Requests : req[r].pc \in Opening \cup {"idle"}
                 /\ \A r, x \in Requests : req[r].pc \in Opening /\ req[x].pc \in Opening => r = x
    /\ s3 = "none" => ~known /\ ~row

(* While S3 has the upload open, an answered part is in the store and in the *)
(* cache; while there is no entry, it is in whatever a handler has read to   *)
(* make one.  A handler past the lookup leaves an entry behind.              *)
OpenKept(i) ==
    known /\ s3 = "open" =>
       /\ row /\ acked \subseteq parts
       /\ cache[i] # None => acked \subseteq cache[i]
       /\ \A r \in Requests :
            /\ req[r].pc \in Filling /\ cache[i] = None => acked \subseteq req[r].list
            /\ req[r].pc \in Holding => cache[i] # None
            /\ req[r].pc = "upsert" => req[r].part \in cache[i]
            /\ req[r].pc = "complete" => req[r].need \subseteq req[r].list

(* The one finalization that assembled the object had all it needed.         *)
Assembled ==
    /\ \A r \in Requests :
         req[r].pc = "enforce" => s3 = "assembled" /\ req[r].need \subseteq objectParts
    /\ \A r, x \in Requests : req[r].pc = "enforce" /\ req[x].pc = "enforce" => r = x
    /\ \A r \in Requests : req[r].pc = "forget" => s3 # "open"

ResumeInv(i) ==
    /\ UploadTypes
    /\ ~expired => /\ sweep[i] = "idle" /\ \A r \in Requests : req[r].need \subseteq acked
                   /\ Initiation(i) /\ OpenKept(i) /\ Assembled

(* At the start nothing is acknowledged.                                     *)
LEMMA ResumeInit ==
  ASSUME NEW i, Instances = {i}, UploadInit
  PROVE  ResumeInv(i)
<1>1. UploadTypes
  BY UploadTypesInit
<1>2. \A r \in Requests : req[r].pc = "idle" /\ req[r].need = {}
  BY DEF UploadInit, Quiet
<1> QED BY <1>1, <1>2 DEF UploadInit, ResumeInv, Initiation, OpenKept, Assembled, Opening, Filling, Holding

(* Only the process's own sweep, which waits for the expiry, and the expiry  *)
(* itself, are not steps of requests.                                        *)
LEMMA ResumeStarts ==
  ASSUME NEW i, Instances = {i}, ResumeInv(i), ~expired, NEW r \in Requests, Client(r, i)
  PROVE  /\ sweep'[i] = "idle" /\ \A x \in Requests : req'[x].need \subseteq acked'
         /\ Initiation(i)' /\ OpenKept(i)' /\ Assembled'
<1>1. /\ \A x \in Requests \ {r} : req'[x] = req[x]
      /\ req[r].pc = "idle" /\ req'[r].at = i /\ req'[r].list = {}
      /\ \/ InitiateUpload(r, i) /\ req'[r].pc = "insert" /\ req'[r].need = {}
         \/ /\ known /\ req'[r].pc \in {"part", "final", "abort"} /\ req'[r].need = acked
            /\ UNCHANGED <<durable, cache, known, acked, sweep, expired, faults>>
  BY HandlerStarts DEF ResumeInv
<1>2. CASE InitiateUpload(r, i) /\ req'[r].pc = "insert" /\ req'[r].need = {}
  <2>1. ~known /\ s3 = "none" /\ s3' = "open" /\ UNCHANGED <<objectParts, row, parts, cache, known, acked, sweep>>
    BY <1>2 DEF InitiateUpload, ResumeInv, Initiation
  <2>2. \A x \in Requests : req[x].pc = "idle"
    BY <2>1 DEF ResumeInv, Initiation
  <2>3. \A x \in Requests \ {r} : req'[x].pc = "idle"
    BY <1>1, <2>2
  <2> QED BY <1>1, <1>2, <2>1, <2>3 DEF ResumeInv, Initiation, OpenKept, Assembled, Opening, Filling, Holding
<1>3. CASE /\ known /\ req'[r].pc \in {"part", "final", "abort"} /\ req'[r].need = acked
           /\ UNCHANGED <<durable, cache, known, acked, sweep, expired, faults>>
  BY <1>1, <1>3 DEF durable, ResumeInv, Initiation, OpenKept, Assembled, Opening, Filling, Holding
<1> QED BY <1>1, <1>2, <1>3

(* A step of a handler on the one process keeps what was acknowledged,       *)
(* before expiry.                                                            *)
LEMMA ResumeHandles ==
  ASSUME NEW i, Instances = {i}, ResumeInv(i), ~expired, NEW r \in Requests, Handler(r)
  PROVE  /\ sweep'[i] = "idle" /\ \A x \in Requests : req'[x].need \subseteq acked'
         /\ Initiation(i)' /\ OpenKept(i)' /\ Assembled'
<1> USE DEF Opening, Filling, Holding
<1>0. /\ UploadTypes /\ sweep[i] = "idle" /\ \A x \in Requests : req[x].need \subseteq acked
      /\ Initiation(i) /\ OpenKept(i) /\ Assembled
  BY DEF ResumeInv
<1>1. req[r].pc # "idle"
  BY DEF Handler, InitiateInsert, InitiateUnwind, InitiateStore, LoadMisses, CompletePart,
     UpsertPart, FinalizeUpload, CompleteMultipart, Enforce, AbortUpload, AbortMultipart,
     StoreDelete, Loaded
<1>2. /\ At(r) = i /\ i \in Instances /\ Filled(r) \in SUBSET Parts
      /\ parts \in SUBSET Parts /\ req[r].need \in SUBSET Parts
  BY <1>0, <1>1, FilledTypes DEF Handlers, UploadTypes, UploadTypeOK
<1>3. cache \in [Instances -> (SUBSET Parts) \cup {None}] /\ \A S \in SUBSET Parts : S # None
  BY <1>0, MultipartAssumption DEF UploadTypes, UploadTypeOK
<1>4. Quiet.pc = "idle" /\ Quiet.need = {}
  BY DEF Quiet
<1>g. ASSUME NEW l, UploadGoto(r, l)
      PROVE  /\ req'[r].pc = l /\ req'[r].need = req[r].need /\ req'[r].part = req[r].part
             /\ \A x \in Requests \ {r} : req'[x] = req[x]
  <2>1. req \in [Requests -> Handlers]
    BY <1>0 DEF UploadTypes, UploadTypeOK, Handlers
  <2> QED BY <1>g, <2>1 DEF Handlers, UploadGoto
<1>5. CASE InitiateInsert(r)
  <2>1. PICK l \in {"store", "unwind"} : UploadGoto(r, l) /\ (l = "store" => row') /\ (row => row')
    BY <1>5 DEF InitiateInsert
  <2>2. /\ req'[r].pc = l /\ req'[r].need = req[r].need
        /\ \A x \in Requests \ {r} : req'[x] = req[x]
    BY <1>g, <2>1
  <2>3. /\ ~known /\ UNCHANGED <<s3, objectParts, parts, cache, known, acked, sweep>> /\ req[r].pc = "insert"
    BY <1>0, <1>5 DEF InitiateInsert, Initiation
  <2>4. Initiation(i)'
    BY <1>0, <2>1, <2>2, <2>3 DEF Initiation
  <2> QED BY <1>0, <2>2, <2>3, <2>4 DEF OpenKept, Assembled
<1>6. CASE InitiateUnwind(r)
  <2>1. req'[r] = Quiet /\ \A x \in Requests \ {r} : req'[x] = req[x]
    BY <1>0, <1>2, <1>6, QuietTypes, HandlersGo DEF InitiateUnwind, Return
  <2>2. /\ ~known /\ UNCHANGED <<objectParts, row, parts, cache, known, acked, sweep>>
        /\ s3 = "open" /\ s3' \in {"open", "aborted"}
    BY <1>0, <1>6 DEF InitiateUnwind, Initiation
  <2>3. \A x \in Requests : req'[x].pc = "idle" /\ req'[x].need \subseteq acked'
    BY <1>0, <1>4, <1>6, <2>1, <2>2 DEF InitiateUnwind, Initiation
  <2> QED BY <1>0, <2>2, <2>3 DEF Initiation, OpenKept, Assembled
<1>7. CASE InitiateStore(r)
  <2>1. req'[r] = Quiet /\ \A x \in Requests \ {r} : req'[x] = req[x]
    BY <1>0, <1>2, <1>7, QuietTypes, HandlersGo DEF InitiateStore, Return
  <2>2. /\ ~known /\ known' /\ row /\ acked = {} /\ UNCHANGED <<s3, objectParts, row, parts, acked, sweep>>
        /\ s3 = "open" /\ cache'[i] = {}
    BY <1>0, <1>2, <1>3, <1>7 DEF InitiateStore, Initiation, durable
  <2>3. \A x \in Requests : req'[x].pc = "idle" /\ req'[x].need \subseteq acked'
    BY <1>0, <1>4, <1>7, <2>1, <2>2 DEF InitiateStore, Initiation
  <2> QED BY <1>0, <2>2, <2>3 DEF Initiation, OpenKept, Assembled
<1>n. ASSUME req[r].pc \notin Opening PROVE known
  BY <1>0, <1>1, <1>n DEF Initiation
<1>8. CASE LoadMisses(r)
  <2>1. /\ known /\ cache[i] = None /\ UNCHANGED <<s3, objectParts, row, parts, cache, known, acked, sweep>>
    BY <1>n, <1>2, <1>8 DEF LoadMisses, loadMiss, durable
  <2>2. PICK l \in Filling : (l = "fillPart" => req[r].pc = "part") /\ loadMiss(r, l)
    BY <1>8 DEF LoadMisses
  <2>3. /\ \A x \in Requests \ {r} : req'[x] = req[x]
        /\ \/ req'[r] = Quiet
           \/ req'[r].pc = l /\ req'[r].need = req[r].need
    BY <1>0, <1>1, <1>2, <2>2, HandlerGoes DEF loadMiss, Reporting
  <2>4. req'[r] = Quiet \/ req'[r].list = parts
    <3>1. req \in [Requests -> Handlers]
      BY <1>0 DEF UploadTypes, UploadTypeOK, Handlers
    <3>2. ASSUME req' = [req EXCEPT ![r].pc = l, ![r].list = parts] PROVE req'[r].list = parts
      BY <3>1, <3>2 DEF Handlers
    <3> QED BY <2>2, <3>1, <3>2 DEF loadMiss, Return
  <2> QED BY <1>0, <1>4, <2>1, <2>3, <2>4 DEF Initiation, OpenKept, Assembled
<1>9. CASE CompletePart(r)
  <2>1. /\ known /\ UNCHANGED <<s3, objectParts, row, parts, known, acked, sweep>>
        /\ cache'[i] = Filled(r) \cup {req[r].part} /\ UploadGoto(r, "upsert")
        /\ req[r].pc \in {"part", "fillPart"} /\ (req[r].pc = "part" => cache[i] # None)
    BY <1>n, <1>2, <1>3, <1>9 DEF CompletePart, Loaded, durable
  <2>2. /\ \A x \in Requests \ {r} : req'[x] = req[x]
        /\ req'[r].pc = "upsert" /\ req'[r].need = req[r].need /\ req'[r].part = req[r].part
    BY <1>g, <2>1
  <2>3. cache'[i] # None
    BY <1>0, <1>3, <2>1, <1>2 DEF UploadTypes, UploadTypeOK, HandlerShape, Reporting
  <2>4. s3 = "open" => acked \subseteq cache'[i]
    BY <1>0, <1>2, <2>1 DEF OpenKept, Filled
  <2>5. cache[i] # None => cache[i] \subseteq cache'[i]
    BY <1>2, <2>1 DEF Filled
  <2>6. Initiation(i)' /\ Assembled' /\ \A x \in Requests : req'[x].need \subseteq acked'
    BY <1>0, <2>1, <2>2 DEF Initiation, Assembled
  <2>7. OpenKept(i)'
    BY <1>0, <2>1, <2>2, <2>3, <2>4, <2>5 DEF OpenKept
  <2> QED BY <1>0, <2>1, <2>6, <2>7
<1>10. CASE UpsertPart(r)
  <2>1. /\ known /\ UNCHANGED <<s3, objectParts, row, cache, known, sweep>>
        /\ parts \subseteq parts' /\ acked \subseteq acked' /\ acked' \subseteq acked \cup {req[r].part}
        /\ acked \subseteq parts => acked' \subseteq parts'
    BY <1>n, <1>10 DEF UpsertPart
  <2>2. req'[r] = Quiet /\ \A x \in Requests \ {r} : req'[x] = req[x]
    BY <1>0, <1>10, QuietTypes, HandlersGo DEF UpsertPart, Return
  <2>3. ~known \/ s3 # "open" \/ (cache[i] # None /\ acked' \subseteq cache[i])
    BY <1>0, <1>10, <2>1 DEF OpenKept, UpsertPart
  <2>4. Initiation(i)' /\ Assembled' /\ \A x \in Requests : req'[x].need \subseteq acked'
    BY <1>0, <1>4, <2>1, <2>2 DEF Initiation, Assembled
  <2>5. OpenKept(i)'
    BY <1>0, <1>4, <2>1, <2>2, <2>3 DEF OpenKept
  <2> QED BY <1>0, <2>1, <2>4, <2>5
<1>11. CASE FinalizeUpload(r) \/ AbortUpload(r)
  <2>1. /\ known /\ UNCHANGED <<s3, objectParts, row, parts, known, acked, sweep>>
        /\ cache'[i] = Filled(r)
        /\ req[r].pc \in {"final", "fillFinal", "abort", "fillAbort"}
        /\ req[r].pc \in {"final", "abort"} => cache[i] # None
    BY <1>n, <1>2, <1>3, <1>11 DEF FinalizeUpload, AbortUpload, Loaded, durable
  <2>2. /\ \A x \in Requests \ {r} : req'[x] = req[x]
        /\ req'[r].need = req[r].need
        /\ \/ req'[r].pc = "complete" /\ req'[r].list = Filled(r)
           \/ req'[r].pc = "abortS3"
    <3>1. req \in [Requests -> Handlers]
      BY <1>0 DEF UploadTypes, UploadTypeOK, Handlers
    <3>2. CASE req' = [req EXCEPT ![r].pc = "complete", ![r].list = Filled(r)]
      BY <3>1, <3>2 DEF Handlers
    <3>3. CASE UploadGoto(r, "abortS3")
      BY <3>1, <3>3 DEF Handlers, UploadGoto
    <3> QED BY <1>11, <3>2, <3>3 DEF FinalizeUpload, AbortUpload
  <2>3. cache'[i] # None
    BY <1>2, <1>3, <2>1
  <2>4. s3 = "open" => acked \subseteq cache'[i]
    BY <1>0, <1>2, <2>1 DEF OpenKept, Filled
  <2>5. cache[i] # None => cache[i] = cache'[i]
    BY <1>2, <2>1 DEF Filled
  <2>6. Initiation(i)' /\ Assembled' /\ \A x \in Requests : req'[x].need \subseteq acked'
    BY <1>0, <2>1, <2>2 DEF Initiation, Assembled
  <2>7. OpenKept(i)'
    BY <1>0, <2>1, <2>2, <2>3, <2>4, <2>5 DEF OpenKept
  <2> QED BY <1>0, <2>1, <2>6, <2>7
<1>12. CASE CompleteMultipart(r)
  <2>1. /\ known /\ UNCHANGED <<row, parts, cache, known, acked, sweep>> /\ req[r].pc = "complete"
    BY <1>n, <1>12 DEF CompleteMultipart
  <2>2. /\ \A x \in Requests \ {r} : req'[x] = req[x]
        /\ \/ req'[r] = Quiet
           \/ req'[r].pc = "enforce" /\ req'[r].need = req[r].need
    BY <1>0, <1>1, <1>2, <1>12, HandlerGoes DEF CompleteMultipart, Reporting
  <2>3. CASE s3 = "open" /\ s3' = "assembled" /\ objectParts' = req[r].list
    <3>1. req[r].need \subseteq objectParts'
      BY <1>0, <2>1, <2>3 DEF OpenKept
    <3>2. Assembled'
      BY <1>0, <1>4, <2>2, <2>3, <3>1 DEF Assembled
    <3>3. Initiation(i)' /\ OpenKept(i)' /\ \A x \in Requests : req'[x].need \subseteq acked'
      BY <1>0, <1>4, <2>1, <2>2, <2>3 DEF Initiation, OpenKept
    <3> QED BY <1>0, <2>1, <3>2, <3>3
  <2>4. CASE Return(r) /\ UNCHANGED <<s3, objectParts>>
    <3>1. req'[r] = Quiet
      BY <1>0, <2>4, QuietTypes, HandlersGo DEF Return
    <3> QED BY <1>0, <1>4, <2>1, <2>2, <2>4, <3>1 DEF Initiation, OpenKept, Assembled
  <2> QED BY <1>12, <2>3, <2>4 DEF CompleteMultipart
<1>13. CASE Enforce(r)
  <2>1. /\ known /\ UNCHANGED <<s3, row, parts, known, acked, sweep>> /\ req[r].pc = "enforce"
        /\ s3 = "assembled"
    BY <1>n, <1>0, <1>13 DEF Enforce, Assembled
  <2>2. /\ \A x \in Requests \ {r} : req'[x] = req[x]
        /\ req'[r].pc = "forget" /\ req'[r].need = req[r].need
    BY <1>g, <1>13 DEF Enforce
  <2> QED BY <1>0, <2>1, <2>2 DEF Initiation, OpenKept, Assembled
<1>14. CASE AbortMultipart(r)
  <2>1. /\ known /\ UNCHANGED <<objectParts, row, parts, known, acked, sweep>> /\ req[r].pc = "abortS3"
    BY <1>n, <1>14 DEF AbortMultipart
  <2>2. /\ \A x \in Requests \ {r} : req'[x] = req[x]
        /\ \/ req'[r] = Quiet
           \/ req'[r].pc = "forget" /\ req'[r].need = req[r].need
    BY <1>0, <1>1, <1>2, <1>14, HandlerGoes DEF AbortMultipart, Reporting
  <2>3. CASE s3 = "open" /\ s3' = "aborted"
    BY <1>0, <1>4, <2>1, <2>2, <2>3 DEF Initiation, OpenKept, Assembled
  <2>4. CASE Return(r) /\ UNCHANGED <<s3, cache>>
    <3>1. req'[r] = Quiet
      BY <1>0, <2>4, QuietTypes, HandlersGo DEF Return
    <3> QED BY <1>0, <1>4, <2>1, <2>2, <2>4, <3>1 DEF Initiation, OpenKept, Assembled
  <2> QED BY <1>14, <2>3, <2>4 DEF AbortMultipart
<1>15. CASE StoreDelete(r)
  <2>1. /\ known /\ UNCHANGED <<s3, objectParts, cache, known, acked, sweep>> /\ s3 # "open"
        /\ row' => row
    BY <1>n, <1>0, <1>15 DEF StoreDelete, Assembled, DeleteRow
  <2>2. req'[r] = Quiet /\ \A x \in Requests \ {r} : req'[x] = req[x]
    BY <1>0, <1>15, QuietTypes, HandlersGo DEF StoreDelete, Return
  <2> QED BY <1>0, <1>4, <2>1, <2>2 DEF Initiation, OpenKept, Assembled
<1> QED BY <1>5, <1>6, <1>7, <1>8, <1>9, <1>10, <1>11, <1>12, <1>13, <1>14, <1>15 DEF Handler

(* The process forgets its entries and its handlers together, and reads the  *)
(* answered parts back from the store.                                       *)
LEMMA ResumeRestarts ==
  ASSUME NEW i, Instances = {i}, ResumeInv(i), ~expired, Restart(i)
  PROVE  /\ sweep'[i] = "idle" /\ \A x \in Requests : req'[x].need \subseteq acked'
         /\ Initiation(i)' /\ OpenKept(i)' /\ Assembled'
<1>1. UploadTypes /\ i \in Instances
  BY DEF ResumeInv
<1>2. \A x \in Requests : req'[x].pc = "idle" /\ req'[x].need \subseteq acked'
  <2> SUFFICES ASSUME NEW x \in Requests PROVE req'[x].pc = "idle" /\ req'[x].need \subseteq acked'
    OBVIOUS
  <2>1. req'[x] = IF At(x) = i THEN Quiet ELSE req[x]
    BY <1>1, RestartTypes
  <2>2. At(x) # i => req[x].pc = "idle"
    BY <1>1 DEF UploadTypes, HandlerShape, At
  <2> QED BY <2>1, <2>2 DEF Quiet, ResumeInv, Restart
<1>3. /\ UNCHANGED <<s3, objectParts, row, parts, known, acked>>
      /\ sweep'[i] = "idle" /\ cache'[i] = None
  BY <1>1 DEF Restart, durable, Evict, SweepTo, UploadTypes, UploadTypeOK
<1> QED BY <1>2, <1>3 DEF ResumeInv, Initiation, OpenKept, Assembled, Opening, Filling, Holding

(* A finalization hands S3 every part whose report was answered before it    *)
(* was requested, while the upload is within its 24 hours: with one process, *)
(* any number of handlers, restarts and failed calls.                        *)
THEOREM ResumeSurvivesRestarts ==
  ASSUME NEW i, Instances = {i}
  PROVE  UploadSpec => []ResumeKeepsParts
<1>1. UploadInit => ResumeInv(i)
  BY ResumeInit
<1>2. ResumeInv(i) /\ [UploadNext]_uploadVars => ResumeInv(i)'
  <2> SUFFICES ASSUME ResumeInv(i), [UploadNext]_uploadVars PROVE ResumeInv(i)'
    OBVIOUS
  <2>1. UploadTypes'
    BY UploadTypesStep DEF ResumeInv
  <2> SUFFICES ASSUME ~expired'
               PROVE  /\ sweep'[i] = "idle" /\ \A x \in Requests : req'[x].need \subseteq acked'
                      /\ Initiation(i)' /\ OpenKept(i)' /\ Assembled'
    BY <2>1 DEF ResumeInv
  <2>2. ~expired /\ sweep[i] = "idle"
    <3>1. CASE UNCHANGED uploadVars
      BY <3>1 DEF uploadVars, ResumeInv
    <3>2. ASSUME NEW r \in Requests, NEW j \in Instances, Client(r, j) PROVE ~expired
      BY <3>2, HandlerStarts DEF ResumeInv, InitiateUpload
    <3>3. ASSUME NEW r \in Requests, Handler(r) PROVE ~expired
      BY <3>3 DEF Handler, InitiateInsert, InitiateUnwind, InitiateStore, LoadMisses, CompletePart,
         UpsertPart, FinalizeUpload, CompleteMultipart, Enforce, AbortUpload, AbortMultipart, StoreDelete
    <3>4. ASSUME NEW j \in Instances, Cleanup(j) \/ Restart(j) PROVE ~expired
      BY <3>4 DEF Cleanup, CleanupList, CleanupAbort, CleanupDelete, CleanupEvict, Restart
    <3>5. CASE Expire \/ MultipartCleanupJob
      BY <3>5 DEF Expire, MultipartCleanupJob
    <3> QED BY <3>1, <3>2, <3>3, <3>4, <3>5 DEF UploadNext, ResumeInv
  <2>3. CASE UNCHANGED uploadVars
    BY <2>2, <2>3 DEF uploadVars, ResumeInv, Initiation, OpenKept, Assembled
  <2>4. ~Cleanup(i) /\ ~Expire /\ ~MultipartCleanupJob
    BY <2>2 DEF Cleanup, CleanupList, CleanupAbort, CleanupDelete, CleanupEvict, Expire, MultipartCleanupJob
  <2> QED BY <2>2, <2>3, <2>4, ResumeStarts, ResumeHandles, ResumeRestarts DEF UploadNext
<1>3. ResumeInv(i) => ResumeKeepsParts
  BY DEF ResumeInv, Assembled, ResumeKeepsParts, AckedPartsAssembled
<1> QED BY <1>1, <1>2, <1>3, PTL DEF UploadSpec
-----------------------------------------------------------------------------
(* Concurrent finalizations stay within the quota together.                  *)

(* A finite number of keys holds a finite number of bytes.                   *)
LEMMA BytesFinite ==
  ASSUME NEW z, NEW S, IsFiniteSet(S), \A k \in S : z[k] \in Nat
  PROVE  IsFiniteSet(Bytes(z, S)) /\ Cardinality(Bytes(z, S)) \in Nat
<1> DEFINE One(k) == {k} \X (1..z[k])
<1> DEFINE C == {One(k) : k \in S}
<1> DEFINE f == [k \in S |-> One(k)]
<1>1. f \in Surjection(S, C)
  BY DEF Surjection
<1>2. IsFiniteSet(C)
  <2> HIDE DEF f, C
  <2> QED BY <1>1, FS_Surjection
<1>3. ASSUME NEW T \in C PROVE IsFiniteSet(T)
  <2>1. PICK k \in S : T = One(k)
    OBVIOUS
  <2>2. IsFiniteSet({k})
    BY FS_Singleton
  <2>3. IsFiniteSet(1..z[k])
    BY FS_Interval
  <2> QED BY <2>1, <2>2, <2>3, FS_Product
<1>4. Bytes(z, S) = UNION C
  BY DEF Bytes
<1>5. IsFiniteSet(UNION C)
  <2> HIDE DEF C
  <2> QED BY <1>2, <1>3, FS_UNION
<1> QED BY <1>4, <1>5, FS_CardinalityType

(* The number of bytes at some keys depends on the sizes there only.         *)
LEMMA BytesSame ==
  ASSUME NEW y, NEW z, NEW S, \A k \in S : y[k] = z[k]
  PROVE  Bytes(y, S) = Bytes(z, S)
BY DEF Bytes

(* The size at a key is a number.                                            *)
LEMMA SizesNatural == ASSUME StorageTypeOK, NEW k \in ObjectKeys PROVE size[k] \in Nat
<1>1. Sizes \cup {0} \subseteq Nat
  BY SizesAssumption
<1>2. size[k] \in Sizes \cup {0}
  BY DEF StorageTypeOK
<1> QED BY <1>1, <1>2

(* One more key adds at most its size.                                       *)
LEMMA BytesGrow ==
  ASSUME NEW z, NEW S, NEW T, NEW j, IsFiniteSet(T), \A k \in T : z[k] \in Nat,
         z[j] \in Nat, S \subseteq T \cup {j}
  PROVE  Cardinality(Bytes(z, S)) <= Cardinality(Bytes(z, T)) + z[j]
<1> DEFINE J == {j} \X (1..z[j])
<1>1. IsFiniteSet(Bytes(z, T)) /\ Cardinality(Bytes(z, T)) \in Nat
  BY BytesFinite
<1>2. IsFiniteSet(J) /\ Cardinality(J) = z[j]
  <2>1. IsFiniteSet({j}) /\ Cardinality({j}) = 1
    BY FS_Singleton
  <2>2. IsFiniteSet(1..z[j]) /\ Cardinality(1..z[j]) = z[j]
    <3> DEFINE n == z[j]
    <3> HIDE DEF n
    <3>1. n \in Nat
      BY DEF n
    <3>2. IsFiniteSet(1..n) /\ Cardinality(1..n) = IF 1 > n THEN 0 ELSE n - 1 + 1
      BY <3>1, FS_Interval
    <3> QED BY <3>1, <3>2 DEF n
  <2> QED BY <2>1, <2>2, FS_Product
<1>3. Bytes(z, S) \subseteq Bytes(z, T) \cup J
  BY DEF Bytes
<1> DEFINE U == Bytes(z, T) \cup J
<1>4. IsFiniteSet(U) /\ Cardinality(U) <= Cardinality(Bytes(z, T)) + z[j]
  <2> HIDE DEF J
  <2>1. /\ IsFiniteSet(U)
        /\ Cardinality(U) = Cardinality(Bytes(z, T)) + Cardinality(J) - Cardinality(Bytes(z, T) \cap J)
    BY <1>1, <1>2, FS_Union
  <2>2. Cardinality(Bytes(z, T) \cap J) \in Nat
    BY <1>1, FS_Intersection, FS_CardinalityType
  <2> QED BY <1>1, <1>2, <2>1, <2>2
<1>5. IsFiniteSet(Bytes(z, S)) /\ Cardinality(Bytes(z, S)) <= Cardinality(U)
  <2> HIDE DEF U
  <2> QED BY <1>3, <1>4, FS_Subset DEF U
<1>6. Cardinality(U) \in Nat /\ Cardinality(Bytes(z, S)) \in Nat
  <2> HIDE DEF U
  <2> QED BY <1>4, <1>5, FS_CardinalityType
<1> HIDE DEF U
<1> QED BY <1>1, <1>4, <1>5, <1>6

(* An upload that may still be accepted, or was; the keys that hold one.     *)
Candidate(u) == finalizePc[u] \in {"head", "list"} \/ u \in accepted
InPlace == {k \in FileKeys : object[k] \in Uploads /\ Candidate(object[k])}

(* The upload answers for the bytes at the keys S: it has yet to list them,  *)
(* it has counted the ones it has listed, or it found them within the quota. *)
Covers(u, S) ==
    \/ finalizePc[u] = "head"
    \/ finalizePc[u] = "list" /\ BytesAt(S \ left[u]) <= sum[u]
    \/ u \in accepted /\ BytesAt(S) <= Quota

(* Of any candidates in place, one answers for all of them: the one that     *)
(* wrote its object last.                                                    *)
QuotaInv ==
    /\ StorageTypes
    /\ \A u \in accepted : finalizePc[u] = "done"
    /\ \A k \in FileKeys : object[k] \in Uploads => finalizePc[object[k]] # "open"
    /\ \A S \in SUBSET InPlace : S # {} => \E k \in S : Covers(object[k], S)

(* Where the objects and sizes at S stay, and the uploads that wrote them    *)
(* stay where they are, the same upload answers for S.                       *)
LEMMA CoversStays ==
  ASSUME NEW S, NEW u, Covers(u, S), \A k \in S : size'[k] = size[k],
         /\ finalizePc'[u] = finalizePc[u] /\ left'[u] = left[u] /\ sum'[u] = sum[u]
         /\ u \in accepted => u \in accepted'
  PROVE  Covers(u, S)'
<1>1. Bytes(size', S) = Bytes(size, S) /\ Bytes(size', S \ left[u]) = Bytes(size, S \ left[u])
  BY BytesSame
<1> QED BY <1>1 DEF Covers, BytesAt

(* No object is in place at the start.                                       *)
LEMMA QuotaInit == StorageInit => QuotaInv
<1> SUFFICES ASSUME StorageInit PROVE QuotaInv
  OBVIOUS
<1>1. \A k \in FileKeys : object[k] \notin Uploads
  BY KeysAssumption DEF StorageInit, ObjectKeys
<1>2. InPlace = {} /\ accepted = {}
  BY <1>1 DEF InPlace, StorageInit
<1> QED BY <1>1, <1>2, StorageTypesInit DEF QuotaInv

(* A step that brings no candidate in place, and leaves alone the objects of *)
(* those that stay and the uploads that wrote them, keeps the invariant.     *)
LEMMA QuotaKept ==
  ASSUME QuotaInv, StorageTypes',
         \A u \in accepted' : finalizePc'[u] = "done",
         \A k \in FileKeys : object'[k] \in Uploads =>
            object'[k] = object[k] /\ finalizePc'[object[k]] # "open",
         \A k \in InPlace' : /\ object'[k] = object[k] /\ size'[k] = size[k]
                             /\ k \in InPlace,
         ASSUME NEW S \in SUBSET InPlace', NEW k \in S, NEW u \in Uploads,
                u = object[k], Covers(u, S)
         PROVE  Covers(u, S)'
  PROVE  QuotaInv'
<1>1. ASSUME NEW S \in SUBSET InPlace', S # {} PROVE \E k \in S : Covers(object[k], S)'
  <2>1. S \in SUBSET InPlace
    OBVIOUS
  <2>2. PICK k \in S : Covers(object[k], S)
    BY <1>1, <2>1 DEF QuotaInv
  <2>3. PICK u \in Uploads : u = object[k] /\ u = object'[k]
    BY <2>1 DEF InPlace
  <2>4. Covers(u, S)'
    BY <2>2, <2>3
  <2> QED BY <2>3, <2>4 DEF Covers
<1> QED BY <1>1 DEF QuotaInv
(* So does a step that leaves the files and their finalizations alone.       *)
LEMMA QuotaElsewhere ==
  ASSUME QuotaInv, StorageTypes', UNCHANGED finalizing,
         \A k \in FileKeys : object'[k] = object[k] /\ size'[k] = size[k]
  PROVE  QuotaInv'
<1>1. /\ \A u \in accepted' : finalizePc'[u] = "done"
      /\ \A k \in FileKeys : object'[k] \in Uploads =>
            object'[k] = object[k] /\ finalizePc'[object[k]] # "open"
      /\ InPlace' = InPlace
  BY DEF QuotaInv, InPlace, Candidate, finalizing
<1>2. \A k \in InPlace' : object'[k] = object[k] /\ size'[k] = size[k] /\ k \in InPlace
  BY <1>1 DEF InPlace
<1>3. ASSUME NEW S \in SUBSET InPlace', NEW k \in S, NEW u \in Uploads, u = object[k], Covers(u, S)
      PROVE  Covers(u, S)'
  BY <1>2, <1>3, CoversStays DEF finalizing
<1> QED BY <1>1, <1>2, <1>3, QuotaKept

(* A write to a key of a blob, or none, leaves the files alone.              *)
LEMMA BlobWritten ==
  ASSUME StorageTypeOK, NEW b \in BlobKeys, NEW by, NEW n, Put(b, by, n) \/ UNCHANGED store
  PROVE  \A k \in FileKeys : object'[k] = object[k] /\ size'[k] = size[k]
BY KeysAssumption DEF Put, store, StorageTypeOK, ObjectKeys

(* The upload that writes its object answers for whatever is in place with   *)
(* it: its listing is yet to come.                                           *)
LEMMA QuotaAssembles ==
  ASSUME QuotaInv, StorageTypes', NEW u \in Uploads, Assemble(u)
  PROVE  QuotaInv'
<1>1. PICK k \in FileKeys, n \in Sizes : Put(k, u, n)
  BY DEF Assemble
<1>2. /\ finalizePc[u] = "open" /\ finalizePc'[u] = "head"
      /\ \A v \in Uploads \ {u} : finalizePc'[v] = finalizePc[v]
      /\ UNCHANGED <<sum, left, accepted>>
  BY DEF Assemble, Goto, QuotaInv, StorageTypes, StorageTypeOK
<1>3. /\ object'[k] = u
      /\ \A j \in FileKeys \ {k} : object'[j] = object[j] /\ size'[j] = size[j]
  BY <1>1 DEF Put, QuotaInv, StorageTypes, StorageTypeOK, ObjectKeys
<1>4. \A j \in FileKeys : object[j] # u
  BY <1>2 DEF QuotaInv
<1>5. u \notin accepted
  BY <1>2 DEF QuotaInv
<1>6. \A v \in accepted' : finalizePc'[v] = "done"
  BY <1>2, <1>5 DEF QuotaInv, StorageTypes, StorageTypeOK
<1>7. \A j \in FileKeys : object'[j] \in Uploads => finalizePc'[object'[j]] # "open"
  BY <1>2, <1>3, <1>4 DEF QuotaInv
<1>8. ASSUME NEW S \in SUBSET InPlace', S # {} PROVE \E j \in S : Covers(object[j], S)'
  <2>1. CASE k \in S
    <3>1. Covers(object[k], S)'
      BY <1>2, <1>3 DEF Covers
    <3> QED BY <2>1, <3>1
  <2>2. CASE k \notin S
    <3>1. ASSUME NEW j \in S PROVE j \in InPlace /\ object'[j] = object[j] /\ size'[j] = size[j]
      BY <1>2, <1>3, <1>4, <2>2 DEF InPlace, Candidate
    <3>2. PICK j \in S : Covers(object[j], S)
      BY <1>8, <3>1 DEF QuotaInv
    <3>3. PICK v \in Uploads \ {u} : v = object[j] /\ v = object'[j]
      BY <1>4, <3>1 DEF InPlace
    <3>4. Covers(v, S)'
      BY <1>2, <3>1, <3>2, <3>3, CoversStays
    <3> QED BY <3>3, <3>4 DEF Covers
  <2> QED BY <2>1, <2>2
<1> QED BY <1>6, <1>7, <1>8 DEF QuotaInv

(* The listing, the comparison with the quota and the ways out of it keep    *)
(* the answers.                                                              *)
LEMMA QuotaListed ==
  ASSUME QuotaInv, StorageTypes', NEW u \in Uploads,
         HeadObject(u) \/ ListKey(u) \/ ListFails(u) \/ EnforceQuota(u) \/ Disconnect(u)
  PROVE  QuotaInv'
<1>t. StorageTypeOK
  BY DEF QuotaInv, StorageTypes
<1>1. /\ UNCHANGED <<object, size>> /\ finalizePc[u] \in {"head", "list", "reject"}
      /\ u \notin accepted /\ finalizePc'[u] # "open"
      /\ u \in accepted' => finalizePc'[u] = "done"
      /\ accepted \subseteq accepted' /\ accepted' \subseteq accepted \cup {u}
      /\ \A v \in Uploads \ {u} : /\ finalizePc'[v] = finalizePc[v]
                                  /\ left'[v] = left[v] /\ sum'[v] = sum[v]
  BY <1>t DEF HeadObject, ListKey, ListFails, EnforceQuota, Disconnect, Goto, EndListing, store,
     QuotaInv, StorageTypeOK
<1>2. \A v \in accepted' : finalizePc'[v] = "done"
  BY <1>1, <1>t DEF QuotaInv, StorageTypeOK
<1>3. \A k \in FileKeys : object'[k] \in Uploads =>
         object'[k] = object[k] /\ finalizePc'[object[k]] # "open"
  BY <1>1 DEF QuotaInv
<1>4. Candidate(u)' => Candidate(u)
  BY <1>t DEF Candidate, HeadObject, ListKey, ListFails, EnforceQuota, Disconnect, Goto, StorageTypeOK
<1>5. ASSUME NEW k \in InPlace' PROVE k \in InPlace
  <2>1. k \in FileKeys /\ object[k] \in Uploads /\ Candidate(object[k])'
    BY <1>1 DEF InPlace
  <2>2. CASE object[k] = u
    BY <1>4, <2>1, <2>2, <1>1 DEF InPlace, Candidate
  <2>3. CASE object[k] # u
    BY <1>1, <2>1, <2>3 DEF InPlace, Candidate
  <2> QED BY <2>2, <2>3
<1>6. ASSUME NEW S \in SUBSET InPlace', NEW k \in S, NEW v \in Uploads, v = object[k], Covers(v, S)
      PROVE  Covers(v, S)'
  <2>1. CASE v # u
    BY <1>1, <1>6, <2>1, CoversStays
  <2>2. CASE v = u
    <3>1. Candidate(u)'
      BY <1>1, <1>6, <2>2 DEF InPlace, Candidate
    <3>2. /\ IsFiniteSet(S) /\ \A j \in S : size[j] \in Nat
      <4>1. S \subseteq ObjectKeys
        BY DEF InPlace, ObjectKeys
      <4>2. IsFiniteSet(S)
        BY <4>1, KeysAssumption, FS_Subset DEF ObjectKeys
      <4> QED BY <1>t, <4>1, <4>2, SizesNatural
    <3>3. CASE HeadObject(u)
      <4>1. finalizePc'[u] = "list" /\ left'[u] = ObjectKeys /\ sum'[u] = sum[u]
        BY <1>t, <1>1, <3>1, <3>3 DEF HeadObject, Goto, Candidate, StorageTypeOK
      <4>2. S \ ObjectKeys = {}
        BY DEF InPlace, ObjectKeys
      <4>3. Bytes(size, {}) = {}
        BY DEF Bytes
      <4>4. sum[u] \in Nat
        BY <1>t DEF StorageTypeOK
      <4> QED BY <1>1, <2>2, <4>1, <4>2, <4>3, <4>4, FS_EmptySet DEF Covers, BytesAt
    <3>4. CASE ListKey(u)
      <4>1. PICK j \in left[u] : /\ sum' = [sum EXCEPT ![u] = @ + size[j]]
                                 /\ left' = [left EXCEPT ![u] = @ \ {j}]
        BY <3>4 DEF ListKey
      <4>2. /\ finalizePc[u] = "list" /\ finalizePc'[u] = "list"
            /\ sum'[u] = sum[u] + size[j] /\ left'[u] = left[u] \ {j}
            /\ sum[u] \in Nat /\ j \in ObjectKeys
        BY <1>t, <3>4, <4>1 DEF ListKey, StorageTypeOK
      <4>3. size[j] \in Nat
        BY <1>t, <4>2, SizesNatural
      <4>4. BytesAt(S \ left[u]) <= sum[u]
        BY <1>1, <1>6, <2>2, <4>2 DEF Covers
      <4>5. IsFiniteSet(S \ left[u]) /\ \A i \in S \ left[u] : size[i] \in Nat
        BY <3>2, FS_Subset
      <4>6. S \ left'[u] \subseteq (S \ left[u]) \cup {j}
        BY <4>2
      <4>7. Cardinality(Bytes(size, S \ left'[u])) <= Cardinality(Bytes(size, S \ left[u])) + size[j]
        BY <4>3, <4>5, <4>6, BytesGrow
      <4>8. IsFiniteSet(S \ left'[u]) /\ \A i \in S \ left'[u] : size[i] \in Nat
        BY <3>2, FS_Subset
      <4>9. Cardinality(Bytes(size, S \ left[u])) \in Nat /\ Cardinality(Bytes(size, S \ left'[u])) \in Nat
        BY <4>5, <4>8, BytesFinite
      <4>10. Cardinality(Bytes(size, S \ left'[u])) <= sum'[u]
        BY <4>2, <4>3, <4>4, <4>7, <4>9 DEF BytesAt
      <4> QED BY <1>1, <2>2, <4>2, <4>10 DEF Covers, BytesAt
    <3>5. CASE EnforceQuota(u)
      <4>1. finalizePc[u] = "list" /\ left[u] = {} /\ sum[u] <= Quota /\ u \in accepted'
        BY <1>t, <1>1, <3>1, <3>5 DEF EnforceQuota, Goto, Candidate, StorageTypeOK
      <4>2. BytesAt(S) <= sum[u]
        <5>1. S \ left[u] = S
          BY <4>1
        <5> QED BY <1>1, <1>6, <2>2, <4>1, <5>1 DEF Covers
      <4>3. Cardinality(Bytes(size, S)) \in Nat /\ sum[u] \in Nat /\ Quota \in Nat
        BY <1>t, <3>2, BytesFinite, SizesAssumption DEF StorageTypeOK
      <4>4. BytesAt(S) <= Quota
        BY <4>1, <4>2, <4>3 DEF BytesAt
      <4> QED BY <1>1, <2>2, <4>1, <4>4 DEF Covers, BytesAt
    <3>6. CASE ListFails(u) \/ Disconnect(u)
      BY <1>t, <1>1, <3>1, <3>6 DEF ListFails, Disconnect, Goto, Candidate, StorageTypeOK
    <3> QED BY <3>3, <3>4, <3>5, <3>6
  <2> QED BY <2>1, <2>2
<1>7. \A k \in InPlace' : object'[k] = object[k] /\ size'[k] = size[k] /\ k \in InPlace
  BY <1>1, <1>5
<1> QED BY <1>2, <1>3, <1>6, <1>7, QuotaKept
(* A rejected upload takes the object at its key away, whoever wrote it.     *)
LEMMA QuotaRejects ==
  ASSUME QuotaInv, StorageTypes', NEW u \in Uploads, deleteFinalObject(u)
  PROVE  QuotaInv'
<1>t. StorageTypeOK
  BY DEF QuotaInv, StorageTypes
<1>1. /\ finalizePc[u] = "reject" /\ finalizePc' = [finalizePc EXCEPT ![u] = "done"]
      /\ UNCHANGED <<sum, left, accepted>>
  BY DEF deleteFinalObject, Goto
<1>2. u \notin accepted
  BY <1>1 DEF QuotaInv
<1>3. \A k \in FileKeys : \/ object'[k] = object[k] /\ size'[k] = size[k]
                          \/ object'[k] = NoObject
  BY <1>t DEF deleteFinalObject, Remove, Put, store, StorageTypeOK, ObjectKeys
<1>4. \A v \in accepted' : finalizePc'[v] = "done"
  BY <1>1, <1>2, <1>t DEF QuotaInv, StorageTypeOK
<1>5. \A k \in FileKeys : object'[k] \in Uploads =>
         object'[k] = object[k] /\ size'[k] = size[k] /\ finalizePc'[object[k]] # "open"
  BY <1>1, <1>3, <1>t, KeysAssumption DEF QuotaInv, StorageTypeOK
<1>6. \A v \in Uploads : Candidate(v)' => Candidate(v) /\ finalizePc'[v] = finalizePc[v]
  BY <1>1, <1>2, <1>t DEF Candidate, StorageTypeOK
<1>7. ASSUME NEW k \in InPlace'
      PROVE  /\ object'[k] = object[k] /\ size'[k] = size[k] /\ k \in InPlace
             /\ finalizePc'[object[k]] = finalizePc[object[k]]
  <2>1. PICK v \in Uploads : v = object'[k] /\ k \in FileKeys /\ Candidate(v)'
    BY DEF InPlace, Candidate
  <2> QED BY <1>5, <1>6, <2>1 DEF InPlace
<1>8. ASSUME NEW S \in SUBSET InPlace', NEW k \in S, NEW v \in Uploads, v = object[k], Covers(v, S)
      PROVE  Covers(v, S)'
  BY <1>1, <1>7, <1>8, CoversStays
<1> QED BY <1>4, <1>5, <1>7, <1>8, QuotaKept

(* Every step keeps the invariant of the quota.                              *)
LEMMA QuotaStep ==
  ASSUME QuotaInv, [StorageNext]_storageVars
  PROVE  QuotaInv'
<1>t. StorageTypes /\ StorageTypeOK /\ StorageTypes'
  BY StorageTypesStep DEF QuotaInv, StorageTypes
<1>1. ASSUME NEW u \in Uploads, Finalize(u) PROVE QuotaInv'
  BY <1>t, <1>1, QuotaAssembles, QuotaListed, QuotaRejects DEF Finalize
<1>2. ASSUME NEW b \in BlobKeys, SingleShot(b) PROVE QuotaInv'
  <2>1. UNCHANGED finalizing /\ \E by, n : Put(b, by, n) \/ UNCHANGED store
    BY <1>2 DEF SingleShot, HandleGenerateUploadURL, ClientPut, UrlExpires, ConfirmUpload,
       ConfirmRemoves, DeleteBlob, Remove
  <2> QED BY <1>t, <2>1, BlobWritten, QuotaElsewhere
<1>3. CASE OrphanDelete
  <2>1. PICK b \in scan.page : Remove(b) \/ UNCHANGED store
    BY <1>3 DEF OrphanDelete
  <2>2. b \in BlobKeys /\ UNCHANGED finalizing
    BY <1>t, <1>3, <2>1 DEF OrphanDelete, StorageTypeOK
  <2> QED BY <1>t, <2>1, <2>2, BlobWritten, QuotaElsewhere DEF Remove
<1>4. CASE OrphanPage \/ OrphanEnds \/ UNCHANGED storageVars
  BY <1>t, <1>4, QuotaElsewhere DEF OrphanPage, OrphanEnds, storageVars, store
<1> QED BY <1>1, <1>2, <1>3, <1>4 DEF StorageNext

(* However many finalizations run at once, each listing the keys one by one  *)
(* while the others write and nothing is locked, the uploads answered        *)
(* "completed" and still in place fit the tier's quota together: the check   *)
(* comes after the object is assembled, so the one that wrote last has       *)
(* counted all the others.                                                   *)
THEOREM AcceptedUploadsFitQuota == Spec => []AcceptedWithinQuota
<1>1. Init => QuotaInv
  BY QuotaInit DEF Init
<1>2. QuotaInv /\ [Next]_<<storageVars, uploadVars, part>> => QuotaInv'
  <2> SUFFICES ASSUME QuotaInv, [Next]_<<storageVars, uploadVars, part>> PROVE QuotaInv'
    OBVIOUS
  <2>1. [StorageNext]_storageVars
    BY DEF Next
  <2> QED BY <2>1, QuotaStep
<1>3. QuotaInv => AcceptedWithinQuota
  <2> SUFFICES ASSUME QuotaInv PROVE AcceptedWithinQuota
    OBVIOUS
  <2> DEFINE S == {k \in FileKeys : object[k] \in accepted}
  <2>1. CASE S = {}
    <3>1. Bytes(size, {}) = {}
      BY DEF Bytes
    <3> QED BY <2>1, <3>1, FS_EmptySet, SizesAssumption DEF AcceptedWithinQuota, BytesAt
  <2>2. CASE S # {}
    <3>1. S \in SUBSET InPlace
      BY DEF InPlace, Candidate, QuotaInv, StorageTypes, StorageTypeOK
    <3>2. PICK k \in S : Covers(object[k], S)
      BY <2>2, <3>1 DEF QuotaInv
    <3>3. finalizePc[object[k]] = "done"
      BY DEF QuotaInv
    <3> QED BY <3>2, <3>3 DEF Covers, AcceptedWithinQuota
  <2> QED BY <2>1, <2>2
<1> QED BY <1>1, <1>2, <1>3, PTL DEF Spec
=============================================================================
