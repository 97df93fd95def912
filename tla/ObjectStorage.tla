---------------------------- MODULE ObjectStorage ----------------------------
(***************************************************************************)
(* The objects of one user in S3 and the limits of the user's tier: the      *)
(* single-shot upload (presigned PUT, then confirm), the enforcement at the  *)
(* end of a multipart upload, deletion, and the nightly orphan job           *)
(* (usbvault-server/internal/storage: s3.go, multipart.go FinalizeUpload;    *)
(* internal/gc/s3_orphan.go).                                                *)
(*                                                                          *)
(* No statement of the server inserts a row into blobs (QueryCreateBlob has  *)
(* no caller), so the table is empty and is left out: the UPDATE of a        *)
(* deletion touches no row and the orphan job finds no id.  Every S3 call is *)
(* a step; the listing that measures usage reads one key at a time.  Sizes   *)
(* are small numbers.  The tier does not change.  The listing before a URL   *)
(* is issued is one step: nothing depends on where in it a write falls.      *)
(***************************************************************************)
EXTENDS Integers, FiniteSets

CONSTANTS
    Uploads,     \* multipart uploads, each finalized at most once
    FileKeys,    \* keys vaults/<vault>/files/<file>
    BlobKeys,    \* keys vaults/<vault>/<blob>
    Sizes,       \* sizes an object may have
    MaxFile,     \* getMaxFileSizeForTier
    Quota,       \* MaxStorageMB of the tier
    MaxDeletes,  \* maxDeletes of the orphan job
    S3Faults,    \* TRUE: a HEAD, a listing or a DELETE may fail
    NoObject         \* no object, no key

ASSUME SizesAssumption ==
    /\ Sizes \subseteq Nat \ {0}
    /\ MaxFile \in Nat /\ Quota \in Nat /\ MaxDeletes \in Nat \ {0}
ASSUME KeysAssumption ==
    /\ FileKeys \cap BlobKeys = {} /\ IsFiniteSet(FileKeys \cup BlobKeys)
    /\ NoObject \notin FileKeys \cup BlobKeys \cup Uploads \cup {"put"}
    /\ S3Faults \in BOOLEAN

ObjectKeys == FileKeys \cup BlobKeys

VARIABLES
    object,     \* who wrote the object at each key: an upload, "put", or NoObject
    size,       \* its size; 0 when there is none
    finalizePc,         \* FinalizeUpload of each upload
    key,        \* the upload's key
    sum, left,  \* the listing under way: bytes counted, keys to come
    accepted,   \* uploads answered "completed"
    urls,       \* blobs with a presigned URL that has not expired
    oversize,   \* blobs a confirm has found too large and will delete
    confirmed,  \* blobs answered "confirmed" and not deleted by their user
    scan        \* the orphan job: its page, the keys it has listed, its count

store == <<object, size>>
finalizing == <<finalizePc, key, sum, left, accepted>>
single == <<urls, oversize, confirmed>>
storageVars == <<store, finalizing, single, scan>>

NoScan == [page |-> {}, listed |-> {}, deleted |-> 0, on |-> FALSE]

(* The type invariant; an object that is there has a size.                   *)
StorageTypeOK ==
    /\ object \in [ObjectKeys -> Uploads \cup {"put", NoObject}]
    /\ size \in [ObjectKeys -> Sizes \cup {0}]
    /\ \A k \in ObjectKeys : object[k] = NoObject <=> size[k] = 0
    /\ finalizePc \in [Uploads -> {"open", "head", "list", "reject", "done"}]
    /\ key \in [Uploads -> FileKeys \cup {NoObject}]
    /\ sum \in [Uploads -> Nat] /\ left \in [Uploads -> SUBSET ObjectKeys]
    /\ accepted \subseteq Uploads
    /\ urls \subseteq BlobKeys /\ oversize \subseteq BlobKeys /\ confirmed \subseteq BlobKeys
    /\ scan.page \subseteq BlobKeys /\ scan.listed \subseteq BlobKeys
    /\ scan.deleted \in Nat /\ scan.on \in BOOLEAN

StorageInit ==
    /\ object = [k \in ObjectKeys |-> NoObject] /\ size = [k \in ObjectKeys |-> 0]
    /\ finalizePc = [u \in Uploads |-> "open"] /\ key = [u \in Uploads |-> NoObject]
    /\ sum = [u \in Uploads |-> 0] /\ left = [u \in Uploads |-> {}]
    /\ accepted = {}
    /\ urls = {} /\ oversize = {} /\ confirmed = {}
    /\ scan = NoScan

-----------------------------------------------------------------------------
Put(k, by, n) ==
    /\ object' = [object EXCEPT ![k] = by]
    /\ size' = [size EXCEPT ![k] = n]

(* DeleteObject: by key, whoever wrote what is there.                        *)
Remove(k) == Put(k, NoObject, 0)

Goto(u, l) == finalizePc' = [finalizePc EXCEPT ![u] = l]

(* The count of a listing is a local of the call and goes with it.           *)
EndListing(u) ==
    /\ sum' = [sum EXCEPT ![u] = 0]
    /\ left' = [left EXCEPT ![u] = {}]

(* The bytes at the keys S, the k-th of them having z[k]; their number.      *)
Bytes(z, S) == UNION {{k} \X (1..z[k]) : k \in S}
BytesAt(S) == Cardinality(Bytes(size, S))
CurrentStorageBytes == BytesAt(ObjectKeys)

-----------------------------------------------------------------------------
(* FinalizeUpload: CompleteMultipartUpload writes the key, over whatever is  *)
(* there; the client decides the real size.                                  *)
Assemble(u) ==
    /\ finalizePc[u] = "open"
    /\ \E k \in FileKeys, n \in Sizes :
          Put(k, u, n) /\ key' = [key EXCEPT ![u] = k]
    /\ Goto(u, "head")
    /\ UNCHANGED <<sum, left, accepted, single, scan>>

(* HEAD: the size of what is at the key now.                                 *)
HeadObject(u) ==
    /\ finalizePc[u] = "head"
    /\ \/ size[key[u]] \in 1..MaxFile
          /\ Goto(u, "list")
          /\ left' = [left EXCEPT ![u] = ObjectKeys]
       \/ (size[key[u]] \notin 1..MaxFile \/ S3Faults)
          /\ Goto(u, "reject") /\ UNCHANGED left
    /\ UNCHANGED <<store, key, sum, accepted, single, scan>>

(* CurrentStorageBytes, key by key.                                          *)
ListKey(u) ==
    /\ finalizePc[u] = "list"
    /\ \E k \in left[u] :
          /\ sum' = [sum EXCEPT ![u] = @ + size[k]]
          /\ left' = [left EXCEPT ![u] = @ \ {k}]
    /\ UNCHANGED <<store, finalizePc, key, accepted, single, scan>>

ListFails(u) ==
    /\ S3Faults
    /\ finalizePc[u] = "list"
    /\ Goto(u, "reject") /\ EndListing(u)
    /\ UNCHANGED <<store, key, accepted, single, scan>>

(* Slip: the new object is compared with the quota on its own.               *)
EnforceOwnSize(u) ==
    /\ finalizePc[u] = "list" /\ left[u] = {}
    /\ \/ size[key[u]] <= Quota /\ accepted' = accepted \cup {u} /\ Goto(u, "done")
       \/ size[key[u]] > Quota /\ Goto(u, "reject") /\ UNCHANGED accepted
    /\ EndListing(u)
    /\ UNCHANGED <<store, key, single, scan>>

EnforceQuota(u) ==
    /\ finalizePc[u] = "list" /\ left[u] = {}
    /\ \/ sum[u] <= Quota /\ accepted' = accepted \cup {u} /\ Goto(u, "done")
       \/ sum[u] > Quota /\ Goto(u, "reject") /\ UNCHANGED accepted
    /\ EndListing(u)
    /\ UNCHANGED <<store, key, single, scan>>

(* deleteFinalObject: by key, best effort.                                   *)
deleteFinalObject(u) ==
    /\ finalizePc[u] = "reject"
    /\ Remove(key[u]) \/ (S3Faults /\ UNCHANGED store)
    /\ Goto(u, "done")
    /\ UNCHANGED <<key, sum, left, accepted, single, scan>>

(* The client goes away, or the process dies.  Every call is made with the   *)
(* request's context: the check fails, and so does the deletion after it.    *)
Disconnect(u) ==
    /\ finalizePc[u] \in {"head", "list", "reject"}
    /\ Goto(u, "done") /\ EndListing(u)
    /\ UNCHANGED <<store, key, accepted, single, scan>>

-----------------------------------------------------------------------------
(* Single-shot uploads.                                                      *)

HandleGenerateUploadURL(b) ==
    /\ \E n \in Sizes : n <= MaxFile /\ CurrentStorageBytes + n <= Quota
    /\ urls' = urls \cup {b}
    /\ UNCHANGED <<store, finalizing, oversize, confirmed, scan>>

(* The client's PUT; the presigned URL does not bind the declared length.    *)
ClientPut(b) ==
    /\ b \in urls
    /\ \E n \in Sizes : Put(b, "put", n)
    /\ UNCHANGED <<finalizing, single, scan>>

UrlExpires(b) ==
    /\ b \in urls
    /\ urls' = urls \ {b}
    /\ UNCHANGED <<store, finalizing, oversize, confirmed, scan>>

ConfirmUpload(b) ==
    /\ size[b] > 0 /\ b \notin oversize
    /\ \/ size[b] <= MaxFile /\ confirmed' = confirmed \cup {b} /\ UNCHANGED oversize
       \/ size[b] > MaxFile /\ oversize' = oversize \cup {b} /\ UNCHANGED confirmed
    /\ UNCHANGED <<store, finalizing, urls, scan>>

ConfirmRemoves(b) ==
    /\ b \in oversize
    /\ Remove(b) \/ (S3Faults /\ UNCHANGED store)
    /\ oversize' = oversize \ {b}
    /\ confirmed' = confirmed \ {b}
    /\ UNCHANGED <<finalizing, urls, scan>>

(* DeleteBlob: the S3 deletion is best effort after the commit.              *)
DeleteBlob(b) ==
    /\ Remove(b) \/ (S3Faults /\ UNCHANGED store)
    /\ confirmed' = confirmed \ {b}
    /\ UNCHANGED <<finalizing, urls, oversize, scan>>

-----------------------------------------------------------------------------
(* S3OrphanJob.  Keys of multipart files have four parts and are skipped.    *)

Found == {b \in BlobKeys : size[b] > 0}

(* A page of the listing; every id on it is missing from blobs.              *)
OrphanPage ==
    /\ scan.page = {} /\ scan.deleted < MaxDeletes
    /\ \E S \in SUBSET (Found \ scan.listed) :
          /\ S # {}
          /\ scan' = [scan EXCEPT !.on = TRUE, !.page = S, !.listed = @ \cup S]
    /\ UNCHANGED <<store, finalizing, single>>

OrphanDelete ==
    /\ scan.deleted < MaxDeletes
    /\ \E b \in scan.page :
          \/ Remove(b) /\ scan' = [scan EXCEPT !.page = @ \ {b}, !.deleted = @ + 1]
          \/ S3Faults /\ UNCHANGED store /\ scan' = [scan EXCEPT !.page = @ \ {b}]
    /\ UNCHANGED <<finalizing, single>>

OrphanEnds ==
    /\ scan.on
    /\ scan.page = {} \/ scan.deleted >= MaxDeletes
    /\ scan' = NoScan
    /\ UNCHANGED <<store, finalizing, single>>

-----------------------------------------------------------------------------
Finalize(u) ==
    \/ Assemble(u) \/ HeadObject(u) \/ ListKey(u) \/ ListFails(u)
    \/ EnforceQuota(u) \/ deleteFinalObject(u) \/ Disconnect(u)

SingleShot(b) ==
    \/ HandleGenerateUploadURL(b) \/ ClientPut(b) \/ UrlExpires(b)
    \/ ConfirmUpload(b) \/ ConfirmRemoves(b) \/ DeleteBlob(b)

StorageNext ==
    \/ \E u \in Uploads : Finalize(u)
    \/ \E b \in BlobKeys : SingleShot(b)
    \/ OrphanPage \/ OrphanDelete \/ OrphanEnds

StorageSpec == StorageInit /\ [][StorageNext]_storageVars

-----------------------------------------------------------------------------
(* The uploads that were accepted and are still in place fit the quota       *)
(* together, whatever finishes concurrently: the check after assembly makes  *)
(* the last of them see the others, although the listing is no snapshot and  *)
(* nothing is locked.                                                        *)
AcceptedWithinQuota ==
    BytesAt({k \in FileKeys : object[k] \in accepted}) <= Quota

StorageQuiet == \A u \in Uploads : finalizePc[u] \in {"open", "done"}

(* s3.go: a tier cannot exceed MaxStorageMB however the bytes are split.     *)
TierStorageHolds == StorageQuiet => CurrentStorageBytes <= Quota

(* multipart.go: an object whose size could not be verified cannot persist.  *)
UnverifiedNeverPersists ==
    StorageQuiet => \A k \in FileKeys : object[k] \in Uploads => object[k] \in accepted

(* multipart.go: a rejected finalize deletes the just-assembled object.      *)
(* It never takes away an object that was accepted.                          *)
RejectsOwnObject ==
    [][\A u \in Uploads :
          finalizePc[u] = "reject" /\ finalizePc'[u] = "done" /\ object' # object =>
             object[key[u]] \notin accepted]_storageVars

(* The orphan job cleans up after failed metadata deletes (ADR 008); a blob  *)
(* whose upload was confirmed stays until its user deletes it.               *)
ConfirmedKept == \A b \in confirmed : size[b] > 0
=============================================================================
