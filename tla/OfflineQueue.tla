----------------------------- MODULE OfflineQueue -----------------------------
(***************************************************************************)
(* The queue of operations made while offline                               *)
(* (usbvault-app/src/services/offlineQueueService.ts, with the actions of    *)
(* stores/offlineStore.ts).  The queue lives in memory and is copied to      *)
(* localStorage by saveQueue; a reload of the page starts again from the     *)
(* copy.  JavaScript runs one callback at a time, so an action extends from  *)
(* one await to the next: a pass of processQueue waits for the handler of an *)
(* operation, or for the back-off after a failure.                           *)
(*                                                                          *)
(* An operation is a shared object: a pass works on the objects it selected  *)
(* when it began, whether or not they are still in the queue.                *)
(***************************************************************************)
EXTENDS Naturals, SequencesExt, Arrays

CONSTANTS
    Ops,           \* operations that may be enqueued
    Passes,        \* slots for activations of processQueue
    OpRetries,     \* maxRetries of an operation
    QueueCap,      \* MAX_QUEUE_SIZE
    SaveMayFail    \* whether localStorage.setItem may throw

ASSUME OfflineQueueAssumption ==
    OpRetries \in Nat \ {0} /\ QueueCap \in Nat \ {0} /\ SaveMayFail \in BOOLEAN

VARIABLES
    opQueue,        \* queue: the operations, oldest first
    opStatus,       \* status of each operation object
    opRetry,        \* retryCount of each operation object
    opStored,       \* what localStorage holds: [op, status, retry], oldest first
    queueBusy,      \* isProcessing
    queueOnline,    \* isOnline
    netUp,          \* navigator.onLine
    handlerSet,     \* a handler is registered
    passTodo,       \* the operations an activation still has to visit
    passAt,         \* where it waits: "idle", "handler" or "backoff"
    opDone,         \* history: successes of the handler since the page loaded, up to 2
    opSettled,      \* history: operations that succeeded, were cleared, or were trimmed when failed
    clearedMidPass  \* history: clear() was called while a pass was waiting

passVars == <<passTodo, passAt>>
queueHistory == <<opDone, opSettled, clearedMidPass>>
QueueVars ==
    <<opQueue, opStatus, opRetry, opStored, queueBusy, queueOnline, netUp, handlerSet,
      passVars, queueHistory>>

OpStatuses == {"none", "pending", "processing", "completed", "failed"}
StoredOps == [op : Ops, status : OpStatuses \ {"none"}, retry : 0..OpRetries]

(* The type invariant.                                                       *)
QueueTypeOK ==
    /\ opQueue \in Seq(Ops)
    /\ opStatus \in [Ops -> OpStatuses]
    /\ opRetry \in [Ops -> 0..OpRetries]
    /\ opStored \in Seq(StoredOps)
    /\ {queueBusy, queueOnline, netUp, handlerSet, clearedMidPass} \subseteq BOOLEAN
    /\ passTodo \in [Passes -> Seq(Ops)]
    /\ passAt \in [Passes -> {"idle", "handler", "backoff"}]
    /\ opDone \in [Ops -> 0..2]
    /\ opSettled \subseteq Ops

QueueInit ==
    /\ opQueue = <<>> /\ opStored = <<>>
    /\ opStatus = [o \in Ops |-> "none"]
    /\ opRetry = [o \in Ops |-> 0]
    /\ queueBusy = FALSE
    /\ netUp \in BOOLEAN /\ queueOnline = netUp
    /\ handlerSet = FALSE
    /\ passTodo = [p \in Passes |-> <<>>]
    /\ passAt = [p \in Passes |-> "idle"]
    /\ opDone = [o \in Ops |-> 0]
    /\ opSettled = {} /\ clearedMidPass = FALSE

-----------------------------------------------------------------------------
(* saveQueue: the array as it stands, unless setItem throws, which is        *)
(* swallowed.                                                                *)
saveQueue(q, st, rt) ==
    opStored' \in {[i \in 1..Len(q) |-> [op |-> q[i], status |-> st[q[i]], retry |-> rt[q[i]]]]}
                  \cup (IF SaveMayFail THEN {opStored} ELSE {})

(* trimQueue: past the limit, the oldest failed and completed operations go; *)
(* pending ones stay, whatever the length.                                   *)
trimQueue(q) ==
    LET excess == Len(q) - QueueCap
        removable == filter(q, {o \in Ops : opStatus[o] \in {"failed", "completed"}})
        gone == {removable[i] : i \in {j \in 1..Len(removable) : j <= excess}}
    IN  IF Len(q) > QueueCap THEN filter(q, Ops \ gone) ELSE q

(* Slip: the queue is saved before the new operation is in it.               *)
enqueueSavedEarly(o) ==
    /\ opStatus[o] = "none"
    /\ opStatus' = [opStatus EXCEPT ![o] = "pending"]
    /\ opQueue' = trimQueue(Append(opQueue, o))
    /\ opSettled' = opSettled \cup (Range(opQueue) \ Range(opQueue'))
    /\ saveQueue(opQueue, opStatus', opRetry)
    /\ UNCHANGED <<opRetry, queueBusy, queueOnline, netUp, handlerSet, passVars,
                   opDone, clearedMidPass>>

enqueue(o) ==
    /\ opStatus[o] = "none"
    /\ opStatus' = [opStatus EXCEPT ![o] = "pending"]
    /\ opQueue' = trimQueue(Append(opQueue, o))
    /\ opSettled' = opSettled \cup (Range(opQueue) \ Range(opQueue'))
    /\ saveQueue(opQueue', opStatus', opRetry)
    /\ UNCHANGED <<opRetry, queueBusy, queueOnline, netUp, handlerSet, passVars,
                   opDone, clearedMidPass>>

registerHandler ==
    /\ ~handlerSet /\ handlerSet' = TRUE
    /\ UNCHANGED <<opQueue, opStatus, opRetry, opStored, queueBusy, queueOnline, netUp,
                   passVars, queueHistory>>

-----------------------------------------------------------------------------
(* The tail of processQueue: completed operations leave the queue.           *)
EndPass(p, st, rt) ==
    /\ opStatus' = st /\ opRetry' = rt
    /\ opQueue' = filter(opQueue, {o \in Ops : st[o] # "completed"})
    /\ saveQueue(opQueue', st, rt)
    /\ queueBusy' = FALSE
    /\ passTodo' = [passTodo EXCEPT ![p] = <<>>]
    /\ passAt' = [passAt EXCEPT ![p] = "idle"]

(* The loop of processQueue up to its next await: operations without a       *)
(* handler fail at once.                                                     *)
VisitNext(p, todo, st, rt) ==
    \/ /\ todo = <<>> \/ ~handlerSet
       /\ EndPass(p, [o \in Ops |-> IF o \in Range(todo) THEN "failed" ELSE st[o]], rt)
    \/ /\ todo # <<>> /\ handlerSet
       /\ opStatus' = [st EXCEPT ![Head(todo)] = "processing"] /\ opRetry' = rt
       /\ passTodo' = [passTodo EXCEPT ![p] = todo]
       /\ passAt' = [passAt EXCEPT ![p] = "handler"]
       /\ queueBusy' = TRUE
       /\ UNCHANGED <<opQueue, opStored>>

PendingOps == filter(opQueue, {o \in Ops : opStatus[o] = "pending"})

(* Slip: a second activation is not turned away.                             *)
processQueueUnguarded(p) ==
    /\ passAt[p] = "idle" /\ PendingOps # <<>>
    /\ VisitNext(p, PendingOps, opStatus, opRetry)

(* processQueue up to its first await, with the network taken to be up.      *)
processQueue(p) ==
    /\ passAt[p] = "idle" /\ ~queueBusy /\ PendingOps # <<>>
    /\ VisitNext(p, PendingOps, opStatus, opRetry)

(* offlineStore.processQueue, the button of the user interface.              *)
ProcessNow(p) ==
    /\ queueOnline /\ processQueue(p)
    /\ UNCHANGED <<queueOnline, netUp, handlerSet, queueHistory>>

HandlerSucceeds(p) ==
    LET o == Head(passTodo[p]) IN
    /\ passAt[p] = "handler"
    /\ VisitNext(p, Tail(passTodo[p]), [opStatus EXCEPT ![o] = "completed"], opRetry)
    /\ opDone' = [opDone EXCEPT ![o] = IF @ < 2 THEN @ + 1 ELSE 2]
    /\ opSettled' = opSettled \cup {o}
    /\ UNCHANGED <<queueOnline, netUp, handlerSet, clearedMidPass>>

(* The catch block.  A network error also stops the pass and marks the       *)
(* service offline, although the browser may report no change.               *)
HandlerFails(p) ==
    LET o == Head(passTodo[p])
        r == IF opRetry[o] < OpRetries THEN opRetry[o] + 1 ELSE OpRetries
        rt == [opRetry EXCEPT ![o] = r]
    IN
    /\ passAt[p] = "handler"
    /\ \/ /\ r >= OpRetries
          /\ VisitNext(p, Tail(passTodo[p]), [opStatus EXCEPT ![o] = "failed"], rt)
          /\ UNCHANGED queueOnline
       \/ /\ r < OpRetries     \* network error
          /\ EndPass(p, [opStatus EXCEPT ![o] = "pending"], rt)
          /\ queueOnline' = FALSE
       \/ /\ r < OpRetries     \* any other error
          /\ opStatus' = [opStatus EXCEPT ![o] = "pending"] /\ opRetry' = rt
          /\ passAt' = [passAt EXCEPT ![p] = "backoff"]
          /\ UNCHANGED <<opQueue, opStored, queueBusy, queueOnline, passTodo>>
    /\ UNCHANGED <<netUp, handlerSet, queueHistory>>

BackoffEnds(p) ==
    /\ passAt[p] = "backoff"
    /\ VisitNext(p, Tail(passTodo[p]), opStatus, opRetry)
    /\ UNCHANGED <<queueOnline, netUp, handlerSet, queueHistory>>

-----------------------------------------------------------------------------
removeOperation(o) ==
    /\ o \in Range(opQueue)
    /\ opQueue' = filter(opQueue, Ops \ {o})
    /\ saveQueue(opQueue', opStatus, opRetry)
    /\ opSettled' = opSettled \cup {o}
    /\ UNCHANGED <<opStatus, opRetry, queueBusy, queueOnline, netUp, handlerSet, passVars,
                   opDone, clearedMidPass>>

retryFailed ==
    LET back == {o \in Range(opQueue) : opStatus[o] = "failed"} IN
    /\ back # {}
    /\ opStatus' = [o \in Ops |-> IF o \in back THEN "pending" ELSE opStatus[o]]
    /\ opRetry' = [o \in Ops |-> IF o \in back THEN 0 ELSE opRetry[o]]
    /\ saveQueue(opQueue, opStatus', opRetry')
    /\ UNCHANGED <<opQueue, queueBusy, queueOnline, netUp, handlerSet, passVars, queueHistory>>

(* clear forgets that a pass is running; the pass does not know.             *)
clear ==
    /\ opQueue # <<>>
    /\ opQueue' = <<>> /\ queueBusy' = FALSE /\ queueOnline' = TRUE
    /\ saveQueue(<<>>, opStatus, opRetry)
    /\ opSettled' = opSettled \cup Range(opQueue)
    /\ clearedMidPass' = (clearedMidPass \/ \E p \in Passes : passAt[p] # "idle")
    /\ UNCHANGED <<opStatus, opRetry, netUp, handlerSet, passVars, opDone>>

(* The browser reports the network back: the queue is flushed at once.       *)
handleOnline ==
    /\ ~netUp /\ netUp' = TRUE /\ queueOnline' = TRUE
    /\ \/ \E p \in Passes : processQueue(p)
       \/ /\ queueBusy \/ PendingOps = <<>>
          /\ UNCHANGED <<opQueue, opStatus, opRetry, opStored, queueBusy, passVars>>
    /\ UNCHANGED <<handlerSet, queueHistory>>

handleOffline ==
    /\ netUp /\ netUp' = FALSE /\ queueOnline' = FALSE
    /\ UNCHANGED <<opQueue, opStatus, opRetry, opStored, queueBusy, handlerSet, passVars,
                   queueHistory>>

(* The page is closed or reloaded at any moment; loadQueue starts from the   *)
(* stored copy and turns interrupted operations back into pending ones.      *)
loadQueue ==
    LET Row(o) == CHOOSE r \in Range(opStored) : r.op = o
        kept == {r.op : r \in Range(opStored)}
    IN
    /\ opQueue' = [i \in 1..Len(opStored) |-> opStored[i].op]
    /\ opStatus' = [o \in Ops |-> IF o \notin kept
                                  THEN IF opStatus[o] = "none" THEN "none" ELSE "completed"
                                  ELSE IF Row(o).status = "processing" THEN "pending"
                                       ELSE Row(o).status]
    /\ opRetry' = [o \in Ops |-> IF o \in kept THEN Row(o).retry ELSE 0]
    /\ queueBusy' = FALSE /\ queueOnline' = netUp /\ handlerSet' = FALSE
    /\ passTodo' = [p \in Passes |-> <<>>]
    /\ passAt' = [p \in Passes |-> "idle"]
    /\ opDone' = [o \in Ops |-> 0]
    /\ clearedMidPass' = FALSE
    /\ UNCHANGED <<opStored, netUp, opSettled>>

QueueNext ==
    \/ \E o \in Ops : enqueue(o) \/ removeOperation(o)
    \/ \E p \in Passes :
          ProcessNow(p) \/ HandlerSucceeds(p) \/ HandlerFails(p) \/ BackoffEnds(p)
    \/ registerHandler \/ retryFailed \/ clear \/ loadQueue
    \/ handleOnline \/ handleOffline

QueueSpec == QueueInit /\ [][QueueNext]_QueueVars

-----------------------------------------------------------------------------
(* However activations of processQueue overlap with failures, retries and    *)
(* network events, no operation runs to success twice in the life of a page, *)
(* provided clear() did not hit a waiting pass.                              *)
NoRerun == clearedMidPass \/ \A o \in Ops : opDone[o] <= 1

(* An operation that was enqueued and has not succeeded is in localStorage,  *)
(* ready to run or to be retried: a reload at any moment, in the middle of a *)
(* pass too, loses nothing.  Given up are only the ones that the user        *)
(* cleared, and those that had failed when trimQueue dropped them from a     *)
(* queue that was full.                                                      *)
NothingLost ==
    \A o \in Ops :
        opStatus[o] # "none" /\ o \notin opSettled =>
            \E r \in Range(opStored) : r.op = o /\ r.status # "completed"

(* The comment of trimQueue ("then oldest pending") and MAX_QUEUE_SIZE: the  *)
(* queue never outgrows its limit.                                           *)
QueueWithinCap == Len(opQueue) <= QueueCap

(* An operation that the user removed is not executed afterwards.            *)
RemovedStaysRemoved ==
    [][\A o \in Ops : opDone'[o] > opDone[o] => o \in Range(opQueue)]_QueueVars
=============================================================================
