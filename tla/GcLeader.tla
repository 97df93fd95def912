------------------------------- MODULE GcLeader -------------------------------
(***************************************************************************)
(* Garbage collection over the replicas of the API server: the Redis lock    *)
(* that elects a leader and the scheduler that runs jobs on the leader only  *)
(* (usbvault-server/internal/gc: leader.go, scheduler.go, handlers.go; the   *)
(* shutdown order of cmd/api/app.go).  One job stands for all: each has a    *)
(* loop and a trigger channel of its own.                                    *)
(*                                                                          *)
(* Time is counted in renewal periods (renewEvery = ttl / 3).  A period may  *)
(* end at any moment: a loop that ticks late, or a process suspended between *)
(* two calls, lets any number of them pass.  SETNX and its reply, GET and    *)
(* EXPIRE of a renewal, GET and DEL of a release are separate, so the lock   *)
(* can expire and change hands in between.  A job runs for as long as it     *)
(* likes: its timeout is minutes, the lock lives 30 seconds.                 *)
(***************************************************************************)
EXTENDS Naturals

CONSTANTS
    Insts,        \* replicas
    TTL,          \* lifetime of the lock, in renewal periods
    RedisErrors,  \* TRUE: a SETNX or GET of the election may return an error
    LostCalls,    \* TRUE: an EXPIRE or DEL, whose error is ignored, may be lost
    MaxExits,     \* bound on the number of crashes and shutdowns
    NoLeader          \* no holder

ASSUME TTLAssumption == TTL \in Nat /\ TTL > 1
ASSUME OthersAssumption ==
    /\ NoLeader \notin Insts /\ MaxExits \in Nat
    /\ RedisErrors \in BOOLEAN /\ LostCalls \in BOOLEAN

VARIABLES
    lock,      \* value of the lock key
    ttl,       \* periods it still lives; 0 when there is no key
    up,        \* "down", "up", or "stopping" (the scheduler was stopped)
    isLeader,  \* isLeader of each elector
    pc,        \* its loop: "wait", or the reply or call that is due, "set", "expire", "del"
    age,       \* history: periods that ended since its SETNX or its last EXPIRE
    stale,     \* history: deposed by a second call that came too late, and unaware
    pending,   \* triggerCh holds a trigger
    running,   \* the job runs on the replica
    exits      \* crashes and shutdowns so far

electVars == <<lock, ttl, isLeader, pc, age, stale>>
jobVars == <<pending, running>>
leaderVars == <<electVars, up, jobVars, exits>>

(* The type invariant.                                                       *)
LeaderTypeOK ==
    /\ lock \in Insts \cup {NoLeader} /\ ttl \in 0..TTL
    /\ lock = NoLeader <=> ttl = 0
    /\ up \in [Insts -> {"down", "up", "stopping"}]
    /\ isLeader \in [Insts -> BOOLEAN]
    /\ pc \in [Insts -> {"wait", "set", "expire", "del"}]
    /\ age \in [Insts -> 0..TTL] /\ stale \in [Insts -> BOOLEAN]
    /\ pending \in [Insts -> BOOLEAN] /\ running \in [Insts -> BOOLEAN]
    /\ exits \in 0..MaxExits

LeaderInit ==
    /\ lock = NoLeader /\ ttl = 0
    /\ up = [i \in Insts |-> "down"]
    /\ isLeader = [i \in Insts |-> FALSE]
    /\ pc = [i \in Insts |-> "wait"]
    /\ age = [i \in Insts |-> 0] /\ stale = [i \in Insts |-> FALSE]
    /\ pending = [i \in Insts |-> FALSE]
    /\ running = [i \in Insts |-> FALSE]
    /\ exits = 0

-----------------------------------------------------------------------------
(* The election loop of Start, whose tick finds the last one answered.       *)

Ticks(i) == up[i] = "up" /\ pc[i] = "wait"

SetLeader(i, b) ==
    /\ isLeader' = [isLeader EXCEPT ![i] = b]
    /\ age' = [age EXCEPT ![i] = IF b THEN @ ELSE 0]
    /\ stale' = [stale EXCEPT ![i] = b /\ @]

(* Slip: SETNX without a lifetime; nothing but the holder removes the key.   *)
tryAcquireForever(i) ==
    /\ Ticks(i) /\ ~isLeader[i]
    /\ \/ lock = NoLeader /\ lock' = i /\ ttl' = TTL + 1 /\ pc' = [pc EXCEPT ![i] = "set"]
       \/ lock # NoLeader /\ UNCHANGED <<lock, ttl, pc>>
    /\ UNCHANGED <<isLeader, age, stale, up, jobVars, exits>>

(* tryAcquire: SETNX with the lifetime; a key that is there stays.           *)
tryAcquire(i) ==
    /\ Ticks(i) /\ ~isLeader[i]
    /\ \/ lock = NoLeader /\ lock' = i /\ ttl' = TTL /\ pc' = [pc EXCEPT ![i] = "set"]
       \/ lock # NoLeader /\ UNCHANGED <<lock, ttl, pc>>
    /\ UNCHANGED <<isLeader, age, stale, up, jobVars, exits>>

(* The reply to a SETNX that ran, or an error instead of it.                 *)
tryAcquireReply(i) ==
    /\ pc[i] = "set"
    /\ \/ SetLeader(i, TRUE)
       \/ RedisErrors /\ SetLeader(i, FALSE)
    /\ pc' = [pc EXCEPT ![i] = "wait"]
    /\ UNCHANGED <<lock, ttl, up, jobVars, exits>>

(* tryRenew: GET; another value, no value or an error ends the leadership.   *)
tryRenew(i) ==
    /\ Ticks(i) /\ isLeader[i]
    /\ \/ /\ lock = i /\ pc' = [pc EXCEPT ![i] = "expire"]
          /\ UNCHANGED <<isLeader, age, stale>>
       \/ (lock # i \/ RedisErrors) /\ SetLeader(i, FALSE) /\ UNCHANGED pc
    /\ UNCHANGED <<lock, ttl, up, jobVars, exits>>

(* ... then EXPIRE, on whatever key is there by now; its error is ignored.   *)
tryRenewExpire(i) ==
    /\ pc[i] = "expire"
    /\ \/ /\ ttl' = IF lock = NoLeader THEN 0 ELSE TTL
          /\ age' = [age EXCEPT ![i] = 0]
       \/ LostCalls /\ UNCHANGED <<ttl, age>>
    /\ pc' = [pc EXCEPT ![i] = "wait"]
    /\ UNCHANGED <<lock, isLeader, stale, up, jobVars, exits>>

-----------------------------------------------------------------------------
(* The scheduler.                                                            *)

(* TriggerJob: a trigger that finds the channel full is dropped.             *)
TriggerJob(i) ==
    /\ up[i] = "up"
    /\ pending' = [pending EXCEPT ![i] = TRUE]
    /\ UNCHANGED <<electVars, up, running, exits>>

(* runLoop takes a trigger, or its ticker fires; executeJob asks IsLeader.   *)
executeJob(i) ==
    /\ up[i] = "up" /\ ~running[i]
    /\ \/ pending' = [pending EXCEPT ![i] = FALSE]
       \/ UNCHANGED pending
    /\ running' = [running EXCEPT ![i] = isLeader[i]]
    /\ UNCHANGED <<electVars, up, exits>>

jobReturns(i) ==
    /\ running[i]
    /\ running' = [running EXCEPT ![i] = FALSE]
    /\ UNCHANGED <<electVars, up, pending, exits>>

-----------------------------------------------------------------------------
(* Shutdown: Scheduler.Stop waits for the job, then LeaderElector.Stop       *)
(* waits for the loop, which gives up the leadership and releases the lock.  *)

(* Slip: the release deletes the key without asking whose it is.             *)
StopUnchecked(i) ==
    /\ up[i] = "up" /\ pc[i] = "wait" /\ ~running[i] /\ exits < MaxExits
    /\ up' = [up EXCEPT ![i] = "stopping"]
    /\ SetLeader(i, FALSE)
    /\ pc' = [pc EXCEPT ![i] = IF isLeader[i] THEN "del" ELSE @]
    /\ pending' = [pending EXCEPT ![i] = FALSE]
    /\ exits' = exits + 1
    /\ UNCHANGED <<lock, ttl, running>>

Stop(i) ==
    /\ up[i] = "up" /\ pc[i] = "wait" /\ ~running[i] /\ exits < MaxExits
    /\ up' = [up EXCEPT ![i] = "stopping"]
    /\ SetLeader(i, FALSE)
    /\ \/ isLeader[i] /\ lock = i /\ pc' = [pc EXCEPT ![i] = "del"]
       \/ (~isLeader[i] \/ lock # i \/ RedisErrors) /\ UNCHANGED pc
    /\ pending' = [pending EXCEPT ![i] = FALSE]
    /\ exits' = exits + 1
    /\ UNCHANGED <<lock, ttl, running>>

(* The DEL, on whatever key is there by now.  One that comes too late        *)
(* deposes the holder, who learns of it from its next GET.                   *)
Claims(j) == isLeader[j] \/ pc[j] # "wait"
releaseDel(i) ==
    /\ pc[i] = "del"
    /\ \/ /\ lock' = NoLeader /\ ttl' = 0
          /\ stale' = [j \in Insts |-> j # i /\ (stale[j] \/ (stale[i] /\ lock = j /\ Claims(j)))]
       \/ LostCalls /\ UNCHANGED <<lock, ttl>> /\ stale' = [stale EXCEPT ![i] = FALSE]
    /\ pc' = [pc EXCEPT ![i] = "wait"]
    /\ UNCHANGED <<isLeader, age, up, jobVars, exits>>

Exit(i) ==
    /\ up[i] = "stopping" /\ pc[i] = "wait"
    /\ up' = [up EXCEPT ![i] = "down"]
    /\ UNCHANGED <<electVars, jobVars, exits>>

Crash(i) ==
    /\ up[i] # "down" /\ exits < MaxExits
    /\ up' = [up EXCEPT ![i] = "down"]
    /\ SetLeader(i, FALSE)
    /\ pc' = [pc EXCEPT ![i] = "wait"]
    /\ pending' = [pending EXCEPT ![i] = FALSE]
    /\ running' = [running EXCEPT ![i] = FALSE]
    /\ exits' = exits + 1
    /\ UNCHANGED <<lock, ttl>>

(* A new process, whose Start tries to acquire immediately.  The instance id *)
(* is the pod's, so it may find its own old lock.                            *)
Start(i) ==
    /\ up[i] = "down"
    /\ up' = [up EXCEPT ![i] = "up"]
    /\ UNCHANGED <<electVars, jobVars, exits>>

(* A period ends, whatever the replicas are at.  The lock ages, and goes     *)
(* when its life is over: also between the GET that saw it and the EXPIRE or *)
(* DEL that is to follow.                                                    *)
Period ==
    /\ ttl' = IF ttl \in 1..TTL THEN ttl - 1 ELSE ttl
    /\ lock' = IF ttl = 1 THEN NoLeader ELSE lock
    /\ age' = [i \in Insts |-> IF (isLeader[i] \/ pc[i] = "set") /\ age[i] < TTL
                               THEN age[i] + 1 ELSE age[i]]
    /\ stale' = [i \in Insts |-> stale[i] \/ (ttl = 1 /\ lock = i /\ pc[i] \in {"expire", "del"})]
    /\ UNCHANGED <<isLeader, pc, up, jobVars, exits>>

-----------------------------------------------------------------------------
Elect(i) == tryAcquire(i) \/ tryAcquireReply(i) \/ tryRenew(i) \/ tryRenewExpire(i)
Schedule(i) == TriggerJob(i) \/ executeJob(i) \/ jobReturns(i)
Life(i) == Stop(i) \/ releaseDel(i) \/ Exit(i) \/ Crash(i) \/ Start(i)

LeaderNext == (\E i \in Insts : Elect(i) \/ Schedule(i) \/ Life(i)) \/ Period

LeaderSpec == LeaderInit /\ [][LeaderNext]_leaderVars

(* Time passes, the loops run, jobs end, and a process that is down is       *)
(* started again by the orchestrator.  Redis does not fail for ever: of the  *)
(* SETNXs that took the lock some are answered.  The loop's select takes a   *)
(* trigger that is waiting.                                                  *)
Acquires(i) == tryAcquireReply(i) /\ isLeader'[i]
TakeTrigger(i) == pending[i] /\ executeJob(i) /\ ~pending'[i]
LeaderFairness ==
    /\ WF_leaderVars(Period)
    /\ \A i \in Insts :
          /\ WF_leaderVars(Elect(i)) /\ SF_leaderVars(Acquires(i))
          /\ WF_leaderVars(jobReturns(i)) /\ SF_leaderVars(TakeTrigger(i))
          /\ WF_leaderVars(releaseDel(i)) /\ WF_leaderVars(Exit(i)) /\ WF_leaderVars(Start(i))

LeaderFairSpec == LeaderSpec /\ LeaderFairness

-----------------------------------------------------------------------------
(* A replica that believes it is the leader holds the lock, so at most one   *)
(* does, while fewer periods than the lock lives have ended since its SETNX  *)
(* or its last EXPIRE: tryRenew and release check whose lock it is, SETNX    *)
(* spares a key that is there.  What survives of the check-then-act: only an *)
(* EXPIRE or DEL that came after the key its GET saw had expired deposes a   *)
(* leader unknown to it, and only until that leader's next GET.              *)
LeaderHoldsLock == \A i \in Insts : isLeader[i] /\ age[i] < TTL /\ ~stale[i] => lock = i

(* A leader that died, stopped or lost a call is replaced: again and again   *)
(* some replica leads, so jobs cannot stay unscheduled.                      *)
LeaderReplaced == []<>(\E i \in Insts : isLeader[i])

(* leader.go: IsLeader returns whether this instance currently holds the     *)
(* leader lock.                                                              *)
IsLeader == \A i \in Insts : isLeader[i] => lock = i

(* leader.go, release: "Only delete if we still own it".                     *)
ReleaseDeletesOwn == \A i \in Insts : pc[i] = "del" => lock \in {i, NoLeader}

(* leader.go: only the leader instance runs jobs, to prevent duplicate work. *)
OnlyLeaderRuns == \A i \in Insts : running[i] => isLeader[i]

(* handlers.go: the trigger endpoint, answered 202 "triggered", triggers the *)
(* job: it runs, unless the process goes away first.                         *)
TriggeredRuns == \A i \in Insts : pending[i] ~> (running[i] \/ up[i] # "up")
=============================================================================
