---------------------------- MODULE GcLeaderProofs ----------------------------
(***************************************************************************)
(* LeaderHoldsLock for any number of replicas and any lock lifetime of at    *)
(* least two renewal periods.  The invariant the proof is by counts what is  *)
(* left of the lease: TTL - n periods, when n have ended since the SETNX or  *)
(* the last EXPIRE.  Between its two Redis calls a renewal or a release owns *)
(* the key unless it is marked stale, that is, the key it saw expired or was *)
(* deleted under it; a stale replica owns nothing, so a DEL that takes the   *)
(* lock from another comes from a stale one, which marks its victim.         *)
(***************************************************************************)
EXTENDS GcLeader, TLAPS

Leads(i) == isLeader[i] \/ pc[i] = "set"

LeaderAlive == \A i \in Insts : Leads(i) => up[i] = "up"
LeaseLeft ==
    \A i \in Insts : Leads(i) /\ age[i] < TTL /\ ~stale[i] => lock = i /\ ttl >= TTL - age[i]
RepliesOnce == \A i \in Insts : pc[i] = "set" => ~isLeader[i]
RenewsOwn == \A i \in Insts : pc[i] = "expire" => isLeader[i] /\ (stale[i] \/ lock = i)
ReleasesOwn ==
    \A i \in Insts : pc[i] = "del" => ~isLeader[i] /\ up[i] = "stopping" /\ (stale[i] \/ lock = i)
StaleDeposed == \A i \in Insts : stale[i] => lock # i /\ Claims(i)

IInv ==
    /\ LeaderTypeOK /\ LeaderAlive /\ LeaseLeft /\ RepliesOnce
    /\ RenewsOwn /\ ReleasesOwn /\ StaleDeposed

(* The initial state satisfies the invariant: nobody leads.                  *)
LEMMA IInvInit == LeaderInit => IInv
  BY OthersAssumption, TTLAssumption
  DEF LeaderInit, IInv, LeaderTypeOK, LeaderAlive, LeaseLeft, Leads, Claims,
        RepliesOnce, RenewsOwn, ReleasesOwn, StaleDeposed

(* SetLeader, one replica at a time: a replica that is no leader any more    *)
(* loses its age and its mark, the others keep theirs.                       *)
LEMMA SetLeaderPointwise ==
  ASSUME LeaderTypeOK, NEW i \in Insts, NEW b \in BOOLEAN, SetLeader(i, b)
  PROVE  /\ isLeader' \in [Insts -> BOOLEAN] /\ age' \in [Insts -> 0..TTL]
         /\ stale' \in [Insts -> BOOLEAN]
         /\ isLeader'[i] = b /\ (b => age'[i] = age[i])
         /\ stale'[i] <=> b /\ stale[i]
         /\ \A j \in Insts \ {i} :
               /\ isLeader'[j] = isLeader[j] /\ age'[j] = age[j]
               /\ stale'[j] = stale[j]
<1> USE TTLAssumption DEF LeaderTypeOK, SetLeader
<1>1. isLeader' \in [Insts -> BOOLEAN] /\ stale' \in [Insts -> BOOLEAN]
  OBVIOUS
<1>2. age' \in [Insts -> 0..TTL] /\ (b => age'[i] = age[i])
  OBVIOUS
<1>3. isLeader'[i] = b /\ (stale'[i] <=> b /\ stale[i])
  BY Zenon
<1>4. \A j \in Insts \ {i} :
         isLeader'[j] = isLeader[j] /\ age'[j] = age[j] /\ stale'[j] = stale[j]
  OBVIOUS
<1> QED BY <1>1, <1>2, <1>3, <1>4

(* The steps of the election loop preserve it, EXPIREs that are lost included. *)
LEMMA IInvElect == ASSUME IInv, NEW i \in Insts, Elect(i) PROVE IInv'
<1> USE OthersAssumption, TTLAssumption
    DEF IInv, LeaderTypeOK, LeaderAlive, LeaseLeft, Leads, Claims,
        RepliesOnce, RenewsOwn, ReleasesOwn, StaleDeposed, jobVars
<1>1. CASE tryAcquire(i)
  BY <1>1 DEF tryAcquire, Ticks
<1>2. CASE tryAcquireReply(i)
  <2>1. PICK b \in BOOLEAN : SetLeader(i, b)
    BY <1>2 DEF tryAcquireReply
  <2>2. pc[i] = "set" /\ pc' = [pc EXCEPT ![i] = "wait"]
        /\ UNCHANGED <<lock, ttl, up, jobVars, exits>>
    BY <1>2 DEF tryAcquireReply
  <2> QED BY <2>1, <2>2, SetLeaderPointwise
<1>3. CASE tryRenew(i)
  <2>1. pc[i] = "wait" /\ isLeader[i] /\ UNCHANGED <<lock, ttl, up, jobVars, exits>>
    BY <1>3 DEF tryRenew, Ticks
  <2>2. CASE lock = i /\ pc' = [pc EXCEPT ![i] = "expire"] /\ UNCHANGED <<isLeader, age, stale>>
    BY <2>1, <2>2
  <2>3. CASE SetLeader(i, FALSE) /\ UNCHANGED pc
    <3>1. LeaderTypeOK' /\ LeaderAlive' /\ RepliesOnce'
      BY <2>1, <2>3, SetLeaderPointwise
    <3>2. ~isLeader'[i] /\ ~stale'[i] /\ pc'[i] = "wait"
      BY <2>1, <2>3, SetLeaderPointwise
    <3>3. \A j \in Insts \ {i} :
             isLeader'[j] = isLeader[j] /\ age'[j] = age[j] /\ stale'[j] = stale[j]
      BY <2>3, SetLeaderPointwise
    <3>4. LeaseLeft' /\ RenewsOwn' /\ ReleasesOwn' /\ StaleDeposed'
      BY <2>1, <2>3, <3>2, <3>3
    <3> QED BY <3>1, <3>4
  <2> QED BY <1>3, <2>2, <2>3 DEF tryRenew
<1>4. CASE tryRenewExpire(i)
  BY <1>4 DEF tryRenewExpire
<1> QED BY <1>1, <1>2, <1>3, <1>4 DEF Elect

(* The scheduler touches neither the lock nor the electors.                  *)
LEMMA IInvSchedule == ASSUME IInv, NEW i \in Insts, Schedule(i) PROVE IInv'
<1> USE OthersAssumption, TTLAssumption
    DEF IInv, LeaderTypeOK, LeaderAlive, LeaseLeft, Leads, Claims,
        RepliesOnce, RenewsOwn, ReleasesOwn, StaleDeposed, electVars
<1>1. CASE TriggerJob(i)
  BY <1>1 DEF TriggerJob
<1>2. CASE executeJob(i)
  BY <1>2 DEF executeJob
<1>3. CASE jobReturns(i)
  BY <1>3 DEF jobReturns
<1> QED BY <1>1, <1>2, <1>3 DEF Schedule

(* Shutdowns, crashes and starts preserve it.                                *)
LEMMA IInvLife == ASSUME IInv, NEW i \in Insts, Life(i) PROVE IInv'
<1> USE OthersAssumption, TTLAssumption
    DEF IInv, LeaderTypeOK, LeaderAlive, LeaseLeft, Leads, Claims,
        RepliesOnce, RenewsOwn, ReleasesOwn, StaleDeposed, electVars, jobVars
<1>1. CASE Stop(i)
  BY <1>1 DEF Stop, SetLeader
<1>2. CASE releaseDel(i)
  <2>1. pc[i] = "del" /\ pc' = [pc EXCEPT ![i] = "wait"]
        /\ UNCHANGED <<isLeader, age, up, jobVars, exits>>
    BY <1>2 DEF releaseDel
  <2>2. CASE /\ lock' = NoLeader /\ ttl' = 0
             /\ stale' = [j \in Insts |-> j # i /\ (stale[j] \/ (stale[i] /\ lock = j /\ Claims(j)))]
    <3>1. stale' \in [Insts -> BOOLEAN] /\ ~stale'[i]
      BY <2>2
    <3>2. ASSUME NEW j \in Insts, j # i
          PROVE  stale'[j] <=> stale[j] \/ (stale[i] /\ lock = j /\ Claims(j))
      BY <2>2, <3>2
    <3>3. LeaderTypeOK'
      BY <2>1, <2>2, <3>1
    <3>4. \A j \in Insts \ {i} : pc'[j] = pc[j]
      BY <2>1
    <3>5. ~isLeader[i] /\ pc'[i] = "wait" /\ (stale[i] \/ lock = i)
      BY <2>1
    <3> QED BY <2>1, <2>2, <3>1, <3>2, <3>3, <3>4, <3>5
  <2>3. CASE UNCHANGED <<lock, ttl>> /\ stale' = [stale EXCEPT ![i] = FALSE]
    BY <2>1, <2>3
  <2> QED BY <1>2, <2>2, <2>3 DEF releaseDel
<1>3. CASE Exit(i)
  BY <1>3 DEF Exit
<1>4. CASE Crash(i)
  <2>1. SetLeader(i, FALSE) /\ pc' = [pc EXCEPT ![i] = "wait"]
        /\ up' = [up EXCEPT ![i] = "down"] /\ UNCHANGED <<lock, ttl>>
        /\ pending' = [pending EXCEPT ![i] = FALSE] /\ running' = [running EXCEPT ![i] = FALSE]
        /\ exits' = exits + 1 /\ exits < MaxExits
    BY <1>4, Zenon DEF Crash
  <2>2. ~isLeader'[i] /\ ~stale'[i] /\ pc'[i] = "wait"
    BY <2>1, SetLeaderPointwise
  <2>3. lock' \in Insts \cup {NoLeader} /\ ttl' \in 0..TTL /\ (lock' = NoLeader <=> ttl' = 0)
    BY <2>1
  <2>4. /\ up' \in [Insts -> {"down", "up", "stopping"}]
        /\ pc' \in [Insts -> {"wait", "set", "expire", "del"}]
        /\ pending' \in [Insts -> BOOLEAN] /\ running' \in [Insts -> BOOLEAN]
        /\ exits' \in 0..MaxExits
    BY <2>1
  <2>5. LeaderTypeOK'
    BY <2>1, <2>3, <2>4, SetLeaderPointwise
  <2>6. \A j \in Insts \ {i} :
           /\ isLeader'[j] = isLeader[j] /\ age'[j] = age[j] /\ stale'[j] = stale[j]
           /\ pc'[j] = pc[j] /\ up'[j] = up[j]
    BY <2>1, SetLeaderPointwise
  <2> QED BY <2>1, <2>2, <2>5, <2>6
<1>5. CASE Start(i)
  BY <1>5 DEF Start
<1> QED BY <1>1, <1>2, <1>3, <1>4, <1>5 DEF Life

(* The end of a period takes the lock from no leader with lease left, and    *)
(* marks the one whose second call will come too late.                       *)
LEMMA IInvPeriod == ASSUME IInv, Period PROVE IInv'
<1> USE OthersAssumption, TTLAssumption
    DEF IInv, LeaderTypeOK, LeaderAlive, LeaseLeft, Leads, Claims,
        RepliesOnce, RenewsOwn, ReleasesOwn, StaleDeposed, jobVars
<1>1. UNCHANGED <<isLeader, pc, up, pending, running, exits>>
  BY DEF Period
<1>2. ttl' = (IF ttl \in 1..TTL THEN ttl - 1 ELSE ttl) /\ lock' = (IF ttl = 1 THEN NoLeader ELSE lock)
  BY DEF Period
<1>3. age' \in [Insts -> 0..TTL] /\ stale' \in [Insts -> BOOLEAN]
  BY DEF Period
<1>4. ASSUME NEW i \in Insts
      PROVE  /\ stale'[i] <=> stale[i] \/ (ttl = 1 /\ lock = i /\ pc[i] \in {"expire", "del"})
             /\ Leads(i) /\ age'[i] < TTL => age'[i] = age[i] + 1
  BY DEF Period
<1>5. LeaderTypeOK'
  BY <1>1, <1>2, <1>3
<1> QED BY <1>1, <1>2, <1>4, <1>5

(* The invariant holds throughout every behaviour.                           *)
THEOREM LeaseInvariant == LeaderSpec => []IInv
<1>1. IInv /\ [LeaderNext]_leaderVars => IInv'
  <2> SUFFICES ASSUME IInv, [LeaderNext]_leaderVars PROVE IInv'
    OBVIOUS
  <2>1. CASE \E i \in Insts : Elect(i) \/ Schedule(i) \/ Life(i)
    BY <2>1, IInvElect, IInvSchedule, IInvLife
  <2>2. CASE Period
    BY <2>2, IInvPeriod
  <2>3. CASE UNCHANGED leaderVars
    BY <2>3 DEF IInv, LeaderTypeOK, LeaderAlive, LeaseLeft, Leads, Claims,
        RepliesOnce, RenewsOwn, ReleasesOwn, StaleDeposed,
                leaderVars, electVars, jobVars
  <2> QED BY <2>1, <2>2, <2>3 DEF LeaderNext
<1> QED BY IInvInit, <1>1, PTL DEF LeaderSpec

(* The lock, the timers and the schedulers of all replicas keep their types. *)
THEOREM LeaderTypes == LeaderSpec => []LeaderTypeOK
<1>1. IInv => LeaderTypeOK
  BY DEF IInv
<1> QED BY LeaseInvariant, <1>1, PTL

(* A replica that leads, with fewer periods behind its SETNX or last EXPIRE  *)
(* than the lock lives, holds the lock, so at most one such replica leads:   *)
(* for any number of replicas and wherever time passes, unless leader.go's   *)
(* check-then-act deposed it by a call that came after the expiry.           *)
THEOREM OneLeader == LeaderSpec => []LeaderHoldsLock
<1>1. IInv => LeaderHoldsLock
  BY DEF IInv, LeaseLeft, Leads, LeaderHoldsLock
<1> QED BY LeaseInvariant, <1>1, PTL
=============================================================================
