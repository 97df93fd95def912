---------------------------- MODULE BackgroundProofs ----------------------------
(***************************************************************************)
(* Proofs about OfflineQueue, SyncSocket and DesktopShell, for any number of *)
(* operations, passes, sockets, items, processes and calls.                  *)
(***************************************************************************)
EXTENDS MCBackground, FiniteSetTheorems, NaturalsInduction, WellFoundedInduction, TLAPS

-----------------------------------------------------------------------------
(* What filter keeps: the elements asked for, each once if it was there once.*)

(* filter returns a sequence of what q and S share, without repetitions if q *)
(* has none.                                                                 *)
LEMMA Filtered ==
  ASSUME NEW A, NEW q \in Seq(A), NEW S
  PROVE  /\ filter(q, S) \in Seq(A)
         /\ Range(filter(q, S)) = Range(q) \cap S
         /\ IsInjective(q) => IsInjective(filter(q, S))
<1> DEFINE kept == {i \in DOMAIN q : q[i] \in S}
           rank(i) == Cardinality({j \in kept : j <= i})
           c == Cardinality(kept)
           pos(n) == CHOOSE i \in kept : rank(i) = n
<1>1. /\ Len(q) \in Nat /\ DOMAIN q = 1..Len(q) /\ \A i \in DOMAIN q : q[i] \in A
  OBVIOUS
<1>2. kept \subseteq 1..Len(q) /\ IsFiniteSet(kept) /\ c \in Nat
  <2>1. IsFiniteSet(1..Len(q))
    BY <1>1, FS_Interval
  <2>2. kept \in SUBSET (1..Len(q))
    BY <1>1
  <2>3. IsFiniteSet(kept)
    BY <2>1, <2>2, FS_Subset
  <2> QED BY <2>2, <2>3, FS_CardinalityType
<1> HIDE DEF c
<1>3. ASSUME NEW i \in kept PROVE rank(i) \in 1..c /\ IsFiniteSet({j \in kept : j <= i})
  <2> DEFINE below == {j \in kept : j <= i}
  <2>1. below \in SUBSET kept /\ i \in below
    BY <1>2
  <2> HIDE DEF below
  <2>2. IsFiniteSet(below) /\ Cardinality(below) <= c /\ Cardinality(below) \in Nat
    BY <1>2, <2>1, FS_Subset, FS_CardinalityType DEF c
  <2>3. Cardinality(below) # 0
    BY <2>1, <2>2, FS_EmptySet
  <2>4. Cardinality(below) \in 1..c
    BY <1>2, <2>2, <2>3
  <2> QED BY <2>2, <2>4 DEF below
<1>4. ASSUME NEW i \in kept, NEW k \in kept, i < k PROVE rank(i) < rank(k)
  <2> DEFINE bi == {j \in kept : j <= i}
             bk == {j \in kept : j <= k}
  <2>1. bi \in SUBSET bk /\ k \in bk /\ k \notin bi
    BY <1>2, <1>4
  <2>2. IsFiniteSet(bk) /\ IsFiniteSet(bi)
    BY <1>3
  <2> HIDE DEF bi, bk
  <2>3. Cardinality(bi) <= Cardinality(bk) /\ Cardinality(bi) # Cardinality(bk)
    BY <2>1, <2>2, FS_Subset
  <2>4. Cardinality(bi) \in Nat /\ Cardinality(bk) \in Nat
    BY <2>2, FS_CardinalityType
  <2>5. Cardinality(bi) < Cardinality(bk)
    BY <2>3, <2>4
  <2> QED BY <2>5 DEF bi, bk
<1>5. ASSUME NEW i \in kept, NEW k \in kept, rank(i) = rank(k) PROVE i = k
  <2>1. i \in Nat /\ k \in Nat
    BY <1>2
  <2>2. rank(i) \in Nat /\ rank(k) \in Nat
    BY <1>2, <1>3
  <2> HIDE DEF rank
  <2> QED BY <1>4, <1>5, <2>1, <2>2
<1>6. ASSUME NEW n \in 1..c PROVE pos(n) \in kept /\ rank(pos(n)) = n
  <2>1. ASSUME ~ \E i \in kept : rank(i) = n PROVE FALSE
    <3> DEFINE f == [i \in kept |-> rank(i)]
               T == (1..c) \ {n}
    <3>1. \A i \in kept : rank(i) \in T
      BY <1>3, <2>1
    <3>2. IsFiniteSet(1..c) /\ Cardinality(1..c) = c
      BY <1>2, FS_Interval
    <3>3. IsFiniteSet(T) /\ Cardinality(T) = c - 1
      BY <3>2, FS_RemoveElement
    <3>4. Cardinality(T) < c
      BY <1>2, <3>3
    <3> HIDE DEF rank, T
    <3>5. f \in [kept -> T]
      BY <3>1
    <3>6. PICK x \in kept, y \in kept : x # y /\ f[x] = f[y]
      <4> HIDE DEF f
      <4> QED BY <1>2, <3>3, <3>4, <3>5, FS_PigeonHole DEF c
    <3> QED BY <1>5, <3>6
  <2> QED BY <2>1
<1>7. filter(q, S) = [n \in 1..c |-> q[pos(n)]]
  BY DEF filter, c
<1> HIDE DEF rank, pos
<1>8. \A n \in 1..c : pos(n) \in kept
  BY <1>6
<1>9. filter(q, S) \in Seq(A)
  <2>1. \A n \in 1..c : q[pos(n)] \in A
    BY <1>1, <1>8
  <2> QED BY <1>2, <1>7, <2>1
<1>10. Range(filter(q, S)) = Range(q) \cap S
  <2>1. ASSUME NEW x \in Range(filter(q, S)) PROVE x \in Range(q) \cap S
    BY <1>7, <1>8 DEF Range
  <2>2. ASSUME NEW x \in Range(q) \cap S PROVE x \in Range(filter(q, S))
    <3>1. PICK i \in DOMAIN q : x = q[i]
      BY DEF Range
    <3>2. i \in kept
      BY <3>1
    <3>3. rank(i) \in 1..c
      BY <1>3, <3>2
    <3>4. pos(rank(i)) = i
      BY <1>5, <1>6, <3>2, <3>3
    <3> QED BY <1>7, <3>1, <3>3, <3>4 DEF Range
  <2> QED BY <2>1, <2>2
<1>11. ASSUME IsInjective(q) PROVE IsInjective(filter(q, S))
  <2>1. ASSUME NEW n \in 1..c, NEW m \in 1..c, q[pos(n)] = q[pos(m)] PROVE n = m
    <3>1. pos(n) = pos(m)
      BY <1>8, <1>11, <2>1 DEF IsInjective
    <3> QED BY <1>6, <3>1
  <2> QED BY <1>7, <2>1 DEF IsInjective
<1> QED BY <1>9, <1>10, <1>11

-----------------------------------------------------------------------------
(* The desktop shell.                                                        *)

Calls == [at : {"none", "port", "health", "healthy", "kill", "delay", "stop", "restart"},
          victim : Procs \cup {NoProc}, main : BOOLEAN]
Companions == [is : {"none", "booting", "up", "dead"}, port : Ports \cup {0}]
Spawning == {"port", "health", "healthy", "kill", "delay"}

(* Between two states of the manager a call is under way that will change    *)
(* it: one that stops or restarts while the manager stops, else one that     *)
(* spawns.                                                                   *)
UnderWay ==
    /\ startCall = "no" => ~stopping
    /\ shStatus \in {"starting", "crashed"} =>
          \E w \in Waits : wait[w].at \in (IF stopping THEN {"stop", "restart"} ELSE Spawning)

ShellInv == ShellTypeOK /\ UnderWay

(* The manager's calls and processes are functions to their records.         *)
LEMMA ShellParts ==
  ASSUME ShellTypeOK
  PROVE  /\ wait \in [Waits -> Calls] /\ NoWait \in Calls
         /\ proc \in [Procs -> Companions]
BY DEF ShellTypeOK, Calls, Companions, NoWait

(* One call goes on, with another state or another victim.                   *)
LEMMA CallGoes ==
  ASSUME ShellTypeOK, NEW w \in Waits,
         NEW a \in {"none", "port", "health", "healthy", "kill", "delay", "stop", "restart"},
         \/ wait' = [wait EXCEPT ![w].at = a]
         \/ wait' = [wait EXCEPT ![w].at = a, ![w].main = TRUE]
         \/ wait' = [wait EXCEPT ![w].at = a, ![w].victim = child]
  PROVE  /\ wait' \in [Waits -> Calls] /\ wait'[w].at = a
         /\ \A x \in Waits \ {w} : wait'[x] = wait[x]
<1>1. wait \in [Waits -> Calls] /\ wait[w] \in Calls /\ child \in Procs \cup {NoProc}
  BY ShellParts DEF ShellTypeOK
<1>2. ASSUME NEW q \in Calls, wait' = [wait EXCEPT ![w] = q], q.at = a
      PROVE  /\ wait' \in [Waits -> Calls] /\ wait'[w].at = a
             /\ \A x \in Waits \ {w} : wait'[x] = wait[x]
  BY <1>1, <1>2
<1>3. CASE wait' = [wait EXCEPT ![w].at = a]
  <2>1. [wait[w] EXCEPT !.at = a] \in Calls /\ [wait[w] EXCEPT !.at = a].at = a
    BY <1>1 DEF Calls
  <2>2. wait' = [wait EXCEPT ![w] = [wait[w] EXCEPT !.at = a]]
    BY <1>1, <1>3
  <2> QED BY <1>2, <2>1, <2>2
<1>4. CASE wait' = [wait EXCEPT ![w].at = a, ![w].main = TRUE]
  <2>1. [wait[w] EXCEPT !.at = a, !.main = TRUE] \in Calls /\ [wait[w] EXCEPT !.at = a, !.main = TRUE].at = a
    BY <1>1 DEF Calls
  <2>2. wait' = [wait EXCEPT ![w] = [wait[w] EXCEPT !.at = a, !.main = TRUE]]
    BY <1>1, <1>4
  <2> QED BY <1>2, <2>1, <2>2
<1>5. CASE wait' = [wait EXCEPT ![w].at = a, ![w].victim = child]
  <2>1. [wait[w] EXCEPT !.at = a, !.victim = child] \in Calls /\ [wait[w] EXCEPT !.at = a, !.victim = child].at = a
    BY <1>1 DEF Calls
  <2>2. wait' = [wait EXCEPT ![w] = [wait[w] EXCEPT !.at = a, !.victim = child]]
    BY <1>1, <1>5
  <2> QED BY <1>2, <2>1, <2>2
<1> QED BY <1>3, <1>4, <1>5

(* A call that ends changes its own slot and perhaps that of start().        *)
LEMMA CallEnds ==
  ASSUME ShellTypeOK, NEW w \in Waits, WaitEnds(w)
  PROVE  /\ wait' \in [Waits -> Calls] /\ startCall' \in {startCall, "done"}
         /\ \A x \in Waits \ {w} : wait'[x] = wait[x]
BY ShellParts DEF WaitEnds, Returned

(* A process that ends is one whose exit event is due.                       *)
LEMMA DieTypes ==
  ASSUME ShellTypeOK, NEW S \in SUBSET Procs, Die(S)
  PROVE  /\ proc' \in [Procs -> Companions]
         /\ exits' \subseteq {p \in Procs : ~(proc'[p].is \in {"booting", "up"})}
         /\ signalled' \subseteq Procs /\ deaths' \in 0..MaxRestarts
<1> DEFINE dying == {p \in S : Live(p)}
<1>1. proc \in [Procs -> Companions]
  BY ShellParts
<1>2. \A p \in Procs : [proc[p] EXCEPT !.is = "dead"] \in Companions /\ [proc[p] EXCEPT !.is = "dead"].is = "dead"
  BY <1>1 DEF Companions
<1>3. proc' = [p \in Procs |-> IF p \in dying THEN [proc[p] EXCEPT !.is = "dead"] ELSE proc[p]]
  BY DEF Die
<1>4. /\ proc' \in [Procs -> Companions]
      /\ \A p \in dying : proc'[p].is = "dead"
      /\ \A p \in Procs \ dying : proc'[p] = proc[p]
  BY <1>1, <1>2, <1>3
<1>5. exits' = exits \cup dying /\ exits \subseteq {p \in Procs : ~(proc[p].is \in {"booting", "up"})}
  BY DEF Die, ShellTypeOK, Live
<1>6. exits' \subseteq {p \in Procs : ~(proc'[p].is \in {"booting", "up"})}
  <2> SUFFICES ASSUME NEW p \in exits' PROVE p \in Procs /\ ~(proc'[p].is \in {"booting", "up"})
    OBVIOUS
  <2>1. CASE p \in dying
    <3>1. proc'[p].is = "dead"
      BY <1>4, <2>1
    <3>2. p \in Procs
      BY <2>1
    <3> QED BY <3>1, <3>2
  <2>2. CASE p \notin dying
    <3> HIDE DEF dying
    <3>1. p \in exits
      BY <1>5, <2>2
    <3>2. p \in Procs /\ ~(proc[p].is \in {"booting", "up"})
      BY <1>5, <3>1
    <3>3. proc'[p] = proc[p]
      BY <1>4, <2>2, <3>2
    <3> QED BY <3>2, <3>3
  <2> QED BY <2>1, <2>2
<1>7. deaths' \in 0..MaxRestarts
  BY ShellAssumption DEF Die, ShellTypeOK
<1>8. signalled' \subseteq Procs
  BY DEF Die, ShellTypeOK
<1> QED BY <1>4, <1>6, <1>7, <1>8

(* handleCrash leaves the manager failed, or crashed with a delay under way; *)
(* while stopping it changes nothing but its slot.                           *)
LEMMA CrashTypes ==
  ASSUME ShellTypeOK, NEW w \in Waits, NEW others \in [Waits -> Calls], handleCrash(w, others)
  PROVE  /\ wait' \in [Waits -> Calls] /\ restartCount' \in 0..MaxRestarts
         /\ shStatus' \in {"stopped", "starting", "running", "crashed", "failed"}
         /\ \A x \in Waits \ {w} : wait'[x] = others[x]
         /\ stopping => shStatus' = shStatus
         /\ ~stopping => \/ shStatus' = "failed"
                         \/ shStatus' = "crashed" /\ wait'[w].at = "delay"
<1> DEFINE delay == [NoWait EXCEPT !.at = "delay"]
<1>1. NoWait \in Calls /\ delay \in Calls /\ delay.at = "delay"
  BY ShellParts DEF Calls, NoWait
<1>2. (IF restartCount < MaxRestarts THEN restartCount + 1 ELSE MaxRestarts) \in 0..MaxRestarts
  BY ShellAssumption DEF ShellTypeOK
<1> HIDE DEF delay
<1>3. CASE stopping /\ wait' = [others EXCEPT ![w] = NoWait] /\ UNCHANGED <<restartCount, shStatus>>
  BY <1>1, <1>3 DEF ShellTypeOK
<1>4. CASE /\ ~stopping
           /\ restartCount' = IF restartCount < MaxRestarts THEN restartCount + 1 ELSE MaxRestarts
           /\ shStatus' = IF restartCount' >= MaxRestarts THEN "failed" ELSE "crashed"
           /\ wait' = [others EXCEPT ![w] = IF restartCount' >= MaxRestarts THEN NoWait ELSE delay]
  <2>1. CASE restartCount' >= MaxRestarts
    BY <1>1, <1>2, <1>4, <2>1
  <2>2. CASE ~(restartCount' >= MaxRestarts)
    BY <1>1, <1>2, <1>4, <2>2
  <2> QED BY <2>1, <2>2
<1> QED BY <1>3, <1>4 DEF handleCrash, delay

(* The manager starts out stopped, with nothing to wait for.                 *)
LEMMA ShellInvInit == ShellInit => ShellInv
<1> SUFFICES ASSUME ShellInit PROVE ShellInv
  OBVIOUS
<1>1. NoWait \in Calls
  BY DEF Calls, NoWait
<1>2. [is |-> "none", port |-> 0] \in Companions
  BY DEF Companions
<1>3. wait \in [Waits -> Calls] /\ proc \in [Procs -> Companions]
  BY <1>1, <1>2 DEF ShellInit
<1>4. restartCount \in 0..MaxRestarts /\ deaths \in 0..MaxRestarts /\ stops \in 0..MaxStops
  BY ShellAssumption DEF ShellInit
<1>5. ShellTypeOK
  BY <1>3, <1>4 DEF ShellInit, ShellTypeOK, Calls, Companions
<1> QED BY <1>5 DEF ShellInit, ShellInv, UnderWay

(* Each call that goes on, each event and each request of the user keeps the *)
(* invariant of the shell.                                                   *)
LEMMA ShellInvStep ==
  ASSUME ShellInv, [ShellNext]_ShellVars
  PROVE  ShellInv'
<1> USE DEF ProcVars, MainVars
<1>0. ShellTypeOK /\ UnderWay
  BY DEF ShellInv
<1>a. wait \in [Waits -> Calls] /\ proc \in [Procs -> Companions] /\ NoWait \in Calls
  BY <1>0, ShellParts
<1>t. ASSUME /\ shStatus' \in {"stopped", "starting", "running", "crashed", "failed"}
             /\ stopping' \in BOOLEAN
             /\ restartCount' \in 0..MaxRestarts /\ deaths' \in 0..MaxRestarts
             /\ stops' \in 0..MaxStops /\ startCall' \in {"no", "waits", "done"}
             /\ child' \in Procs \cup {NoProc} /\ childPort' \in Ports \cup {0}
             /\ proc' \in [Procs -> Companions]
             /\ signalled' \subseteq Procs
             /\ exits' \subseteq {p \in Procs : ~(proc'[p].is \in {"booting", "up"})}
             /\ wait' \in [Waits -> Calls],
             UnderWay'
      PROVE  ShellInv'
  BY <1>t DEF ShellInv, ShellTypeOK, Calls, Companions, Live
<1>o. /\ shStatus \in {"stopped", "starting", "running", "crashed", "failed"}
      /\ stopping \in BOOLEAN
      /\ restartCount \in 0..MaxRestarts /\ deaths \in 0..MaxRestarts /\ 0 \in 0..MaxRestarts
      /\ stops \in 0..MaxStops /\ startCall \in {"no", "waits", "done"}
      /\ child \in Procs \cup {NoProc} /\ childPort \in Ports \cup {0}
      /\ signalled \subseteq Procs
      /\ exits \subseteq {p \in Procs : ~(proc[p].is \in {"booting", "up"})}
  BY <1>0, ShellAssumption DEF ShellTypeOK, Live
<1>1. ASSUME NEW w \in Waits, startCompanion(w) PROVE ShellInv'
  <2>1. wait' \in [Waits -> Calls] /\ wait'[w].at = "port"
    BY <1>0, <1>1, CallGoes DEF startCompanion
  <2>2. UnderWay'
    BY <1>0, <1>1, <2>1 DEF startCompanion, UnderWay, Spawning
  <2> QED BY <1>t, <1>o, <1>a, <1>1, <2>1, <2>2 DEF startCompanion
<1>2. ASSUME NEW w \in Waits, spawnCompanion(w) PROVE ShellInv'
  <2>1. wait' \in [Waits -> Calls] /\ wait'[w].at = "health" /\ \A x \in Waits \ {w} : wait'[x] = wait[x]
    BY <1>0, <1>2, CallGoes DEF spawnCompanion, WaitGoes
  <2>2. PICK port \in Ports \ Taken, p \in FreeProcs :
            /\ childPort' = port /\ child' = p
            /\ proc' = [proc EXCEPT ![p] = [is |-> "booting", port |-> port]]
    BY <1>2 DEF spawnCompanion
  <2>3. p \in Procs /\ p \notin exits
    BY DEF FreeProcs
  <2>4. proc' \in [Procs -> Companions] /\ \A x \in Procs \ {p} : proc'[x] = proc[x]
    BY <1>a, <2>2, <2>3 DEF Companions
  <2>5. UnderWay'
    BY <1>0, <1>2, <2>1 DEF spawnCompanion, UnderWay, Spawning
  <2>6. exits' \subseteq {x \in Procs : ~(proc'[x].is \in {"booting", "up"})}
    BY <1>o, <1>2, <2>3, <2>4 DEF spawnCompanion
  <2> QED BY <1>t, <1>o, <1>2, <2>1, <2>2, <2>3, <2>4, <2>5, <2>6 DEF spawnCompanion
<1>3. ASSUME NEW w \in Waits, NoPortFree(w) \/ Healthy(w) \/ HealthStopped(w) \/ Stopped(w) PROVE ShellInv'
  <2>1. wait' \in [Waits -> Calls] /\ startCall' \in {startCall, "done"} /\ \A x \in Waits \ {w} : wait'[x] = wait[x]
    BY <1>0, <1>3, CallEnds DEF NoPortFree, Healthy, HealthStopped, Stopped
  <2>2. UnderWay'
    BY <1>0, <1>3, <2>1 DEF NoPortFree, Healthy, HealthStopped, Stopped, UnderWay, Spawning
  <2> QED BY <1>t, <1>o, <1>a, <1>3, <2>1, <2>2 DEF NoPortFree, Healthy, HealthStopped, Stopped
<1>4. ASSUME NEW w \in Waits, healthCheck(w) PROVE ShellInv'
  <2>1. wait' \in [Waits -> Calls] /\ wait'[w].at = "healthy" /\ \A x \in Waits \ {w} : wait'[x] = wait[x]
    BY <1>0, <1>4, CallGoes DEF healthCheck, WaitGoes
  <2>2. UnderWay'
    BY <1>0, <1>4, <2>1 DEF healthCheck, UnderWay, Spawning
  <2> QED BY <1>t, <1>o, <1>a, <1>4, <2>1, <2>2 DEF healthCheck
<1>5. ASSUME NEW w \in Waits, Unhealthy(w) PROVE ShellInv'
  <2>1. wait' \in [Waits -> Calls] /\ wait'[w].at = "kill" /\ \A x \in Waits \ {w} : wait'[x] = wait[x]
    BY <1>0, <1>o, <1>5, CallGoes DEF Unhealthy, killProcess
  <2>2. UnderWay'
    BY <1>0, <1>5, <2>1 DEF Unhealthy, UnderWay, Spawning
  <2> QED BY <1>t, <1>o, <1>a, <1>5, <2>1, <2>2 DEF Unhealthy, killProcess
<1>6. ASSUME NEW w \in Waits, DelayEnds(w) PROVE ShellInv'
  <2>1. /\ wait' \in [Waits -> Calls] /\ wait'[w].at = (IF stopping THEN "none" ELSE "port")
        /\ \A x \in Waits \ {w} : wait'[x] = wait[x]
    BY <1>0, <1>6, CallGoes DEF DelayEnds, WaitGoes
  <2>2. UnderWay'
    BY <1>0, <1>6, <2>1 DEF DelayEnds, UnderWay, Spawning
  <2> QED BY <1>t, <1>o, <1>a, <1>6, <2>1, <2>2 DEF DelayEnds
<1>7. ASSUME NEW w \in Waits, ForceKill(w) PROVE ShellInv'
  <2>1. {wait[w].victim} \in SUBSET Procs
    BY <1>a, <1>7 DEF ForceKill, Calls
  <2>2. /\ proc' \in [Procs -> Companions]
        /\ exits' \subseteq {p \in Procs : ~(proc'[p].is \in {"booting", "up"})}
        /\ signalled' \subseteq Procs /\ deaths' \in 0..MaxRestarts
    BY <1>0, <1>7, <2>1, DieTypes DEF ForceKill
  <2>3. [wait[w] EXCEPT !.victim = NoProc] \in Calls /\ [wait[w] EXCEPT !.victim = NoProc].at = wait[w].at
    BY <1>a DEF Calls
  <2>4. wait' \in [Waits -> Calls] /\ \A x \in Waits : wait'[x].at = wait[x].at
    <3>1. wait' = [wait EXCEPT ![w] = [wait[w] EXCEPT !.victim = NoProc]]
      BY <1>a, <1>7 DEF ForceKill
    <3> QED BY <1>a, <2>3, <3>1
  <2>5. UnderWay'
    BY <1>0, <1>7, <2>4 DEF ForceKill, UnderWay
  <2> QED BY <1>t, <1>o, <1>7, <2>2, <2>4, <2>5 DEF ForceKill
<1>8. ASSUME NEW w \in Waits, KilledUnhealthy(w) PROVE ShellInv'
  <2>1. /\ wait' \in [Waits -> Calls] /\ restartCount' \in 0..MaxRestarts
        /\ shStatus' \in {"stopped", "starting", "running", "crashed", "failed"}
        /\ \A x \in Waits \ {w} : wait'[x] = wait[x]
        /\ stopping => shStatus' = shStatus
        /\ ~stopping => \/ shStatus' = "failed"
                        \/ shStatus' = "crashed" /\ wait'[w].at = "delay"
    BY <1>0, <1>a, <1>8, CrashTypes DEF KilledUnhealthy
  <2>2. startCall' \in {startCall, "done"}
    BY <1>8 DEF KilledUnhealthy, Returned
  <2>3. UnderWay'
    BY <1>0, <1>8, <2>1, <2>2 DEF KilledUnhealthy, UnderWay, Spawning
  <2> QED BY <1>t, <1>o, <1>a, <1>8, <2>1, <2>2, <2>3 DEF KilledUnhealthy
<1>9. ASSUME NEW w \in Waits, Restarted(w) PROVE ShellInv'
  <2>1. wait' \in [Waits -> Calls] /\ wait'[w].at = "port" /\ \A x \in Waits \ {w} : wait'[x] = wait[x]
    BY <1>0, <1>9, CallGoes DEF Restarted, WaitGoes
  <2>2. UnderWay'
    BY <1>0, <1>9, <2>1 DEF Restarted, UnderWay, Spawning
  <2> QED BY <1>t, <1>o, <1>a, <1>9, <2>1, <2>2 DEF Restarted
<1>10. ASSUME NEW w \in Waits, NEW a \in {"stop", "restart"}, stop(w, a) PROVE ShellInv'
  <2>1. wait' \in [Waits -> Calls] /\ wait'[w].at = a /\ \A x \in Waits \ {w} : wait'[x] = wait[x]
    BY <1>0, <1>o, <1>10, CallGoes DEF stop, killProcess
  <2>2. UnderWay'
    BY <1>0, <1>10, <2>1 DEF stop, UnderWay, Spawning
  <2>3. stops' \in 0..MaxStops
    BY <1>o, <1>10, ShellAssumption DEF stop
  <2> QED BY <1>t, <1>o, <1>a, <1>10, <2>1, <2>2, <2>3 DEF stop, killProcess
<1>11. ASSUME NEW p \in Procs, ExitEvent(p) PROVE ShellInv'
  <2> DEFINE woken == [w \in Waits |-> IF wait[w].victim = p THEN [wait[w] EXCEPT !.victim = NoProc]
                                       ELSE wait[w]]
  <2>1. woken \in [Waits -> Calls] /\ \A x \in Waits : woken[x].at = wait[x].at
    BY <1>a DEF Calls
  <2>2. \/ stopping /\ wait' = woken /\ UNCHANGED <<restartCount, shStatus>>
        \/ ~stopping /\ \E w \in FreeWaits : handleCrash(w, woken)
    BY <1>11 DEF ExitEvent
  <2>3. /\ UNCHANGED <<stopping, child, childPort, proc, signalled, deaths, startCall, stops>>
        /\ exits' \subseteq exits
    BY <1>11 DEF ExitEvent
  <2> HIDE DEF woken
  <2>4. CASE stopping /\ wait' = woken /\ UNCHANGED <<restartCount, shStatus>>
    <3>1. UnderWay'
      BY <1>0, <2>1, <2>3, <2>4 DEF UnderWay
    <3> QED BY <1>t, <1>o, <1>a, <2>1, <2>3, <2>4, <3>1
  <2>5. ASSUME ~stopping, NEW w \in FreeWaits, handleCrash(w, woken) PROVE ShellInv'
    <3>1. w \in Waits /\ wait[w] = NoWait /\ NoWait.at = "none"
      BY DEF FreeWaits, NoWait
    <3>2. /\ wait' \in [Waits -> Calls] /\ restartCount' \in 0..MaxRestarts
          /\ shStatus' \in {"stopped", "starting", "running", "crashed", "failed"}
          /\ \/ shStatus' = "failed"
             \/ shStatus' = "crashed" /\ wait'[w].at = "delay"
      BY <1>0, <2>1, <2>5, <3>1, CrashTypes
    <3>3. UnderWay'
      BY <1>0, <2>3, <2>5, <3>1, <3>2 DEF UnderWay, Spawning
    <3> QED BY <1>t, <1>o, <1>a, <2>3, <3>2, <3>3
  <2> QED BY <2>2, <2>4, <2>5
<1>12. ASSUME NEW p \in Procs, Boot(p) \/ Shutdown(p) \/ Crash(p) PROVE ShellInv'
  <2>1. /\ proc' \in [Procs -> Companions]
        /\ exits' \subseteq {x \in Procs : ~(proc'[x].is \in {"booting", "up"})}
        /\ signalled' \subseteq Procs /\ deaths' \in 0..MaxRestarts
    <3>1. CASE Die({p})
      BY <1>0, <3>1, DieTypes
    <3>2. CASE proc[p].is = "booting" /\ proc' = [proc EXCEPT ![p].is = "up"] /\ UNCHANGED <<exits, signalled, deaths>>
      <4>1. proc' \in [Procs -> Companions] /\ \A x \in Procs \ {p} : proc'[x] = proc[x]
        BY <1>a, <3>2 DEF Companions
      <4>2. p \notin exits
        BY <1>o, <3>2
      <4> QED BY <1>o, <3>2, <4>1, <4>2
    <3> QED BY <1>12, <3>1, <3>2 DEF Boot, Shutdown, Crash
  <2>2. UnderWay'
    BY <1>0, <1>12 DEF Boot, Shutdown, Crash, UnderWay
  <2> QED BY <1>t, <1>o, <1>a, <1>12, <2>1, <2>2 DEF Boot, Shutdown, Crash
<1>13. CASE UNCHANGED ShellVars
  BY <1>0, <1>13 DEF ShellVars, ShellInv, ShellTypeOK, UnderWay, Live
<1> QED BY <1>1, <1>2, <1>3, <1>4, <1>5, <1>6, <1>7, <1>8, <1>9, <1>10, <1>11, <1>12, <1>13
        DEF ShellNext, WaitStep

(* However the restarts, stops, health checks and exit events of the desktop *)
(* shell overlap, while it reports "starting" or "crashed" a call is under   *)
(* way that will report something else.                                      *)
THEOREM ShellNeverStuck == ShellSpec => []NeverStuck
<1>1. ShellInv => NeverStuck
  <2> SUFFICES ASSUME ShellInv, shStatus \in {"starting", "crashed"}
               PROVE  \E w \in Waits : wait[w] # NoWait
    BY DEF NeverStuck
  <2>1. PICK w \in Waits : wait[w].at \in Spawning \cup {"stop", "restart"}
    BY DEF ShellInv, UnderWay
  <2>2. NoWait.at = "none"
    BY DEF NoWait
  <2> QED BY <2>1, <2>2 DEF Spawning
<1>2. ShellInv /\ [ShellNext]_ShellVars => ShellInv'
  BY ShellInvStep
<1> QED BY <1>1, <1>2, ShellInvInit, PTL DEF ShellSpec

-----------------------------------------------------------------------------
(* The sync socket.                                                          *)

SocketInv == SocketTypeOK /\ NeverStranded /\ SyncedWasSent

SyncRowsSent(q, sent) == \A n \in 1..Len(q) : q[n].status = "synced" => q[n].item \in sent

(* The least of a nonempty set of numbers is in it.                          *)
LEMMA LeastIsIn ==
  ASSUME NEW T \in SUBSET Nat, T # {}
  PROVE  Min(T) \in T
<1>1. PICK x \in T : \A y \in T : ~(<<y, x>> \in OpToRel(<, Nat))
  BY NatLessThanWellFounded, WFMin
<1>2. \A y \in T : ~(y < x)
  BY <1>1 DEF OpToRel
<1>3. \A y \in T : x <= y
  BY <1>2
<1> QED BY <1>3 DEF Min

(* The sequences the events of a socket are kept in.                         *)
LEMMA EventQueues ==
  /\ \A A : <<>> \in Seq(A)
  /\ \A A : \A q \in Seq(A) : q # <<>> => Head(q) \in A /\ Tail(q) \in Seq(A)
  /\ \A A : \A n \in Nat : \A f \in [1..n -> A] : f \in Seq(A)
<1>1. ASSUME NEW A PROVE <<>> \in Seq(A)
  OBVIOUS
<1>2. ASSUME NEW A, NEW q \in Seq(A), q # <<>> PROVE Head(q) \in A /\ Tail(q) \in Seq(A)
  BY <1>2
<1>3. ASSUME NEW A, NEW n \in Nat, NEW f \in [1..n -> A] PROVE f \in Seq(A)
  OBVIOUS
<1> QED BY <1>1, <1>2, <1>3

(* The same by positions and by what the sequence ranges over.               *)
LEMMA SentRange ==
  ASSUME NEW q \in Seq(SyncRows), NEW sent
  PROVE  SyncRowsSent(q, sent) <=> \A r \in Range(q) : r.status = "synced" => r.item \in sent
BY DEF SyncRowsSent, Range

(* _saveQueue keeps the newest rows.                                         *)
LEMMA SavedRows ==
  ASSUME NEW q \in Seq(SyncRows), NEW sent, SyncRowsSent(q, sent)
  PROVE  _saveQueue(q) \in Seq(SyncRows) /\ SyncRowsSent(_saveQueue(q), sent)
<1>1. CASE Len(q) > SyncCap
  <2> DEFINE m == Len(q) - SyncCap
             k == SubSeq(q, m + 1, Len(q))
  <2>1. SyncCap \in Nat /\ Len(q) \in Nat /\ m \in Nat /\ m <= Len(q)
    BY <1>1, SyncSocketAssumption
  <2>2. k \in Seq(SyncRows) /\ Len(k) = Len(q) - m /\ \A n \in 1..Len(k) : k[n] = q[n + m]
    BY <2>1
  <2>3. \A n \in 1..Len(k) : n + m \in 1..Len(q)
    BY <2>1, <2>2
  <2>4. _saveQueue(q) = k
    BY <1>1 DEF _saveQueue
  <2> HIDE DEF m, k
  <2> QED BY <2>2, <2>3, <2>4 DEF SyncRowsSent
<1>2. CASE ~(Len(q) > SyncCap)
  BY <1>2 DEF _saveQueue
<1> QED BY <1>1, <1>2

(* A row is marked synced as it is sent, or its retry is counted.            *)
LEMMA SyncedRow ==
  ASSUME NEW r \in SyncRows, NEW open, r.retry < ItemRetries
  PROVE  /\ _syncItem(r, open) \in SyncRows /\ _syncItem(r, open).item = r.item
         /\ _syncItem(r, open).status = "synced" => open
<1>1. /\ r.item \in Items /\ r.status \in {"pending", "error", "synced"} /\ r.retry \in 0..ItemRetries
      /\ r = [item |-> r.item, status |-> r.status, retry |-> r.retry]
  BY DEF SyncRows
<1>2. r.retry + 1 \in 0..ItemRetries
  BY <1>1, SyncSocketAssumption
<1>3. CASE open
  BY <1>1, <1>3 DEF _syncItem, SyncRows
<1>4. CASE ~open
  <2>1. _syncItem(r, open) = [item |-> r.item, status |-> "error", retry |-> r.retry + 1]
    BY <1>1, <1>4 DEF _syncItem
  <2> QED BY <1>1, <1>2, <2>1 DEF SyncRows
<1> QED BY <1>3, <1>4

(* A flush that goes on from an item marks synced only what it sends.        *)
LEMMA FlushKeeps ==
  ASSUME sentItems \subseteq Items,
         NEW b \in Seq(SyncRows), NEW st \in Seq(SyncRows), NEW i \in Nat \ {0}, NEW open,
         SyncRowsSent(b, sentItems), SyncRowsSent(st, sentItems),
         FlushFrom(b, i, st, open)
  PROVE  /\ syncItems' \in Seq(SyncRows) /\ batch' \in Seq(SyncRows)
         /\ cursor' \in Nat /\ isSyncing' \in BOOLEAN /\ sentItems' \subseteq Items
         /\ SyncRowsSent(syncItems', sentItems') /\ SyncRowsSent(batch', sentItems')
<1> DEFINE due == {j \in i..Len(b) : b[j].status # "synced" /\ b[j].retry < ItemRetries}
           j == Min(due)
<1>1. CASE /\ due = {} /\ syncItems' = _saveQueue(b) /\ isSyncing' = FALSE
           /\ batch' = <<>> /\ cursor' = 0 /\ UNCHANGED sentItems
  <2>1. _saveQueue(b) \in Seq(SyncRows) /\ SyncRowsSent(_saveQueue(b), sentItems)
    BY SavedRows
  <2>2. SyncRowsSent(<<>>, sentItems)
    BY DEF SyncRowsSent
  <2>3. <<>> \in Seq(SyncRows) /\ 0 \in Nat /\ FALSE \in BOOLEAN
    OBVIOUS
  <2> HIDE DEF due, j
  <2>4. batch' \in Seq(SyncRows) /\ cursor' \in Nat /\ isSyncing' \in BOOLEAN
    BY <1>1, <2>3
  <2>5. syncItems' = _saveQueue(b) /\ batch' = <<>> /\ sentItems' = sentItems
    BY <1>1
  <2> QED BY <2>1, <2>2, <2>4, <2>5
<1>2. CASE /\ due # {} /\ syncItems' = st /\ isSyncing' = TRUE
           /\ batch' = [b EXCEPT ![j] = _syncItem(b[j], open)] /\ cursor' = j
           /\ sentItems' = IF open THEN sentItems \cup {b[j].item} ELSE sentItems
  <2>1. due \in SUBSET Nat
    OBVIOUS
  <2>2. j \in due
    BY <1>2, <2>1, LeastIsIn
  <2>3. j \in 1..Len(b) /\ j \in Nat /\ b[j] \in SyncRows /\ b[j].retry < ItemRetries
    BY <2>2
  <2> HIDE DEF due, j
  <2>4. /\ _syncItem(b[j], open) \in SyncRows /\ _syncItem(b[j], open).item = b[j].item
        /\ _syncItem(b[j], open).status = "synced" => open
    BY <2>3, SyncedRow
  <2>5. /\ batch' \in Seq(SyncRows) /\ Len(batch') = Len(b) /\ batch'[j] = _syncItem(b[j], open)
        /\ \A n \in 1..Len(b) : n # j => batch'[n] = b[n]
    BY <1>2, <2>3, <2>4
  <2>6. sentItems \subseteq sentItems' /\ sentItems' \subseteq Items /\ (open => b[j].item \in sentItems')
    BY <1>2, <2>3 DEF SyncRows
  <2>7. SyncRowsSent(batch', sentItems')
    BY <2>3, <2>4, <2>5, <2>6 DEF SyncRowsSent
  <2>8. SyncRowsSent(syncItems', sentItems')
    BY <1>2, <2>6 DEF SyncRowsSent
  <2> QED BY <1>2, <2>3, <2>5, <2>6, <2>7, <2>8
<1> QED BY <1>1, <1>2 DEF FlushFrom

(* The parts of the invariant that are about the connection, and those about *)
(* the outgoing items.                                                       *)
ChannelTypes ==
    /\ sock \in [Sockets -> {"none", "connecting", "open", "closing", "closed"}]
    /\ inbox \in [Sockets -> Seq(1..MaxSeq)]
    /\ replayFrom \in [Sockets -> 0..MaxSeq]
    /\ ws \in Sockets \cup {NoSocket}
    /\ wsUrl \in BOOLEAN /\ wsConnected \in BOOLEAN /\ intentionalClose \in BOOLEAN
    /\ reconnectTimer \in BOOLEAN /\ pingInterval \in BOOLEAN /\ pongTimer \in BOOLEAN
    /\ lastSequence \in 0..MaxSeq /\ published \in 0..MaxSeq
    /\ received \subseteq 1..MaxSeq
FlushTypes ==
    /\ isSyncing \in BOOLEAN /\ cursor \in Nat /\ sentItems \subseteq Items
    /\ syncItems \in Seq(SyncRows) /\ batch \in Seq(SyncRows)
    /\ SyncRowsSent(syncItems, sentItems) /\ SyncRowsSent(batch, sentItems)

(* The invariant of the socket, split into the transport and the queue of    *)
(* the flush.                                                                *)
LEMMA SocketInvParts == SocketInv <=> ChannelTypes /\ FlushTypes /\ NeverStranded
<1>1. SocketTypeOK <=>
         /\ ChannelTypes /\ isSyncing \in BOOLEAN /\ cursor \in Nat /\ sentItems \subseteq Items
         /\ syncItems \in Seq(SyncRows) /\ batch \in Seq(SyncRows)
  BY DEF SocketTypeOK, ChannelTypes
<1>2. ASSUME syncItems \in Seq(SyncRows), batch \in Seq(SyncRows)
      PROVE  SyncedWasSent <=> SyncRowsSent(syncItems, sentItems) /\ SyncRowsSent(batch, sentItems)
  BY <1>2, SentRange DEF SyncedWasSent
<1> QED BY <1>1, <1>2 DEF SocketInv, FlushTypes

(* At the start there is no socket and nothing is queued.                    *)
LEMMA SocketInvInit == SocketInit => SocketInv
<1> SUFFICES ASSUME SocketInit PROVE ChannelTypes /\ FlushTypes /\ NeverStranded
  BY SocketInvParts
<1>1. SyncRowsSent(<<>>, sentItems) /\ <<>> \in Seq(SyncRows) /\ <<>> \in Seq(1..MaxSeq)
  BY DEF SyncRowsSent
<1>2. ChannelTypes
  <2>1. MaxSeq \in Nat /\ 0 \in 0..MaxSeq
    BY SyncSocketAssumption
  <2>2. /\ inbox \in [Sockets -> Seq(1..MaxSeq)] /\ replayFrom \in [Sockets -> 0..MaxSeq]
        /\ sock \in [Sockets -> {"none", "connecting", "open", "closing", "closed"}]
    BY <1>1, <2>1 DEF SocketInit
  <2>3. received \subseteq 1..MaxSeq /\ lastSequence \in 0..MaxSeq /\ published \in 0..MaxSeq
    BY <2>1 DEF SocketInit
  <2> QED BY <2>2, <2>3 DEF SocketInit, ChannelTypes
<1> QED BY <1>1, <1>2 DEF SocketInit, FlushTypes, NeverStranded

(* The outgoing items, in whatever step a flush begins or goes on.           *)
LEMMA FlushStep ==
  ASSUME SocketInv, [SocketNext]_SocketVars
  PROVE  FlushTypes'
<1>0. FlushTypes
  BY SocketInvParts
<1>1. CASE UNCHANGED flushVars
  BY <1>0, <1>1 DEF flushVars, FlushTypes
<1>2. ASSUME NEW open, FlushFrom(syncItems, 1, syncItems, open) PROVE FlushTypes'
  BY <1>0, <1>2, FlushKeeps DEF FlushTypes
<1>3. CASE processQueueContinue
  <2>1. FlushFrom(batch, cursor + 1, syncItems, SocketOpen) /\ cursor + 1 \in Nat \ {0}
    BY <1>0, <1>3 DEF processQueueContinue, FlushTypes
  <2> QED BY <1>0, <2>1, FlushKeeps DEF FlushTypes
<1>4. CASE clearSynced
  <2> DEFINE q == filter(syncItems, {r \in Range(syncItems) : r.status # "synced"})
  <2>1. q \in Seq(SyncRows) /\ Range(q) \subseteq Range(syncItems)
    BY <1>0, Filtered DEF FlushTypes
  <2> HIDE DEF q
  <2>2. SyncRowsSent(q, sentItems)
    BY <1>0, <2>1, SentRange DEF FlushTypes
  <2>3. syncItems' = q /\ UNCHANGED <<isSyncing, batch, cursor, sentItems>>
    BY <1>4 DEF clearSynced, q
  <2> QED BY <1>0, <2>1, <2>2, <2>3 DEF FlushTypes
<1>5. ASSUME NEW m \in Items, enqueueItem(m) PROVE FlushTypes'
  <2> DEFINE row == [item |-> m, status |-> "pending", retry |-> 0]
             a == Append(syncItems, row)
             q == _saveQueue(a)
  <2>1. row \in SyncRows /\ row.status = "pending"
    BY SyncSocketAssumption DEF SyncRows
  <2> HIDE DEF row
  <2>2. a \in Seq(SyncRows) /\ SyncRowsSent(a, sentItems)
    <3>1. syncItems \in Seq(SyncRows) /\ SyncRowsSent(syncItems, sentItems)
      BY <1>0 DEF FlushTypes
    <3>2. /\ a \in Seq(SyncRows) /\ Len(a) = Len(syncItems) + 1 /\ a[Len(syncItems) + 1] = row
          /\ \A n \in 1..Len(syncItems) : a[n] = syncItems[n]
      BY <2>1, <3>1
    <3> HIDE DEF a
    <3> QED BY <2>1, <3>1, <3>2 DEF SyncRowsSent
  <2> HIDE DEF a
  <2>3. q \in Seq(SyncRows) /\ SyncRowsSent(q, sentItems)
    BY <2>2, SavedRows
  <2>4. \/ FlushFrom(q, 1, q, SocketOpen)
        \/ syncItems' = q /\ UNCHANGED <<isSyncing, batch, cursor, sentItems>>
    BY <1>5 DEF enqueueItem, a, row
  <2> HIDE DEF q
  <2> QED BY <1>0, <2>3, <2>4, FlushKeeps DEF FlushTypes
<1>6. ASSUME NEW m \in Items, sendEncryptedEvent(m) PROVE FlushTypes'
  <2>1. /\ sentItems' = sentItems \cup {m} /\ UNCHANGED <<syncItems, isSyncing, batch, cursor>>
    BY <1>6 DEF sendEncryptedEvent
  <2> QED BY <1>0, <2>1 DEF FlushTypes, SyncRowsSent
<1>7. CASE onlineHandler
  BY <1>1, <1>2, <1>7 DEF onlineHandler
<1>8. ASSUME NEW s \in Sockets, onopen(s) PROVE FlushTypes'
  BY <1>2, <1>8 DEF onopen
<1>9. CASE connect \/ disconnect \/ reconnectFires \/ ping \/ pong \/ pongTimeout \/ Publish
  BY <1>1, <1>9 DEF connect, disconnect, reconnectFires, ping, pong, pongTimeout, Publish
<1>10. ASSUME NEW s \in Sockets, onclose(s) \/ Replay(s) \/ _handleServerMessage(s) PROVE FlushTypes'
  BY <1>1, <1>10 DEF onclose, Replay, _handleServerMessage
<1>11. CASE UNCHANGED SocketVars
  BY <1>1, <1>11 DEF SocketVars
<1> QED BY <1>3, <1>4, <1>5, <1>6, <1>7, <1>8, <1>9, <1>10, <1>11 DEF SocketNext

(* A new socket is one that was never used.                                  *)
LEMMA OpensNew ==
  ASSUME ChannelTypes, NEW intentional \in BOOLEAN, NEW timer \in BOOLEAN, _openWebSocket(intentional, timer)
  PROVE  /\ sock' \in [Sockets -> {"none", "connecting", "open", "closing", "closed"}]
         /\ ws' \in Sockets \cup {NoSocket} /\ reconnectTimer' \in BOOLEAN
         /\ \A s \in Sockets : sock[s] # "none" => sock'[s] = sock[s]
         /\ ~intentional => reconnectTimer' \/ \E s \in Sockets : sock'[s] = "connecting"
<1> DEFINE n == Min(Unused)
<1>1. Unused \in SUBSET Nat /\ Unused # {}
  BY DEF Unused, Sockets, _openWebSocket
<1>2. n \in Sockets /\ sock[n] = "none"
  BY <1>1, LeastIsIn DEF Unused
<1> HIDE DEF n
<1>3. CASE ws' = n /\ sock' = [sock EXCEPT ![n] = "connecting"] /\ reconnectTimer' = timer
  BY <1>2, <1>3 DEF ChannelTypes
<1>4. CASE reconnectTimer' = (timer \/ ~intentional) /\ UNCHANGED <<ws, sock>>
  <2>1. reconnectTimer' \in BOOLEAN /\ (~intentional => reconnectTimer')
    BY <1>4
  <2> QED BY <1>4, <2>1 DEF ChannelTypes
<1> QED BY <1>3, <1>4 DEF _openWebSocket, n

(* Every event, timer and call keeps a way back to a connection.             *)
LEMMA ChannelStep ==
  ASSUME SocketInv, [SocketNext]_SocketVars
  PROVE  ChannelTypes' /\ NeverStranded'
<1>0. ChannelTypes /\ NeverStranded
  BY SocketInvParts
<1>1. CASE UNCHANGED <<channelVars, socketVars>>
  BY <1>0, <1>1 DEF channelVars, socketVars, ChannelTypes, NeverStranded
<1>2. CASE connect \/ reconnectFires
  <2>1. PICK intentional \in BOOLEAN, timer \in BOOLEAN :
           /\ _openWebSocket(intentional, timer)
           /\ ~intentionalClose' => ~intentional
    BY <1>0, <1>2 DEF connect, reconnectFires, ChannelTypes
  <2>2. /\ sock' \in [Sockets -> {"none", "connecting", "open", "closing", "closed"}]
        /\ ws' \in Sockets \cup {NoSocket} /\ reconnectTimer' \in BOOLEAN
        /\ \A s \in Sockets : sock[s] # "none" => sock'[s] = sock[s]
        /\ ~intentional => reconnectTimer' \/ \E s \in Sockets : sock'[s] = "connecting"
    BY <1>0, <2>1, OpensNew
  <2>3. /\ UNCHANGED <<inbox, replayFrom, published, wsConnected, pingInterval, pongTimer,
                       lastSequence, received>>
        /\ wsUrl' \in BOOLEAN /\ intentionalClose' \in BOOLEAN
    BY <1>0, <1>2 DEF connect, reconnectFires, ChannelTypes
  <2>4. ChannelTypes'
    BY <1>0, <2>2, <2>3 DEF ChannelTypes
  <2>5. NeverStranded'
    BY <1>0, <2>1, <2>2, <2>3 DEF NeverStranded
  <2> QED BY <2>4, <2>5
<1>3. CASE disconnect \/ pongTimeout
  <2>1. /\ sock' \in [Sockets -> {"none", "connecting", "open", "closing", "closed"}]
        /\ \A s \in Sockets : sock[s] \in {"connecting", "open", "closing"} => sock'[s] \in {sock[s], "closing"}
    BY <1>0, <1>3 DEF disconnect, pongTimeout, ChannelTypes
  <2>2. ChannelTypes'
    BY <1>0, <1>3, <2>1 DEF disconnect, pongTimeout, ChannelTypes
  <2>3. NeverStranded'
    BY <1>0, <1>3, <2>1 DEF disconnect, pongTimeout, NeverStranded
  <2> QED BY <2>2, <2>3
<1>4. ASSUME NEW s \in Sockets, onopen(s) PROVE ChannelTypes' /\ NeverStranded'
  <2>1. replayFrom' \in [Sockets -> 0..MaxSeq] /\ sock' \in [Sockets -> {"none", "connecting", "open", "closing", "closed"}]
        /\ sock'[s] = "open"
    BY <1>0, <1>4 DEF onopen, ChannelTypes
  <2>2. ChannelTypes'
    BY <1>0, <1>4, <2>1 DEF onopen, ChannelTypes
  <2>3. NeverStranded'
    BY <1>0, <1>4, <2>1 DEF onopen, NeverStranded
  <2> QED BY <2>2, <2>3
<1>5. ASSUME NEW s \in Sockets, onclose(s) PROVE ChannelTypes' /\ NeverStranded'
  <2>1. /\ inbox' \in [Sockets -> Seq(1..MaxSeq)] /\ replayFrom' \in [Sockets -> 0..MaxSeq]
        /\ sock' \in [Sockets -> {"none", "connecting", "open", "closing", "closed"}]
    <3>1. <<>> \in Seq(1..MaxSeq) /\ 0 \in 0..MaxSeq
      BY SyncSocketAssumption
    <3> QED BY <1>0, <1>5, <3>1 DEF onclose, ChannelTypes
  <2>2. reconnectTimer' \in BOOLEAN /\ (~intentionalClose => reconnectTimer')
    BY <1>5 DEF onclose
  <2>3. ChannelTypes'
    BY <1>0, <1>5, <2>1, <2>2 DEF onclose, ChannelTypes
  <2>4. NeverStranded'
    BY <1>0, <1>5, <2>2 DEF onclose, NeverStranded
  <2> QED BY <2>3, <2>4
<1>6. CASE onlineHandler \/ ping \/ pong
  <2>1. /\ UNCHANGED <<channelVars, ws, wsUrl, wsConnected, intentionalClose, pingInterval, lastSequence, received>>
        /\ reconnectTimer' \in BOOLEAN /\ (reconnectTimer => reconnectTimer') /\ pongTimer' \in BOOLEAN
    BY <1>0, <1>6 DEF onlineHandler, ping, pong, ChannelTypes
  <2>2. ChannelTypes'
    BY <1>0, <2>1 DEF channelVars, ChannelTypes
  <2>3. NeverStranded'
    BY <1>0, <2>1 DEF channelVars, NeverStranded
  <2> QED BY <2>2, <2>3
<1>7. ASSUME inbox' \in [Sockets -> Seq(1..MaxSeq)], replayFrom' \in [Sockets -> 0..MaxSeq],
             lastSequence' \in 0..MaxSeq, received' \subseteq 1..MaxSeq, published' \in 0..MaxSeq,
             UNCHANGED <<sock, ws, wsUrl, wsConnected, intentionalClose, reconnectTimer, pingInterval, pongTimer>>
      PROVE  ChannelTypes' /\ NeverStranded'
  BY <1>0, <1>7 DEF ChannelTypes, NeverStranded
<1>8. CASE Publish
  <2>1. published' \in 1..MaxSeq
    BY <1>0, <1>8, SyncSocketAssumption DEF Publish, ChannelTypes
  <2>2. \A s \in Sockets : inbox[s] \in Seq(1..MaxSeq) /\ Append(inbox[s], published') \in Seq(1..MaxSeq)
    BY <1>0, <2>1 DEF ChannelTypes
  <2>3. inbox' \in [Sockets -> Seq(1..MaxSeq)]
    BY <1>8, <2>2 DEF Publish
  <2> QED BY <1>0, <1>7, <1>8, <2>1, <2>3 DEF Publish, socketVars, ChannelTypes
<1>9. ASSUME NEW s \in Sockets, Replay(s) PROVE ChannelTypes' /\ NeverStranded'
  <2> DEFINE n == published - replayFrom[s]
             missed == [i \in 1..n |-> replayFrom[s] + i]
  <2>1. n \in Int /\ replayFrom[s] \in 0..MaxSeq /\ published \in 0..MaxSeq /\ MaxSeq \in Nat
    BY <1>0, SyncSocketAssumption DEF ChannelTypes
  <2>2. \A i \in 1..n : replayFrom[s] + i \in 1..MaxSeq
    BY <2>1
  <2>3. missed \in Seq(1..MaxSeq)
    <3>0. missed \in [1..n -> 1..MaxSeq]
      BY <2>2
    <3>1. CASE n \in Nat
      BY <3>0, <3>1, EventQueues
    <3>2. CASE n \notin Nat
      <4>1. 1..n = 1..0
        BY <2>1, <3>2
      <4>2. missed \in [1..0 -> 1..MaxSeq] /\ 0 \in Nat
        BY <3>0, <4>1
      <4> QED BY <4>2, EventQueues
    <3> QED BY <3>1, <3>2
  <2>4. inbox' = [inbox EXCEPT ![s] = inbox[s] \o missed]
    BY <1>9 DEF Replay
  <2> HIDE DEF missed
  <2>5. inbox[s] \o missed \in Seq(1..MaxSeq)
    BY <1>0, <2>3 DEF ChannelTypes
  <2>6. inbox' \in [Sockets -> Seq(1..MaxSeq)]
    BY <1>0, <2>4, <2>5 DEF ChannelTypes
  <2>7. replayFrom' \in [Sockets -> 0..MaxSeq]
    BY <1>0, <1>9, <2>1 DEF Replay, ChannelTypes
  <2> QED BY <1>0, <1>7, <1>9, <2>6, <2>7 DEF Replay, socketVars, ChannelTypes
<1>10. ASSUME NEW s \in Sockets, _handleServerMessage(s) PROVE ChannelTypes' /\ NeverStranded'
  <2>1. inbox[s] \in Seq(1..MaxSeq) /\ inbox[s] # <<>> /\ lastSequence \in 0..MaxSeq /\ MaxSeq \in Nat
    BY <1>0, <1>10, SyncSocketAssumption DEF _handleServerMessage, ChannelTypes
  <2>2. Head(inbox[s]) \in 1..MaxSeq /\ Tail(inbox[s]) \in Seq(1..MaxSeq)
    BY <2>1, EventQueues, Zenon
  <2>3. Max({lastSequence, Head(inbox[s])}) \in {lastSequence, Head(inbox[s])}
    <3>1. \E x \in {lastSequence, Head(inbox[s])} : \A y \in {lastSequence, Head(inbox[s])} : x >= y
      BY <2>1, <2>2
    <3> QED BY <3>1 DEF Max
  <2>4. lastSequence' \in 0..MaxSeq /\ received' \subseteq 1..MaxSeq
    <3>1. lastSequence' \in {lastSequence, Head(inbox[s])} /\ received' = received \cup {Head(inbox[s])}
      BY <1>10, <2>3 DEF _handleServerMessage
    <3>2. \A n \in 1..MaxSeq : n \in 0..MaxSeq
      BY <2>1
    <3> QED BY <1>0, <2>1, <2>2, <3>1, <3>2 DEF ChannelTypes
  <2>5. inbox' \in [Sockets -> Seq(1..MaxSeq)]
    BY <1>0, <1>10, <2>2 DEF _handleServerMessage, ChannelTypes
  <2> QED BY <1>0, <1>7, <1>10, <2>4, <2>5 DEF _handleServerMessage, ChannelTypes
<1>11. CASE processQueueContinue \/ clearSynced \/ \E m \in Items : enqueueItem(m) \/ sendEncryptedEvent(m)
  BY <1>1, <1>11 DEF processQueueContinue, clearSynced, enqueueItem, sendEncryptedEvent
<1>12. CASE UNCHANGED SocketVars
  BY <1>1, <1>12 DEF SocketVars
<1> QED BY <1>2, <1>3, <1>4, <1>5, <1>6, <1>8, <1>9, <1>10, <1>11, <1>12 DEF SocketNext

(* The invariant of the socket holds throughout every behaviour.             *)
LEMMA SocketInvariant == SocketSpec => []SocketInv
<1>1. SocketInv /\ [SocketNext]_SocketVars => SocketInv'
  <2> SUFFICES ASSUME SocketInv, [SocketNext]_SocketVars PROVE SocketInv'
    OBVIOUS
  <2>1. ChannelTypes' /\ FlushTypes' /\ NeverStranded'
    BY FlushStep, ChannelStep
  <2> QED BY <2>1, SocketInvParts, PTL
<1> QED BY <1>1, SocketInvInit, PTL DEF SocketSpec

(* Until the application disconnects, the sync transport is connected over a *)
(* socket that exists with its heartbeat running, or something is due that   *)
(* makes it try again, however sockets of different ages open and close.     *)
THEOREM SocketNeverStranded == SocketSpec => []NeverStranded
<1>1. SocketInv => NeverStranded
  BY DEF SocketInv
<1> QED BY <1>1, SocketInvariant, PTL

(* An item is marked synced only after it was written to an open socket,     *)
(* whatever replaced the queue or the socket while it was its turn.          *)
THEOREM SocketSyncsWhatItSent == SocketSpec => []SyncedWasSent
<1>1. SocketInv => SyncedWasSent
  BY DEF SocketInv
<1> QED BY <1>1, SocketInvariant, PTL

-----------------------------------------------------------------------------
(* The offline queue.                                                        *)

Waiting(p) == passAt[p] # "idle"

(* The types; what is in the queue, or in a pass, has been enqueued, and is  *)
(* there once.                                                               *)
QueueTypes ==
    /\ opQueue \in Seq(Ops) /\ opStored \in Seq(StoredOps)
    /\ opStatus \in [Ops -> OpStatuses] /\ opRetry \in [Ops -> 0..OpRetries]
    /\ queueBusy \in BOOLEAN /\ queueOnline \in BOOLEAN /\ netUp \in BOOLEAN
    /\ handlerSet \in BOOLEAN /\ clearedMidPass \in BOOLEAN
    /\ opDone \in [Ops -> 0..2] /\ opSettled \subseteq Ops
    /\ IsInjective(opQueue)
    /\ \A m, n \in 1..Len(opStored) : opStored[m].op = opStored[n].op => m = n
    /\ \A o \in Range(opQueue) : opStatus[o] # "none"
PassTypes ==
    /\ passTodo \in [Passes -> Seq(Ops)]
    /\ passAt \in [Passes -> {"idle", "handler", "backoff"}]
    /\ \A p \in Passes : IsInjective(passTodo[p])
    /\ \A p \in Passes : Waiting(p) => passTodo[p] # <<>>
    /\ \A p \in Passes : \A o \in Range(passTodo[p]) : opStatus[o] # "none"

(* Unless clear() hit a waiting pass, there is one pass, it holds isProcessing *)
(* and has only operations before it that have not succeeded.                *)
OnePass ==
    /\ \A p \in Passes : Waiting(p) => queueBusy
    /\ \A p, x \in Passes : Waiting(p) /\ Waiting(x) => p = x
    /\ \A p \in Passes : Waiting(p) => \A o \in Range(passTodo[p]) : opStatus[o] # "completed"
    /\ \A o \in Ops : opDone[o] <= 1 /\ (opDone[o] # 0 => opStatus[o] = "completed")

(* localStorage lists the operations of the queue, and what is neither       *)
(* settled nor listed was never enqueued.                                    *)
StoredKept ==
    /\ Len(opStored) = Len(opQueue) /\ \A n \in 1..Len(opQueue) : opStored[n].op = opQueue[n]
    /\ \A o \in Ops : opStatus[o] # "none" /\ o \notin opSettled => o \in Range(opQueue)
    /\ \A o \in Ops : opStatus[o] = "completed" => o \in opSettled
    /\ \A n \in 1..Len(opStored) : opStored[n].status = "completed" => opStored[n].op \in opSettled

QueueInv ==
    /\ QueueTypes /\ PassTypes
    /\ clearedMidPass \/ OnePass
    /\ ~SaveMayFail => StoredKept

(* At the start the queue, its copy and the passes are empty.                *)
LEMMA QueueInvInit == QueueInit => QueueInv
<1> SUFFICES ASSUME QueueInit PROVE QueueInv
  OBVIOUS
<1>0. /\ <<>> \in Seq(Ops) /\ <<>> \in Seq(StoredOps) /\ IsInjective(<<>>) /\ Range(<<>>) = {} /\ Len(<<>>) = 0
      /\ 1..0 = {} /\ 0 \in 0..OpRetries /\ 0 \in 0..2
  BY OfflineQueueAssumption DEF IsInjective, Range
<1>1. QueueTypes
  BY <1>0 DEF QueueInit, QueueTypes, OpStatuses
<1>2. PassTypes
  BY <1>0 DEF QueueInit, PassTypes, Waiting
<1>3. OnePass /\ StoredKept
  BY <1>0 DEF QueueInit, OnePass, StoredKept, Waiting
<1> QED BY <1>1, <1>2, <1>3 DEF QueueInv

SavedAs(q, st, rt) == [i \in 1..Len(q) |-> [op |-> q[i], status |-> st[q[i]], retry |-> rt[q[i]]]]

(* Afterwards localStorage lists the array, unless the write failed.         *)
SavedFor(q, st) ==
    /\ opStored' \in Seq(StoredOps)
    /\ \A m, n \in 1..Len(opStored') : opStored'[m].op = opStored'[n].op => m = n
    /\ ~SaveMayFail => /\ Len(opStored') = Len(q)
                       /\ \A n \in 1..Len(q) : opStored'[n].op = q[n] /\ opStored'[n].status = st[q[n]]

(* saveQueue writes a row for every operation of the array.                  *)
LEMMA QueueSaved ==
  ASSUME NEW q \in Seq(Ops), NEW st \in [Ops -> OpStatuses], NEW rt \in [Ops -> 0..OpRetries],
         IsInjective(q), \A o \in Range(q) : st[o] # "none", QueueTypes, saveQueue(q, st, rt)
  PROVE  SavedFor(q, st)
<1> DEFINE S == SavedAs(q, st, rt)
<1>1. opStored' = S \/ (SaveMayFail /\ opStored' = opStored)
  BY DEF saveQueue, SavedAs
<1>2. ASSUME NEW n \in 1..Len(q)
      PROVE  [op |-> q[n], status |-> st[q[n]], retry |-> rt[q[n]]] \in StoredOps
  <2>1. q[n] \in Ops /\ q[n] \in Range(q)
    BY DEF Range
  <2>2. st[q[n]] \in OpStatuses \ {"none"} /\ rt[q[n]] \in 0..OpRetries
    BY <2>1
  <2> QED BY <2>1, <2>2 DEF StoredOps
<1>3. S \in Seq(StoredOps) /\ Len(S) = Len(q)
  BY <1>2 DEF SavedAs
<1>4. \A n \in 1..Len(q) : S[n].op = q[n] /\ S[n].status = st[q[n]]
  BY DEF SavedAs
<1> HIDE DEF S
<1>5. CASE opStored' = S
  <2>1. ASSUME NEW m \in 1..Len(q), NEW n \in 1..Len(q), S[m].op = S[n].op PROVE m = n
    <3>1. q[m] = q[n] /\ m \in DOMAIN q /\ n \in DOMAIN q
      BY <1>4, <2>1
    <3> QED BY <3>1 DEF IsInjective
  <2> QED BY <1>3, <1>4, <1>5, <2>1 DEF SavedFor
<1>6. CASE SaveMayFail /\ opStored' = opStored
  BY <1>6 DEF QueueTypes, SavedFor
<1> QED BY <1>1, <1>5, <1>6

(* What a pass has left after its first operation.                           *)
LEMMA QueueTail ==
  ASSUME NEW A, NEW q \in Seq(A), q # <<>>
  PROVE  /\ Head(q) \in A /\ Head(q) \in Range(q) /\ Tail(q) \in Seq(A) /\ Range(Tail(q)) \subseteq Range(q)
         /\ IsInjective(q) => IsInjective(Tail(q)) /\ Head(q) \notin Range(Tail(q))
<1>1. /\ Len(q) \in Nat /\ Len(q) > 0 /\ Len(Tail(q)) = Len(q) - 1 /\ Head(q) = q[1]
      /\ Tail(q) \in Seq(A) /\ \A n \in 1..Len(Tail(q)) : Tail(q)[n] = q[n + 1]
      /\ DOMAIN q = 1..Len(q) /\ DOMAIN Tail(q) = 1..Len(Tail(q))
  OBVIOUS
<1>2. \A n \in 1..Len(Tail(q)) : n + 1 \in 1..Len(q) /\ n + 1 # 1
  BY <1>1
<1>3. 1 \in 1..Len(q)
  BY <1>1
<1>4. Range(Tail(q)) \subseteq Range(q) /\ Head(q) \in Range(q) /\ Head(q) \in A
  BY <1>1, <1>2, <1>3 DEF Range
<1>5. ASSUME IsInjective(q) PROVE IsInjective(Tail(q))
  <2>1. ASSUME NEW m \in 1..Len(Tail(q)), NEW n \in 1..Len(Tail(q)), Tail(q)[m] = Tail(q)[n] PROVE m = n
    <3>1. m + 1 = n + 1
      BY <1>1, <1>2, <1>5, <2>1 DEF IsInjective
    <3> QED BY <1>1, <3>1
  <2> QED BY <1>1, <2>1 DEF IsInjective
<1>6. ASSUME IsInjective(q) PROVE Head(q) \notin Range(Tail(q))
  <2>1. \A n \in 1..Len(Tail(q)) : q[n + 1] # q[1]
    BY <1>1, <1>2, <1>3, <1>6 DEF IsInjective
  <2> QED BY <1>1, <2>1 DEF Range
<1> QED BY <1>1, <1>4, <1>5, <1>6

(* How a pass leaves the queue: it waits for the next handler, or it ends.   *)
PassWaits(p, todo) ==
    /\ todo # <<>> /\ queueBusy'
    /\ passTodo' = [passTodo EXCEPT ![p] = todo] /\ passAt' = [passAt EXCEPT ![p] = "handler"]
    /\ UNCHANGED <<opQueue, opStored>>
PassEnds(p) ==
    /\ queueBusy' = FALSE
    /\ passTodo' = [passTodo EXCEPT ![p] = <<>>] /\ passAt' = [passAt EXCEPT ![p] = "idle"]
    /\ opQueue' = filter(opQueue, {o \in Ops : opStatus'[o] # "completed"})
    /\ saveQueue(opQueue', opStatus', opRetry')

(* A pass that goes on waits for the handler of its next operation, or ends  *)
(* and filters the queue.                                                    *)
LEMMA PassGoes ==
  ASSUME NEW p \in Passes, NEW todo \in Seq(Ops), NEW st \in [Ops -> OpStatuses], NEW rt,
         VisitNext(p, todo, st, rt) \/ EndPass(p, st, rt)
  PROVE  /\ opStatus' \in [Ops -> OpStatuses] /\ opRetry' = rt
         /\ \A o \in Ops : \/ opStatus'[o] = st[o]
                           \/ o \in Range(todo) /\ opStatus'[o] \in {"failed", "processing"}
         /\ PassWaits(p, todo) \/ PassEnds(p)
<1>1. CASE EndPass(p, st, rt)
  BY <1>1 DEF EndPass, PassEnds
<1>2. CASE EndPass(p, [o \in Ops |-> IF o \in Range(todo) THEN "failed" ELSE st[o]], rt)
  <2> DEFINE f == [o \in Ops |-> IF o \in Range(todo) THEN "failed" ELSE st[o]]
  <2>1. f \in [Ops -> OpStatuses] /\ \A o \in Ops : f[o] = IF o \in Range(todo) THEN "failed" ELSE st[o]
    BY DEF OpStatuses
  <2> HIDE DEF f
  <2>2. EndPass(p, f, rt)
    BY <1>2 DEF f
  <2>3. opStatus' = f /\ opRetry' = rt /\ PassEnds(p)
    BY <2>2 DEF EndPass, PassEnds
  <2> QED BY <2>1, <2>3
<1>3. CASE /\ todo # <<>> /\ handlerSet
           /\ opStatus' = [st EXCEPT ![Head(todo)] = "processing"] /\ opRetry' = rt
           /\ passTodo' = [passTodo EXCEPT ![p] = todo]
           /\ passAt' = [passAt EXCEPT ![p] = "handler"]
           /\ queueBusy' = TRUE
           /\ UNCHANGED <<opQueue, opStored>>
  <2>1. Head(todo) \in Ops /\ Head(todo) \in Range(todo)
    BY <1>3, QueueTail
  <2>2. /\ opStatus' \in [Ops -> OpStatuses]
        /\ \A o \in Ops : \/ opStatus'[o] = st[o]
                          \/ o \in Range(todo) /\ opStatus'[o] \in {"failed", "processing"}
    BY <1>3, <2>1 DEF OpStatuses
  <2> QED BY <1>3, <2>2 DEF PassWaits
<1> QED BY <1>1, <1>2, <1>3 DEF VisitNext

(* A pass goes on from the statuses st with the operations todo.             *)
LEMMA PassStep ==
  ASSUME QueueInv, NEW p \in Passes, NEW todo \in Seq(Ops), NEW st \in [Ops -> OpStatuses],
         NEW rt \in [Ops -> 0..OpRetries], IsInjective(todo),
         VisitNext(p, todo, st, rt) \/ EndPass(p, st, rt),
         \A o \in Range(todo) : opStatus[o] # "none",
         \A o \in Ops : st[o] = "none" <=> opStatus[o] = "none",
         \/ clearedMidPass
         \/ /\ \A x \in Passes \ {p} : ~Waiting(x)
            /\ \A o \in Range(todo) : st[o] # "completed"
            /\ \A o \in Ops : opDone'[o] <= 1 /\ (opDone'[o] # 0 => st[o] = "completed"),
         opDone' \in [Ops -> 0..2], opSettled \subseteq opSettled', opSettled' \subseteq Ops,
         ~SaveMayFail => \A o \in Ops : st[o] = "completed" => o \in opSettled',
         queueOnline' \in BOOLEAN, netUp' \in BOOLEAN, UNCHANGED <<handlerSet, clearedMidPass>>
  PROVE  QueueInv'
<1>0. QueueTypes /\ PassTypes /\ (clearedMidPass \/ OnePass) /\ (~SaveMayFail => StoredKept)
  BY DEF QueueInv
<1>1. /\ opStatus' \in [Ops -> OpStatuses] /\ opRetry' = rt
      /\ \A o \in Ops : \/ opStatus'[o] = st[o]
                        \/ o \in Range(todo) /\ opStatus'[o] \in {"failed", "processing"}
      /\ PassWaits(p, todo) \/ PassEnds(p)
  BY PassGoes
<1>2. \A o \in Ops : opStatus'[o] = "none" <=> opStatus[o] = "none"
  BY <1>1
<1>3. Range(opQueue) \subseteq Ops /\ \A x \in Passes : Range(passTodo[x]) \subseteq Ops
  BY <1>0 DEF QueueTypes, PassTypes, Range
<1>4. /\ opQueue' \in Seq(Ops) /\ IsInjective(opQueue')
      /\ Range(opQueue') \subseteq Range(opQueue)
      /\ \A o \in Range(opQueue) : opStatus'[o] # "completed" => o \in Range(opQueue')
  <2>1. CASE PassWaits(p, todo)
    BY <1>0, <2>1 DEF PassWaits, QueueTypes
  <2>2. CASE PassEnds(p)
    <3> DEFINE K == {o \in Ops : opStatus'[o] # "completed"}
    <3>1. opQueue' = filter(opQueue, K)
      BY <2>2 DEF PassEnds
    <3> HIDE DEF K
    <3>2. opQueue' \in Seq(Ops) /\ IsInjective(opQueue') /\ Range(opQueue') = Range(opQueue) \cap K
      BY <1>0, <3>1, Filtered DEF QueueTypes
    <3> QED BY <1>3, <3>2 DEF K
  <2> QED BY <1>1, <2>1, <2>2
<1>5. \A o \in Range(opQueue') : opStatus'[o] # "none"
  BY <1>0, <1>2, <1>3, <1>4 DEF QueueTypes
<1>6. /\ opStored' \in Seq(StoredOps)
      /\ \A m, n \in 1..Len(opStored') : opStored'[m].op = opStored'[n].op => m = n
      /\ ~SaveMayFail =>
            /\ Len(opStored') = Len(opQueue')
            /\ \A n \in 1..Len(opQueue') : opStored'[n].op = opQueue'[n]
            /\ \A n \in 1..Len(opStored') : opStored'[n].status = "completed" => opStored'[n].op \in opSettled'
  <2>1. CASE PassWaits(p, todo)
    BY <1>0, <2>1 DEF PassWaits, QueueTypes, StoredKept
  <2>2. CASE PassEnds(p)
    <3>1. saveQueue(opQueue', opStatus', opRetry')
      BY <2>2 DEF PassEnds
    <3>2. opRetry' \in [Ops -> 0..OpRetries]
      BY <1>1
    <3>a. SavedFor(opQueue', opStatus')
      BY <1>0, <1>1, <1>4, <1>5, <3>1, <3>2, QueueSaved
    <3>3. /\ opStored' \in Seq(StoredOps)
          /\ \A m, n \in 1..Len(opStored') : opStored'[m].op = opStored'[n].op => m = n
          /\ ~SaveMayFail =>
                /\ Len(opStored') = Len(opQueue')
                /\ \A n \in 1..Len(opQueue') :
                      opStored'[n].op = opQueue'[n] /\ opStored'[n].status = opStatus'[opQueue'[n]]
      BY <3>a DEF SavedFor
    <3>4. \A n \in 1..Len(opQueue') : opQueue'[n] \in Range(opQueue') /\ opQueue'[n] \in Ops
      BY <1>4 DEF Range
    <3>5. \A o \in Range(opQueue') : opStatus'[o] # "completed"
      <4> DEFINE K == {o \in Ops : opStatus'[o] # "completed"}
      <4>1. opQueue' = filter(opQueue, K)
        BY <2>2 DEF PassEnds
      <4> HIDE DEF K
      <4>2. Range(opQueue') = Range(opQueue) \cap K
        BY <1>0, <4>1, Filtered DEF QueueTypes
      <4> QED BY <4>2 DEF K
    <3>6. ASSUME ~SaveMayFail, NEW n \in 1..Len(opStored') PROVE opStored'[n].status # "completed"
      <4>1. n \in 1..Len(opQueue') /\ opStored'[n].status = opStatus'[opQueue'[n]]
        BY <3>3, <3>6
      <4> QED BY <3>4, <3>5, <4>1
    <3> QED BY <3>3, <3>6
  <2> QED BY <1>1, <2>1, <2>2
<1>7. QueueTypes'
  BY <1>0, <1>1, <1>4, <1>5, <1>6, PassWaits(p, todo) \/ PassEnds(p) DEF QueueTypes, PassWaits, PassEnds
<1>8. /\ passTodo' \in [Passes -> Seq(Ops)]
      /\ passAt' \in [Passes -> {"idle", "handler", "backoff"}]
      /\ \A x \in Passes \ {p} : passTodo'[x] = passTodo[x] /\ passAt'[x] = passAt[x]
      /\ \/ passTodo'[p] = todo /\ todo # <<>> /\ queueBusy'
         \/ passTodo'[p] = <<>> /\ passAt'[p] = "idle"
  <2>1. <<>> \in Seq(Ops) /\ passTodo \in [Passes -> Seq(Ops)] /\ passAt \in [Passes -> {"idle", "handler", "backoff"}]
    BY <1>0 DEF PassTypes
  <2>2. CASE PassWaits(p, todo)
    BY <2>1, <2>2 DEF PassWaits
  <2>3. CASE PassEnds(p)
    BY <2>1, <2>3 DEF PassEnds
  <2> QED BY <1>1, <2>2, <2>3
<1>9. PassTypes'
  <2>1. IsInjective(<<>>) /\ Range(<<>>) = {}
    BY DEF IsInjective, Range
  <2>2. ASSUME NEW x \in Passes PROVE /\ IsInjective(passTodo'[x])
                                      /\ passAt'[x] # "idle" => passTodo'[x] # <<>>
                                      /\ \A o \in Range(passTodo'[x]) : opStatus'[o] # "none"
    <3>1. CASE x = p
      <4>1. Range(todo) \subseteq Ops
        BY DEF Range
      <4> QED BY <1>2, <1>8, <2>1, <3>1, <4>1
    <3>2. CASE x # p
      BY <1>0, <1>2, <1>3, <1>8, <3>2 DEF PassTypes, Waiting
    <3> QED BY <3>1, <3>2
  <2> QED BY <1>8, <2>2 DEF PassTypes, Waiting
<1>10. clearedMidPass' \/ OnePass'
  <2> SUFFICES ASSUME ~clearedMidPass PROVE OnePass'
    OBVIOUS
  <2>1. /\ \A x \in Passes \ {p} : passAt'[x] = "idle"
        /\ \A o \in Range(todo) : st[o] # "completed"
        /\ \A o \in Ops : opDone'[o] <= 1 /\ (opDone'[o] # 0 => st[o] = "completed")
    BY <1>8 DEF Waiting
  <2>2. \A o \in Range(todo) : o \in Ops /\ opStatus'[o] # "completed"
    <3>1. Range(todo) \subseteq Ops
      BY DEF Range
    <3> QED BY <1>1, <2>1, <3>1
  <2>3. \A o \in Ops : opDone'[o] # 0 => opStatus'[o] = "completed"
    BY <1>1, <2>1
  <2> QED BY <1>8, <2>1, <2>2, <2>3 DEF OnePass, Waiting
<1>11. ~SaveMayFail => StoredKept'
  <2> SUFFICES ASSUME ~SaveMayFail PROVE StoredKept'
    OBVIOUS
  <2>1. ASSUME NEW o \in Ops, opStatus'[o] = "completed" PROVE o \in opSettled'
    BY <1>1, <2>1
  <2>2. ASSUME NEW o \in Ops, opStatus'[o] # "none", o \notin opSettled' PROVE o \in Range(opQueue')
    <3>1. o \in Range(opQueue)
      BY <1>0, <1>2, <2>2 DEF StoredKept
    <3> QED BY <1>4, <2>1, <2>2, <3>1
  <2> QED BY <1>6, <2>1, <2>2 DEF StoredKept
<1> QED BY <1>7, <1>9, <1>10, <1>11 DEF QueueInv

(* An activation selects the pending operations, each once.                  *)
LEMMA PassBegins ==
  ASSUME QueueInv, NEW p \in Passes, processQueue(p), UNCHANGED <<handlerSet, queueHistory>>,
         queueOnline' \in BOOLEAN, netUp' \in BOOLEAN
  PROVE  QueueInv'
<1>0. QueueTypes /\ PassTypes /\ (clearedMidPass \/ OnePass) /\ (~SaveMayFail => StoredKept)
  BY DEF QueueInv
<1> DEFINE todo == PendingOps
           K == {o \in Ops : opStatus[o] = "pending"}
<1>1. todo = filter(opQueue, K)
  BY DEF PendingOps
<1>2. VisitNext(p, todo, opStatus, opRetry) /\ ~queueBusy
  BY DEF processQueue
<1> HIDE DEF todo, K
<1>3. todo \in Seq(Ops) /\ IsInjective(todo) /\ Range(todo) = Range(opQueue) \cap K
  BY <1>0, <1>1, Filtered DEF QueueTypes
<1>4. \A o \in Range(todo) : opStatus[o] # "none" /\ opStatus[o] # "completed"
  BY <1>3 DEF K
<1>5. UNCHANGED <<opDone, opSettled, clearedMidPass>>
  BY DEF queueHistory
<1>6. \/ clearedMidPass
      \/ /\ \A x \in Passes \ {p} : ~Waiting(x)
         /\ \A o \in Range(todo) : opStatus[o] # "completed"
         /\ \A o \in Ops : opDone'[o] <= 1 /\ (opDone'[o] # 0 => opStatus[o] = "completed")
  BY <1>0, <1>2, <1>4, <1>5 DEF OnePass
<1>7. /\ opStatus \in [Ops -> OpStatuses] /\ opRetry \in [Ops -> 0..OpRetries]
      /\ opDone' \in [Ops -> 0..2] /\ opSettled \subseteq opSettled' /\ opSettled' \subseteq Ops
      /\ ~SaveMayFail => \A o \in Ops : opStatus[o] = "completed" => o \in opSettled'
  BY <1>0, <1>5 DEF QueueTypes, StoredKept
<1> QED BY <1>2, <1>3, <1>4, <1>5, <1>6, <1>7, PassStep

(* The handler of an operation answers, or its back-off ends.                *)
LEMMA PassContinues ==
  ASSUME QueueInv, NEW p \in Passes, HandlerSucceeds(p) \/ HandlerFails(p) \/ BackoffEnds(p)
  PROVE  QueueInv'
<1>0. QueueTypes /\ PassTypes /\ (clearedMidPass \/ OnePass) /\ (~SaveMayFail => StoredKept)
  BY DEF QueueInv
<1> DEFINE o == Head(passTodo[p])
           todo == Tail(passTodo[p])
<1>1. Waiting(p) /\ passTodo[p] \in Seq(Ops) /\ passTodo[p] # <<>> /\ IsInjective(passTodo[p])
  BY <1>0 DEF PassTypes, HandlerSucceeds, HandlerFails, BackoffEnds, Waiting
<1>2. /\ o \in Ops /\ o \in Range(passTodo[p])
      /\ todo \in Seq(Ops) /\ IsInjective(todo) /\ o \notin Range(todo) /\ Range(todo) \subseteq Range(passTodo[p])
  BY <1>1, QueueTail
<1>3. /\ opStatus \in [Ops -> OpStatuses] /\ opRetry \in [Ops -> 0..OpRetries]
      /\ opDone \in [Ops -> 0..2] /\ opSettled \subseteq Ops /\ queueOnline \in BOOLEAN /\ netUp \in BOOLEAN
      /\ opStatus[o] # "none" /\ \A x \in Range(todo) : opStatus[x] # "none"
  BY <1>0, <1>1, <1>2 DEF QueueTypes, PassTypes
<1>4. \/ clearedMidPass
      \/ /\ \A x \in Passes \ {p} : ~Waiting(x)
         /\ opStatus[o] # "completed" /\ \A x \in Range(todo) : x # o /\ opStatus[x] # "completed"
         /\ \A x \in Ops : opDone[x] <= 1 /\ (opDone[x] # 0 => opStatus[x] = "completed")
  BY <1>0, <1>1, <1>2 DEF OnePass
<1>5. ~SaveMayFail => \A x \in Ops : opStatus[x] = "completed" => x \in opSettled
  BY <1>0 DEF StoredKept
<1>6. Range(todo) \subseteq Ops
  BY <1>2 DEF Range
<1>7. CASE HandlerSucceeds(p)
  <2> DEFINE st == [opStatus EXCEPT ![o] = "completed"]
  <2>1. /\ VisitNext(p, todo, st, opRetry)
        /\ opDone' = [opDone EXCEPT ![o] = IF opDone[o] < 2 THEN opDone[o] + 1 ELSE 2]
        /\ opSettled' = opSettled \cup {o}
        /\ UNCHANGED <<queueOnline, netUp, handlerSet, clearedMidPass>>
    BY <1>7 DEF HandlerSucceeds
  <2> HIDE DEF o, todo
  <2>2. st \in [Ops -> OpStatuses] /\ st[o] = "completed" /\ \A x \in Ops \ {o} : st[x] = opStatus[x]
    BY <1>2, <1>3 DEF OpStatuses
  <2>3. opDone' \in [Ops -> 0..2] /\ \A x \in Ops \ {o} : opDone'[x] = opDone[x]
    <3>1. (IF opDone[o] < 2 THEN opDone[o] + 1 ELSE 2) \in 0..2
      BY <1>2, <1>3
    <3> QED BY <1>2, <1>3, <2>1, <3>1
  <2>4. opDone[o] = 0 => opDone'[o] = 1
    BY <1>2, <1>3, <2>1
  <2> HIDE DEF st
  <2>5. \/ clearedMidPass
        \/ /\ \A x \in Passes \ {p} : ~Waiting(x)
           /\ \A x \in Range(todo) : st[x] # "completed"
           /\ \A x \in Ops : opDone'[x] <= 1 /\ (opDone'[x] # 0 => st[x] = "completed")
    BY <1>2, <1>4, <1>6, <2>2, <2>3, <2>4
  <2>6. \A x \in Ops : st[x] = "none" <=> opStatus[x] = "none"
    BY <1>3, <2>2
  <2>7. /\ opSettled \subseteq opSettled' /\ opSettled' \subseteq Ops
        /\ ~SaveMayFail => \A x \in Ops : st[x] = "completed" => x \in opSettled'
    BY <1>2, <1>3, <1>5, <2>1, <2>2
  <2>8. queueOnline' \in BOOLEAN /\ netUp' \in BOOLEAN /\ UNCHANGED <<handlerSet, clearedMidPass>>
    BY <1>3, <2>1
  <2> QED BY <1>2, <1>3, <2>1, <2>2, <2>3, <2>5, <2>6, <2>7, <2>8, PassStep
<1>8. CASE BackoffEnds(p)
  <2>1. /\ VisitNext(p, todo, opStatus, opRetry)
        /\ UNCHANGED <<queueOnline, netUp, handlerSet, opDone, opSettled, clearedMidPass>>
    BY <1>8 DEF BackoffEnds, queueHistory
  <2> HIDE DEF o, todo
  <2>2. /\ opDone' \in [Ops -> 0..2] /\ opSettled \subseteq opSettled' /\ opSettled' \subseteq Ops
        /\ ~SaveMayFail => \A x \in Ops : opStatus[x] = "completed" => x \in opSettled'
        /\ queueOnline' \in BOOLEAN /\ netUp' \in BOOLEAN /\ UNCHANGED <<handlerSet, clearedMidPass>>
    BY <1>3, <1>5, <2>1
  <2>3. \/ clearedMidPass
        \/ /\ \A x \in Passes \ {p} : ~Waiting(x)
           /\ \A x \in Range(todo) : opStatus[x] # "completed"
           /\ \A x \in Ops : opDone'[x] <= 1 /\ (opDone'[x] # 0 => opStatus[x] = "completed")
    BY <1>4, <2>1
  <2> QED BY <1>2, <1>3, <2>1, <2>2, <2>3, PassStep
<1>9. CASE HandlerFails(p)
  <2> DEFINE r == IF opRetry[o] < OpRetries THEN opRetry[o] + 1 ELSE OpRetries
             rt == [opRetry EXCEPT ![o] = r]
  <2>1. /\ \/ VisitNext(p, todo, [opStatus EXCEPT ![o] = "failed"], rt) /\ UNCHANGED queueOnline
           \/ EndPass(p, [opStatus EXCEPT ![o] = "pending"], rt) /\ queueOnline' = FALSE
           \/ /\ opStatus' = [opStatus EXCEPT ![o] = "pending"] /\ opRetry' = rt
              /\ passAt' = [passAt EXCEPT ![p] = "backoff"]
              /\ UNCHANGED <<opQueue, opStored, queueBusy, queueOnline, passTodo>>
        /\ UNCHANGED <<netUp, handlerSet, opDone, opSettled, clearedMidPass>>
    BY <1>9 DEF HandlerFails, queueHistory
  <2>2. rt \in [Ops -> 0..OpRetries]
    <3>1. r \in 0..OpRetries
      BY <1>2, <1>3, OfflineQueueAssumption
    <3> HIDE DEF r, o
    <3> QED BY <1>3, <3>1
  <2> HIDE DEF o, todo, rt
  <2>3. /\ opDone' \in [Ops -> 0..2] /\ opSettled \subseteq opSettled' /\ opSettled' \subseteq Ops
        /\ queueOnline' \in BOOLEAN /\ netUp' \in BOOLEAN /\ UNCHANGED <<handlerSet, clearedMidPass>>
    BY <1>3, <2>1
  <2>4. ASSUME NEW l \in {"failed", "pending"}
        PROVE  /\ [opStatus EXCEPT ![o] = l] \in [Ops -> OpStatuses]
               /\ [opStatus EXCEPT ![o] = l][o] = l
               /\ \A x \in Ops \ {o} : [opStatus EXCEPT ![o] = l][x] = opStatus[x]
    BY <1>2, <1>3 DEF OpStatuses
  <2>5. ASSUME NEW st, NEW l \in {"failed", "pending"}, st = [opStatus EXCEPT ![o] = l],
               VisitNext(p, todo, st, rt) \/ EndPass(p, st, rt)
        PROVE  QueueInv'
    <3>1. st \in [Ops -> OpStatuses] /\ st[o] = l /\ \A x \in Ops \ {o} : st[x] = opStatus[x]
      BY <2>4, <2>5
    <3>2. \/ clearedMidPass
          \/ /\ \A x \in Passes \ {p} : ~Waiting(x)
             /\ \A x \in Range(todo) : st[x] # "completed"
             /\ \A x \in Ops : opDone'[x] <= 1 /\ (opDone'[x] # 0 => st[x] = "completed")
      BY <1>2, <1>4, <1>6, <2>1, <3>1
    <3>3. \A x \in Ops : st[x] = "none" <=> opStatus[x] = "none"
      BY <1>3, <3>1
    <3>4. ~SaveMayFail => \A x \in Ops : st[x] = "completed" => x \in opSettled'
      BY <1>5, <2>3, <3>1
    <3> QED BY <1>2, <1>3, <2>2, <2>3, <2>5, <3>1, <3>2, <3>3, <3>4, PassStep
  <2>6. CASE /\ opStatus' = [opStatus EXCEPT ![o] = "pending"] /\ opRetry' = rt
             /\ passAt' = [passAt EXCEPT ![p] = "backoff"]
             /\ UNCHANGED <<opQueue, opStored, queueBusy, queueOnline, passTodo>>
    <3>1. /\ opStatus' \in [Ops -> OpStatuses] /\ opStatus'[o] = "pending"
          /\ \A x \in Ops \ {o} : opStatus'[x] = opStatus[x]
      BY <2>4, <2>6
    <3>2. Range(opQueue) \subseteq Ops /\ \A x \in Passes : Range(passTodo[x]) \subseteq Ops
      BY <1>0 DEF QueueTypes, PassTypes, Range
    <3>3. QueueTypes'
      BY <1>0, <2>1, <2>2, <2>6, <3>1, <3>2 DEF QueueTypes
    <3>4. passAt' \in [Passes -> {"idle", "handler", "backoff"}] /\ \A x \in Passes : passAt'[x] # "idle" <=> passAt[x] # "idle"
      BY <1>0, <1>1, <2>6 DEF PassTypes, Waiting
    <3>5. PassTypes'
      BY <1>0, <2>6, <3>1, <3>2, <3>4 DEF PassTypes, Waiting
    <3>6. ASSUME ~clearedMidPass PROVE OnePass'
      <4>1. OnePass /\ UNCHANGED <<opDone, queueBusy, passTodo>>
        BY <1>0, <2>1, <2>6, <3>6
      <4>2. \A x \in Passes : passAt'[x] # "idle" => \A y \in Range(passTodo'[x]) : opStatus'[y] # "completed"
        BY <3>1, <3>2, <3>4, <4>1 DEF OnePass, Waiting
      <4>3. \A x \in Ops : opDone'[x] <= 1 /\ (opDone'[x] # 0 => opStatus'[x] = "completed")
        BY <1>4, <3>1, <3>6, <4>1
      <4> QED BY <3>4, <4>1, <4>2, <4>3 DEF OnePass, Waiting
    <3>7. ~SaveMayFail => StoredKept'
      BY <1>0, <1>2, <1>3, <2>1, <2>6, <3>1 DEF StoredKept
    <3> QED BY <2>1, <3>3, <3>5, <3>6, <3>7 DEF QueueInv
  <2> QED BY <2>1, <2>5, <2>6
<1> QED BY <1>7, <1>8, <1>9

(* trimQueue drops only operations that have failed or completed.            *)
LEMMA Trimmed ==
  ASSUME NEW q \in Seq(Ops), IsInjective(q)
  PROVE  /\ trimQueue(q) \in Seq(Ops) /\ IsInjective(trimQueue(q)) /\ Range(trimQueue(q)) \subseteq Range(q)
         /\ \A o \in Range(q) : opStatus[o] \notin {"failed", "completed"} => o \in Range(trimQueue(q))
<1> DEFINE excess == Len(q) - QueueCap
           R == {o \in Ops : opStatus[o] \in {"failed", "completed"}}
           removable == filter(q, R)
           gone == {removable[i] : i \in {j \in 1..Len(removable) : j <= excess}}
<1>1. trimQueue(q) = IF Len(q) > QueueCap THEN filter(q, Ops \ gone) ELSE q
  BY DEF trimQueue
<1>2. removable \in Seq(Ops) /\ Range(removable) = Range(q) \cap R
  <2> HIDE DEF R
  <2> QED BY Filtered
<1>3. gone \subseteq R
  <2> HIDE DEF R, removable
  <2>1. \A i \in 1..Len(removable) : removable[i] \in Range(removable)
    BY <1>2 DEF Range
  <2> QED BY <1>2, <2>1
<1>4. Range(q) \subseteq Ops
  BY DEF Range
<1> HIDE DEF gone
<1>5. /\ filter(q, Ops \ gone) \in Seq(Ops) /\ IsInjective(filter(q, Ops \ gone))
      /\ Range(filter(q, Ops \ gone)) = Range(q) \cap (Ops \ gone)
  BY Filtered
<1> QED BY <1>1, <1>3, <1>4, <1>5

(* A change of the queue outside a pass: statuses leave "none" or "failed"   *)
(* only, and what leaves the queue is settled.                               *)
LEMMA QueueEdited ==
  ASSUME QueueInv, UNCHANGED <<netUp, handlerSet, passVars, opDone>>,
         opQueue' \in Seq(Ops), IsInjective(opQueue'),
         opStatus' \in [Ops -> OpStatuses], opRetry' \in [Ops -> 0..OpRetries],
         \A o \in Ops : \/ opStatus'[o] = opStatus[o]
                        \/ opStatus[o] \in {"none", "failed"} /\ opStatus'[o] = "pending",
         \A o \in Range(opQueue') : opStatus'[o] # "none",
         \A o \in Ops : opStatus'[o] # "none" /\ opStatus[o] = "none" => o \in Range(opQueue'),
         Range(opQueue) \subseteq Range(opQueue') \cup opSettled',
         opSettled \subseteq opSettled', opSettled' \subseteq Ops,
         queueOnline' \in BOOLEAN,
         saveQueue(opQueue', opStatus', opRetry'),
         \/ UNCHANGED <<queueBusy, clearedMidPass>>
         \/ queueBusy' = FALSE /\ clearedMidPass' = (clearedMidPass \/ \E p \in Passes : passAt[p] # "idle")
  PROVE  QueueInv'
<1>0. QueueTypes /\ PassTypes /\ (clearedMidPass \/ OnePass) /\ (~SaveMayFail => StoredKept)
  BY DEF QueueInv
<1>1. SavedFor(opQueue', opStatus')
  BY <1>0, QueueSaved
<1>2. UNCHANGED <<passTodo, passAt>>
  BY DEF passVars
<1>3. \A x \in Passes : Range(passTodo[x]) \subseteq Ops
  BY <1>0 DEF PassTypes, Range
<1>4. clearedMidPass' \in BOOLEAN /\ queueBusy' \in BOOLEAN /\ (clearedMidPass => clearedMidPass')
  BY <1>0 DEF QueueTypes
<1>5. QueueTypes'
  BY <1>0, <1>1, <1>4 DEF QueueTypes, SavedFor
<1>6. PassTypes'
  <2>1. \A x \in Passes : \A o \in Range(passTodo[x]) : opStatus'[o] # "none"
    BY <1>0, <1>3 DEF PassTypes
  <2> QED BY <1>0, <1>2, <2>1 DEF PassTypes, Waiting
<1>7. ASSUME ~clearedMidPass' PROVE OnePass'
  <2>1. OnePass /\ ~clearedMidPass
    BY <1>0, <1>4, <1>7
  <2>2. (\E p \in Passes : passAt[p] # "idle") => queueBusy'
    <3>1. CASE UNCHANGED <<queueBusy, clearedMidPass>>
      BY <2>1, <3>1 DEF OnePass, Waiting
    <3>2. CASE clearedMidPass' = (clearedMidPass \/ \E p \in Passes : passAt[p] # "idle")
      BY <1>7, <3>2, Zenon
    <3> QED BY <3>1, <3>2
  <2>3. \A x \in Passes : passAt[x] # "idle" => \A o \in Range(passTodo[x]) : opStatus'[o] # "completed"
    BY <1>3, <2>1 DEF OnePass, Waiting
  <2>4. \A o \in Ops : opDone[o] <= 1 /\ (opDone[o] # 0 => opStatus'[o] = "completed")
    BY <2>1 DEF OnePass
  <2> QED BY <1>2, <2>1, <2>2, <2>3, <2>4 DEF OnePass, Waiting
<1>8. ASSUME ~SaveMayFail PROVE StoredKept'
  <2>1. \A o \in Ops : opStatus'[o] = "completed" => o \in opSettled'
    BY <1>0, <1>8 DEF StoredKept
  <2>2. \A o \in Ops : opStatus'[o] # "none" /\ o \notin opSettled' => o \in Range(opQueue')
    BY <1>0, <1>8 DEF StoredKept
  <2>3. \A n \in 1..Len(opQueue') : opQueue'[n] \in Ops
    OBVIOUS
  <2> QED BY <1>1, <1>8, <2>1, <2>2, <2>3 DEF StoredKept, SavedFor
<1> QED BY <1>5, <1>6, <1>7, <1>8 DEF QueueInv

(* The changes of the queue by its callers keep the invariant, in the middle *)
(* of a pass too.                                                            *)
LEMMA QueueEdits ==
  ASSUME QueueInv,
         \/ \E o \in Ops : enqueue(o) \/ removeOperation(o)
         \/ retryFailed \/ clear
  PROVE  QueueInv'
<1>0. QueueTypes
  BY DEF QueueInv
<1>1. /\ opQueue \in Seq(Ops) /\ IsInjective(opQueue) /\ \A o \in Range(opQueue) : opStatus[o] # "none" /\ o \in Ops
      /\ opStatus \in [Ops -> OpStatuses] /\ opRetry \in [Ops -> 0..OpRetries] /\ opSettled \subseteq Ops
      /\ queueOnline \in BOOLEAN
  BY <1>0 DEF QueueTypes, Range
<1>2. ASSUME NEW o \in Ops, enqueue(o) PROVE QueueInv'
  <2> DEFINE q == Append(opQueue, o)
  <2>1. /\ opStatus[o] = "none" /\ opStatus' = [opStatus EXCEPT ![o] = "pending"]
        /\ opQueue' = trimQueue(q)
        /\ opSettled' = opSettled \cup (Range(opQueue) \ Range(opQueue'))
        /\ saveQueue(opQueue', opStatus', opRetry)
        /\ UNCHANGED <<opRetry, queueBusy, queueOnline, netUp, handlerSet, passVars, opDone, clearedMidPass>>
    BY <1>2 DEF enqueue
  <2>2. q \in Seq(Ops) /\ IsInjective(q) /\ Range(q) = Range(opQueue) \cup {o}
    <3>1. /\ q \in Seq(Ops) /\ Len(q) = Len(opQueue) + 1 /\ q[Len(opQueue) + 1] = o /\ Len(opQueue) \in Nat
          /\ DOMAIN q = 1..Len(q) /\ DOMAIN opQueue = 1..Len(opQueue)
          /\ \A n \in 1..Len(opQueue) : q[n] = opQueue[n]
      BY <1>1
    <3>2. \A n \in 1..Len(opQueue) : opQueue[n] \in Range(opQueue) /\ opQueue[n] # o
      BY <1>1, <2>1, <3>1 DEF Range
    <3> HIDE DEF q
    <3>3. \A n \in 1..Len(q) : n \in 1..Len(opQueue) \/ n = Len(opQueue) + 1
      BY <3>1
    <3>4. \A n \in 1..Len(opQueue) : n \in 1..Len(q)
      BY <3>1
    <3>5. Len(opQueue) + 1 \in 1..Len(q)
      BY <3>1
    <3>6. IsInjective(q)
      <4>1. ASSUME NEW m \in 1..Len(q), NEW n \in 1..Len(q), q[m] = q[n] PROVE m = n
        BY <1>1, <3>1, <3>2, <3>3, <4>1 DEF IsInjective
      <4> QED BY <3>1, <4>1 DEF IsInjective
    <3>7. Range(q) = Range(opQueue) \cup {o}
      BY <3>1, <3>3, <3>4, <3>5 DEF Range
    <3> QED BY <3>1, <3>6, <3>7
  <2> HIDE DEF q
  <2>3. /\ opQueue' \in Seq(Ops) /\ IsInjective(opQueue') /\ Range(opQueue') \subseteq Range(opQueue) \cup {o}
        /\ o \in Range(opQueue')
    <3>1. /\ trimQueue(q) \in Seq(Ops) /\ IsInjective(trimQueue(q)) /\ Range(trimQueue(q)) \subseteq Range(q)
          /\ \A x \in Range(q) : opStatus[x] \notin {"failed", "completed"} => x \in Range(trimQueue(q))
      BY <2>2, Trimmed
    <3> QED BY <2>1, <2>2, <3>1
  <2>4. /\ opStatus' \in [Ops -> OpStatuses] /\ opStatus'[o] = "pending"
        /\ \A x \in Ops \ {o} : opStatus'[x] = opStatus[x]
    BY <1>1, <2>1 DEF OpStatuses
  <2>5. \A x \in Ops : \/ opStatus'[x] = opStatus[x]
                       \/ opStatus[x] \in {"none", "failed"} /\ opStatus'[x] = "pending"
    BY <2>1, <2>4
  <2>6. \A x \in Range(opQueue') : opStatus'[x] # "none"
    BY <1>1, <2>3, <2>4
  <2>7. \A x \in Ops : opStatus'[x] # "none" /\ opStatus[x] = "none" => x \in Range(opQueue')
    BY <2>3, <2>4
  <2>8. opSettled' \subseteq Ops /\ opSettled \subseteq opSettled' /\ Range(opQueue) \subseteq Range(opQueue') \cup opSettled'
    BY <1>1, <2>1
  <2>9. opRetry' \in [Ops -> 0..OpRetries] /\ queueOnline' \in BOOLEAN /\ saveQueue(opQueue', opStatus', opRetry')
    BY <1>1, <2>1
  <2> QED BY <2>1, <2>3, <2>4, <2>5, <2>6, <2>7, <2>8, <2>9, QueueEdited
<1>3. ASSUME NEW o \in Ops, removeOperation(o) PROVE QueueInv'
  <2>1. /\ opQueue' = filter(opQueue, Ops \ {o}) /\ saveQueue(opQueue', opStatus, opRetry)
        /\ opSettled' = opSettled \cup {o}
        /\ UNCHANGED <<opStatus, opRetry, queueBusy, queueOnline, netUp, handlerSet, passVars, opDone, clearedMidPass>>
    BY <1>3 DEF removeOperation
  <2>2. opQueue' \in Seq(Ops) /\ IsInjective(opQueue') /\ Range(opQueue') = Range(opQueue) \cap (Ops \ {o})
    BY <1>1, <2>1, Filtered
  <2>3. saveQueue(opQueue', opStatus', opRetry')
    BY <2>1
  <2> QED BY <1>1, <2>1, <2>2, <2>3, QueueEdited
<1>4. CASE retryFailed
  <2> DEFINE back == {o \in Range(opQueue) : opStatus[o] = "failed"}
  <2>1. /\ opStatus' = [o \in Ops |-> IF o \in back THEN "pending" ELSE opStatus[o]]
        /\ opRetry' = [o \in Ops |-> IF o \in back THEN 0 ELSE opRetry[o]]
        /\ saveQueue(opQueue, opStatus', opRetry')
        /\ UNCHANGED <<opQueue, queueBusy, queueOnline, netUp, handlerSet, passVars, opDone, opSettled, clearedMidPass>>
    BY <1>4 DEF retryFailed, queueHistory
  <2>2. 0 \in 0..OpRetries
    BY OfflineQueueAssumption
  <2>3. opStatus' \in [Ops -> OpStatuses] /\ opRetry' \in [Ops -> 0..OpRetries]
    BY <1>1, <2>1, <2>2 DEF OpStatuses
  <2>4. \A x \in Ops : \/ opStatus'[x] = opStatus[x]
                       \/ opStatus[x] = "failed" /\ opStatus'[x] = "pending"
    BY <2>1
  <2>5. saveQueue(opQueue', opStatus', opRetry')
    BY <2>1
  <2> HIDE DEF back
  <2>6. /\ \A o \in Range(opQueue') : opStatus'[o] # "none"
        /\ \A o \in Ops : opStatus'[o] # "none" /\ opStatus[o] = "none" => o \in Range(opQueue')
    BY <1>1, <2>1, <2>4
  <2> QED BY <1>1, <2>1, <2>3, <2>4, <2>5, <2>6, QueueEdited
<1>5. CASE clear
  <2>1. /\ opQueue' = <<>> /\ queueBusy' = FALSE /\ queueOnline' = TRUE
        /\ saveQueue(<<>>, opStatus, opRetry) /\ opSettled' = opSettled \cup Range(opQueue)
        /\ clearedMidPass' = (clearedMidPass \/ \E p \in Passes : passAt[p] # "idle")
        /\ UNCHANGED <<opStatus, opRetry, netUp, handlerSet, passVars, opDone>>
    BY <1>5 DEF clear
  <2>2. <<>> \in Seq(Ops) /\ IsInjective(<<>>) /\ Range(<<>>) = {}
    BY DEF IsInjective, Range
  <2>3. saveQueue(opQueue', opStatus', opRetry')
    BY <2>1
  <2> QED BY <1>1, <2>1, <2>2, <2>3, QueueEdited
<1> QED BY <1>2, <1>3, <1>4, <1>5

(* The page starts again from localStorage.                                  *)
LEMMA QueueReloads ==
  ASSUME QueueInv, loadQueue
  PROVE  QueueInv'
<1>0. QueueTypes /\ PassTypes /\ (~SaveMayFail => StoredKept)
  BY DEF QueueInv
<1> DEFINE Row(o) == CHOOSE r \in Range(opStored) : r.op = o
           kept == {r.op : r \in Range(opStored)}
<1>1. /\ opQueue' = [i \in 1..Len(opStored) |-> opStored[i].op]
      /\ opStatus' = [o \in Ops |-> IF o \notin kept
                                    THEN IF opStatus[o] = "none" THEN "none" ELSE "completed"
                                    ELSE IF Row(o).status = "processing" THEN "pending"
                                         ELSE Row(o).status]
      /\ opRetry' = [o \in Ops |-> IF o \in kept THEN Row(o).retry ELSE 0]
      /\ queueBusy' = FALSE /\ queueOnline' = netUp /\ handlerSet' = FALSE
      /\ passTodo' = [p \in Passes |-> <<>>] /\ passAt' = [p \in Passes |-> "idle"]
      /\ opDone' = [o \in Ops |-> 0] /\ clearedMidPass' = FALSE
      /\ UNCHANGED <<opStored, netUp, opSettled>>
  BY DEF loadQueue
<1>2. /\ opStored \in Seq(StoredOps) /\ Len(opStored) \in Nat /\ DOMAIN opStored = 1..Len(opStored)
      /\ opStatus \in [Ops -> OpStatuses]
  BY <1>0 DEF QueueTypes
<1>3. \A n \in 1..Len(opStored) : opStored[n] \in StoredOps /\ opStored[n] \in Range(opStored)
  BY <1>2 DEF Range
<1>4. \A r \in Range(opStored) : /\ r.op \in Ops /\ r.status \in OpStatuses \ {"none"} /\ r.retry \in 0..OpRetries
                                 /\ \E n \in 1..Len(opStored) : r = opStored[n]
  BY <1>2, <1>3 DEF Range, StoredOps
<1>5. \A o \in kept : Row(o) \in Range(opStored) /\ Row(o).op = o
  OBVIOUS
<1>6. /\ opQueue' \in Seq(Ops) /\ Len(opQueue') = Len(opStored)
      /\ \A n \in 1..Len(opStored) : opQueue'[n] = opStored[n].op
  <2>1. \A n \in 1..Len(opStored) : opStored[n].op \in Ops
    BY <1>3, <1>4
  <2> QED BY <1>1, <1>2, <2>1
<1>7. Range(opQueue') = kept /\ IsInjective(opQueue')
  <2>1. DOMAIN opQueue' = 1..Len(opStored)
    BY <1>6
  <2>2. Range(opQueue') = kept
    BY <1>3, <1>4, <1>6, <2>1 DEF Range
  <2>3. \A m, n \in 1..Len(opStored) : opStored[m].op = opStored[n].op => m = n
    BY <1>0 DEF QueueTypes
  <2> QED BY <1>6, <2>1, <2>2, <2>3 DEF IsInjective
<1>8. \A o \in kept : o \in Ops /\ Row(o).status \in OpStatuses \ {"none"} /\ Row(o).retry \in 0..OpRetries
  BY <1>4, <1>5
<1> HIDE DEF Row, kept
<1>9. /\ opStatus' \in [Ops -> OpStatuses]
      /\ \A o \in kept : opStatus'[o] # "none" /\ (opStatus'[o] = "completed" => Row(o).status = "completed")
      /\ \A o \in Ops \ kept : opStatus'[o] # "none" => opStatus[o] # "none"
  BY <1>1, <1>2, <1>8 DEF OpStatuses
<1>10. opRetry' \in [Ops -> 0..OpRetries]
  <2>1. 0 \in 0..OpRetries
    BY OfflineQueueAssumption
  <2> QED BY <1>1, <1>8, <2>1
<1>11. opDone' \in [Ops -> 0..2] /\ \A o \in Ops : opDone'[o] = 0
  BY <1>1
<1>12. QueueTypes'
  BY <1>0, <1>1, <1>6, <1>7, <1>9, <1>10, <1>11 DEF QueueTypes
<1>13. IsInjective(<<>>) /\ Range(<<>>) = {} /\ <<>> \in Seq(Ops)
  BY DEF IsInjective, Range
<1>14. PassTypes' /\ OnePass'
  BY <1>1, <1>11, <1>13 DEF PassTypes, OnePass, Waiting
<1>15. ASSUME ~SaveMayFail PROVE StoredKept'
  <2>1. StoredKept
    BY <1>0, <1>15
  <2>2. \A o \in Ops : o \notin kept /\ opStatus[o] # "none" => o \in opSettled
    <3>1. ASSUME NEW o \in Range(opQueue) PROVE o \in kept
      <4>1. PICK n \in 1..Len(opQueue) : o = opQueue[n]
        BY <1>0 DEF QueueTypes, Range
      <4> QED BY <1>3, <2>1, <4>1 DEF StoredKept, kept
    <3> QED BY <2>1, <3>1 DEF StoredKept
  <2>3. \A o \in kept : Row(o).status = "completed" => o \in opSettled
    BY <1>4, <1>5, <2>1 DEF StoredKept, Row, kept
  <2>4. \A o \in Ops : opStatus'[o] = "completed" => o \in opSettled
    BY <1>9, <2>2, <2>3
  <2>5. \A o \in Ops : opStatus'[o] # "none" /\ o \notin opSettled => o \in Range(opQueue')
    BY <1>7, <1>9, <2>2
  <2> QED BY <1>1, <1>6, <2>1, <2>4, <2>5 DEF StoredKept
<1> QED BY <1>12, <1>14, <1>15 DEF QueueInv

(* Passes, callers, reloads and network events keep the invariant.           *)
LEMMA QueueInvStep ==
  ASSUME QueueInv, [QueueNext]_QueueVars
  PROVE  QueueInv'
<1>0. QueueTypes /\ PassTypes /\ (clearedMidPass \/ OnePass) /\ (~SaveMayFail => StoredKept)
  BY DEF QueueInv
<1>1. ASSUME UNCHANGED <<opQueue, opStatus, opRetry, opStored, queueBusy, passVars, queueHistory>>,
             queueOnline' \in BOOLEAN, netUp' \in BOOLEAN, handlerSet' \in BOOLEAN
      PROVE  QueueInv'
  <2>1. UNCHANGED <<passTodo, passAt, opDone, opSettled, clearedMidPass>>
    BY <1>1 DEF passVars, queueHistory
  <2>2. QueueTypes' /\ PassTypes'
    BY <1>0, <1>1, <2>1 DEF QueueTypes, PassTypes, Waiting
  <2>3. (clearedMidPass \/ OnePass)' /\ (~SaveMayFail => StoredKept')
    BY <1>0, <1>1, <2>1 DEF OnePass, StoredKept, Waiting
  <2> QED BY <2>2, <2>3 DEF QueueInv
<1>2. ASSUME NEW p \in Passes, ProcessNow(p) PROVE QueueInv'
  <2>1. processQueue(p) /\ UNCHANGED <<handlerSet, queueHistory>> /\ queueOnline' \in BOOLEAN /\ netUp' \in BOOLEAN
    BY <1>0, <1>2 DEF ProcessNow, QueueTypes
  <2> QED BY <2>1, PassBegins
<1>3. CASE handleOnline
  <2>1. queueOnline' \in BOOLEAN /\ netUp' \in BOOLEAN /\ UNCHANGED <<handlerSet, queueHistory>>
    BY <1>3 DEF handleOnline
  <2>2. ASSUME NEW p \in Passes, processQueue(p) PROVE QueueInv'
    BY <2>1, <2>2, PassBegins
  <2>3. CASE UNCHANGED <<opQueue, opStatus, opRetry, opStored, queueBusy, passVars>>
    BY <1>0, <1>1, <2>1, <2>3 DEF QueueTypes
  <2> QED BY <1>3, <2>2, <2>3 DEF handleOnline
<1>4. CASE registerHandler \/ handleOffline
  BY <1>0, <1>1, <1>4 DEF registerHandler, handleOffline, QueueTypes
<1>5. CASE UNCHANGED QueueVars
  BY <1>0, <1>1, <1>5 DEF QueueVars, QueueTypes
<1> QED BY <1>2, <1>3, <1>4, <1>5, PassContinues, QueueEdits, QueueReloads DEF QueueNext

(* The invariant of the queue holds throughout every behaviour.              *)
LEMMA QueueInvariant == QueueSpec => []QueueInv
<1>1. QueueInv /\ [QueueNext]_QueueVars => QueueInv'
  BY QueueInvStep
<1> QED BY <1>1, QueueInvInit, PTL DEF QueueSpec

(* However activations of processQueue overlap with failures, retries, edits *)
(* and network events, no operation runs to success twice in the life of a   *)
(* page, provided clear() did not hit a waiting pass.                        *)
THEOREM QueueRunsOnce == QueueSpec => []NoRerun
<1>1. QueueInv => NoRerun
  BY DEF QueueInv, OnePass, NoRerun
<1> QED BY <1>1, QueueInvariant, PTL

(* An operation that was enqueued, has not succeeded and was not given up is *)
(* in localStorage, for a reload at any moment, as long as the browser's     *)
(* writes to it succeed.                                                     *)
THEOREM QueueLosesNothing ==
  ASSUME ~SaveMayFail
  PROVE  QueueSpec => []NothingLost
<1>1. QueueInv => NothingLost
  <2> SUFFICES ASSUME QueueInv, NEW o \in Ops, opStatus[o] # "none", o \notin opSettled
               PROVE  \E r \in Range(opStored) : r.op = o /\ r.status # "completed"
    BY DEF NothingLost
  <2>1. StoredKept /\ opQueue \in Seq(Ops) /\ opStored \in Seq(StoredOps)
    BY DEF QueueInv, QueueTypes
  <2>2. PICK n \in 1..Len(opQueue) : opQueue[n] = o
    BY <2>1 DEF StoredKept, Range
  <2>3. n \in 1..Len(opStored) /\ opStored[n] \in Range(opStored)
    BY <2>1, <2>2 DEF StoredKept, Range
  <2> QED BY <2>1, <2>2, <2>3 DEF StoredKept
<1> QED BY <1>1, QueueInvariant, PTL

-----------------------------------------------------------------------------
(* Each of the three components keeps its types, whatever the others' state: *)
(* the rows in localStorage are rows of enqueued operations, retries stay    *)
(* within their bound, and only a process that has ended has an exit event.  *)
THEOREM BackgroundTypes == Spec => []TypeOK
<1> DEFINE AllInv == QueueInv /\ SocketInv /\ ShellInv
<1>1. Init => AllInv
  BY QueueInvInit, SocketInvInit, ShellInvInit DEF Init
<1>2. AllInv /\ [Next]_<<QueueVars, SocketVars, ShellVars, part>> => AllInv'
  <2> SUFFICES ASSUME AllInv, [Next]_<<QueueVars, SocketVars, ShellVars, part>> PROVE AllInv'
    OBVIOUS
  <2>1. [QueueNext]_QueueVars /\ [SocketNext]_SocketVars /\ [ShellNext]_ShellVars
    BY DEF Next
  <2>2. QueueInv'
    BY <2>1, QueueInvStep
  <2>3. SocketInv'
    <3>1. ChannelTypes' /\ FlushTypes' /\ NeverStranded'
      BY <2>1, FlushStep, ChannelStep
    <3> QED BY <3>1, SocketInvParts, PTL
  <2>4. ShellInv'
    BY <2>1, ShellInvStep
  <2> QED BY <2>2, <2>3, <2>4
<1>3. AllInv => TypeOK
  <2>1. QueueInv => QueueTypeOK
    BY DEF QueueInv, QueueTypes, PassTypes, QueueTypeOK
  <2> QED BY <2>1 DEF TypeOK, SocketInv, ShellInv
<1> QED BY <1>1, <1>2, <1>3, PTL DEF Spec
===============================================================================
