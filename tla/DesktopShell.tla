---------------------------- MODULE DesktopShell ----------------------------
(***************************************************************************)
(* The desktop shell's supervision of the companion process:                 *)
(* electron-shell/src/companion-manager.ts, with the calls main.ts makes to  *)
(* it.                                                                       *)
(*                                                                          *)
(* start and handleCrash run spawnCompanion, which waits for a free port and *)
(* then for the health check; killProcess waits for the exit of a process or *)
(* for five seconds.  These waits overlap with each other and with the exit  *)
(* events of the processes, and a call that waits reads the fields of the    *)
(* manager again when it goes on.                                            *)
(*                                                                          *)
(* Left out: the port file, logging, the tray and the window, which only     *)
(* follow the status, and an installation without the companion's files or   *)
(* in which fork itself fails.                                               *)
(***************************************************************************)
EXTENDS Naturals, FiniteSets

CONSTANTS
    Procs,        \* companion processes
    NoProc,       \* null
    NumPorts,     \* ports PORT_RANGE_START to PORT_RANGE_END
    MaxRestarts,  \* MAX_RESTARTS
    Waits,        \* calls of the manager that may overlap
    MaxStops      \* bound on the calls of stop

ASSUME ShellAssumption ==
    NoProc \notin Procs /\ NumPorts \in Nat \ {0} /\ MaxRestarts \in Nat \ {0} /\ MaxStops \in Nat

Ports == 1..NumPorts

VARIABLES
    shStatus,    \* status
    stopping,    \* stopping
    restartCount, \* restartCount
    child,       \* process
    childPort,   \* port; 0 for null
    proc,        \* the processes: their state and the port they were given
    signalled,   \* processes that have got SIGTERM
    exits,       \* processes whose exit event has not been delivered
    wait,        \* the calls in progress
    startCall,   \* main.ts: "no", "waits" for start, or "done": its handlers are there
    stops,       \* calls of stop made
    deaths       \* history: processes that ended since the count was last reset

ProcVars == <<proc, signalled, exits, deaths>>
MainVars == <<startCall, stops>>
ShellVars == <<shStatus, stopping, restartCount, child, childPort, ProcVars, wait, MainVars>>

(* "victim" is the process whose exit the call waits for, "main" that        *)
(* main.ts waits for the call.                                               *)
NoWait == [at |-> "none", victim |-> NoProc, main |-> FALSE]
Live(p) == proc[p].is \in {"booting", "up"}
Taken == {proc[p].port : p \in {q \in Procs : proc[q].is = "up"}}
FreeProcs ==
    {p \in Procs : ~Live(p) /\ p \notin exits /\ child # p /\ \A w \in Waits : wait[w].victim # p}
FreeWaits == {w \in Waits : wait[w] = NoWait}
Serving == childPort \in Taken

(* The type invariant.                                                       *)
ShellTypeOK ==
    /\ shStatus \in {"stopped", "starting", "running", "crashed", "failed"}
    /\ stopping \in BOOLEAN
    /\ restartCount \in 0..MaxRestarts /\ deaths \in 0..MaxRestarts
    /\ stops \in 0..MaxStops /\ startCall \in {"no", "waits", "done"}
    /\ child \in Procs \cup {NoProc} /\ childPort \in Ports \cup {0}
    /\ proc \in [Procs -> [is : {"none", "booting", "up", "dead"}, port : Ports \cup {0}]]
    /\ signalled \subseteq Procs /\ exits \subseteq {p \in Procs : ~Live(p)}
    /\ wait \in [Waits -> [at : {"none", "port", "health", "healthy", "kill", "delay", "stop", "restart"},
                           victim : Procs \cup {NoProc}, main : BOOLEAN]]

ShellInit ==
    /\ shStatus = "stopped" /\ stopping = FALSE /\ restartCount = 0
    /\ child = NoProc /\ childPort = 0
    /\ proc = [p \in Procs |-> [is |-> "none", port |-> 0]]
    /\ signalled = {} /\ exits = {} /\ startCall = "no" /\ stops = 0 /\ deaths = 0
    /\ wait = [w \in Waits |-> NoWait]

-----------------------------------------------------------------------------
WaitGoes(w, at) == wait' = [wait EXCEPT ![w].at = at]

(* The call ends; main.ts goes on when it waited for it.                     *)
Returned(w) == startCall' = IF wait[w].main THEN "done" ELSE startCall
WaitEnds(w) == wait' = [wait EXCEPT ![w] = NoWait] /\ Returned(w)

(* The end of processes; each has an exit event.                             *)
Die(S) ==
    LET dying == {p \in S : Live(p)} IN
    /\ proc' = [p \in Procs |-> IF p \in dying THEN [proc[p] EXCEPT !.is = "dead"] ELSE proc[p]]
    /\ exits' = exits \cup dying
    /\ signalled' = signalled \ dying
    /\ deaths' = IF dying # {} /\ deaths < MaxRestarts THEN deaths + 1 ELSE deaths

(* start, when the application is ready: spawnCompanion sets the status and  *)
(* asks for a port.                                                          *)
startCompanion(w) ==
    /\ startCall = "no" /\ w \in FreeWaits
    /\ shStatus' = "starting" /\ startCall' = "waits"
    /\ wait' = [wait EXCEPT ![w].at = "port", ![w].main = TRUE]
    /\ UNCHANGED <<stopping, restartCount, child, childPort, ProcVars, stops>>

(* findAvailablePort returned: the process is forked at once.                *)
spawnCompanion(w) ==
    /\ wait[w].at = "port"
    /\ \E port \in Ports \ Taken, p \in FreeProcs :
          /\ childPort' = port /\ child' = p
          /\ proc' = [proc EXCEPT ![p] = [is |-> "booting", port |-> port]]
    /\ WaitGoes(w, "health")
    /\ UNCHANGED <<shStatus, stopping, restartCount, signalled, exits, deaths, MainVars>>

(* No port is free.                                                          *)
NoPortFree(w) ==
    /\ wait[w].at = "port" /\ Taken = Ports
    /\ shStatus' = "failed"
    /\ WaitEnds(w)
    /\ UNCHANGED <<stopping, restartCount, child, childPort, ProcVars, stops>>

(* The health check goes to the port the manager has now.                    *)
healthCheck(w) ==
    /\ wait[w].at = "health" /\ ~stopping /\ Serving
    /\ WaitGoes(w, "healthy")
    /\ UNCHANGED <<shStatus, stopping, restartCount, child, childPort, ProcVars, MainVars>>

Healthy(w) ==
    /\ wait[w].at = "healthy"
    /\ shStatus' = "running" /\ restartCount' = 0 /\ deaths' = 0
    /\ WaitEnds(w)
    /\ UNCHANGED <<stopping, child, childPort, proc, signalled, exits, stops>>

(* killProcess: SIGTERM to the process the manager has now, and the wait.    *)
killProcess(w, at) ==
    /\ child' = NoProc
    /\ wait' = [wait EXCEPT ![w].at = at, ![w].victim = child]
    /\ signalled' = IF child # NoProc /\ Live(child) THEN signalled \cup {child} ELSE signalled

(* waitForHealth gives up: the process has exited or does not answer.        *)
Unhealthy(w) ==
    /\ wait[w].at = "health" /\ ~stopping /\ ~Serving
    /\ killProcess(w, "kill")
    /\ UNCHANGED <<shStatus, stopping, restartCount, childPort, proc, exits, deaths, MainVars>>

HealthStopped(w) ==
    /\ wait[w].at = "health" /\ stopping
    /\ WaitEnds(w)
    /\ UNCHANGED <<shStatus, stopping, restartCount, child, childPort, ProcVars, stops>>

-----------------------------------------------------------------------------
(* handleCrash up to its delay, in the call w of the calls ws.  Its callers  *)
(* do not wait for it.                                                       *)
handleCrash(w, ws) ==
    LET n == IF restartCount < MaxRestarts THEN restartCount + 1 ELSE MaxRestarts IN
    \/ /\ stopping
       /\ wait' = [ws EXCEPT ![w] = NoWait]
       /\ UNCHANGED <<restartCount, shStatus>>
    \/ /\ ~stopping
       /\ restartCount' = n
       /\ shStatus' = IF n >= MaxRestarts THEN "failed" ELSE "crashed"
       /\ wait' = [ws EXCEPT ![w] = IF n >= MaxRestarts THEN NoWait
                                    ELSE [NoWait EXCEPT !.at = "delay"]]

(* Slip: no restart when the manager still has a process.                    *)
DelayEndsOnce(w) ==
    /\ wait[w].at = "delay"
    /\ IF stopping \/ child # NoProc THEN WaitGoes(w, "none") /\ UNCHANGED shStatus
       ELSE WaitGoes(w, "port") /\ shStatus' = "starting"
    /\ UNCHANGED <<stopping, restartCount, child, childPort, ProcVars, MainVars>>

DelayEnds(w) ==
    /\ wait[w].at = "delay"
    /\ IF stopping THEN WaitGoes(w, "none") /\ UNCHANGED shStatus
       ELSE WaitGoes(w, "port") /\ shStatus' = "starting"
    /\ UNCHANGED <<stopping, restartCount, child, childPort, ProcVars, MainVars>>

(* The exit event: the crash handler first, then the waits for this exit.    *)
ExitEvent(p) ==
    LET woken == [w \in Waits |-> IF wait[w].victim = p THEN [wait[w] EXCEPT !.victim = NoProc]
                                  ELSE wait[w]]
    IN
    /\ p \in exits
    /\ exits' = exits \ {p}
    /\ \/ stopping /\ wait' = woken /\ UNCHANGED <<restartCount, shStatus>>
       \/ ~stopping /\ \E w \in FreeWaits : handleCrash(w, woken)
    /\ UNCHANGED <<stopping, child, childPort, proc, signalled, deaths, MainVars>>

(* Five seconds have passed: SIGKILL.                                        *)
ForceKill(w) ==
    /\ wait[w].victim # NoProc
    /\ Die({wait[w].victim})
    /\ wait' = [wait EXCEPT ![w].victim = NoProc]
    /\ UNCHANGED <<shStatus, stopping, restartCount, child, childPort, MainVars>>

(* spawnCompanion goes on after the kill, and returns.                       *)
KilledUnhealthy(w) ==
    /\ wait[w].at = "kill" /\ wait[w].victim = NoProc
    /\ handleCrash(w, wait)
    /\ Returned(w)
    /\ UNCHANGED <<stopping, child, childPort, ProcVars, stops>>

(* stop, when the application quits or, followed by start, when the page     *)
(* asks for a restart.                                                       *)
stop(w, at) ==
    /\ w \in FreeWaits
    /\ startCall = "done" \/ (startCall = "waits" /\ at = "stop")
    /\ stops < MaxStops /\ stops' = stops + 1
    /\ stopping' = TRUE
    /\ killProcess(w, at)
    /\ UNCHANGED <<shStatus, restartCount, childPort, proc, exits, deaths, startCall>>

Stopped(w) ==
    /\ wait[w].at = "stop" /\ wait[w].victim = NoProc
    /\ shStatus' = "stopped"
    /\ WaitEnds(w)
    /\ UNCHANGED <<stopping, restartCount, child, childPort, ProcVars, stops>>

Restarted(w) ==
    /\ wait[w].at = "restart" /\ wait[w].victim = NoProc
    /\ stopping' = FALSE /\ restartCount' = 0 /\ deaths' = 0
    /\ shStatus' = "starting"
    /\ WaitGoes(w, "port")
    /\ UNCHANGED <<child, childPort, proc, signalled, exits, MainVars>>

-----------------------------------------------------------------------------
(* The companion listens on its port, or ends when it is in use.             *)
Boot(p) ==
    /\ proc[p].is = "booting"
    /\ \/ /\ proc[p].port \notin Taken
          /\ proc' = [proc EXCEPT ![p].is = "up"]
          /\ UNCHANGED <<exits, signalled, deaths>>
       \/ proc[p].port \in Taken /\ Die({p})
    /\ UNCHANGED <<shStatus, stopping, restartCount, child, childPort, wait, MainVars>>

(* The companion shuts down on SIGTERM.                                      *)
Shutdown(p) ==
    /\ p \in signalled
    /\ Die({p})
    /\ UNCHANGED <<shStatus, stopping, restartCount, child, childPort, wait, MainVars>>

Crash(p) ==
    /\ Live(p)
    /\ Die({p})
    /\ UNCHANGED <<shStatus, stopping, restartCount, child, childPort, wait, MainVars>>

WaitStep(w) ==
    \/ spawnCompanion(w) \/ NoPortFree(w) \/ healthCheck(w) \/ Healthy(w) \/ Unhealthy(w)
    \/ HealthStopped(w) \/ DelayEnds(w) \/ ForceKill(w) \/ KilledUnhealthy(w)
    \/ Stopped(w) \/ Restarted(w)

ShellNext ==
    \/ \E w \in Waits :
          startCompanion(w) \/ WaitStep(w) \/ stop(w, "stop") \/ stop(w, "restart")
    \/ \E p \in Procs : ExitEvent(p) \/ Boot(p) \/ Shutdown(p) \/ Crash(p)

ShellSpec == ShellInit /\ [][ShellNext]_ShellVars

-----------------------------------------------------------------------------
(* The manager never stays between states: while it reports "starting" or    *)
(* "crashed", a call is under way that will go on to report the companion    *)
(* running, given up or stopped, however crashes, restarts and the waits for *)
(* ports, health and exits overlap.                                          *)
NeverStuck ==
    shStatus \in {"starting", "crashed"} => \E w \in Waits : wait[w] # NoWait

(* When nothing is under way and the manager reports "running", its process  *)
(* serves its port.                                                          *)
RunningServes ==
    shStatus = "running" /\ ~stopping /\ exits = {} /\ (\A w \in Waits : wait[w] = NoWait)
    => child # NoProc /\ Live(child) /\ Serving

(* "If it crashes, the manager restarts it automatically (up to              *)
(* MAX_RESTARTS)", and it reports "Crashed 5 times" when it gives up: a      *)
(* crash counts once.                                                        *)
CrashCountsOnce == restartCount <= deaths

(* There is one companion.                                                   *)
OneCompanion == Cardinality({p \in Procs : Live(p)}) <= 1

(* After stop nothing is left running.                                       *)
StopLeavesNone ==
    shStatus = "stopped" /\ (\A w \in Waits : wait[w] = NoWait) => \A p \in Procs : ~Live(p)
=============================================================================
