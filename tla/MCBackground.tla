----------------------------- MODULE MCBackground -----------------------------
(***************************************************************************)
(* Instances of what the client runs in the background: the queue of         *)
(* operations made offline, the sync socket, and the companion process of    *)
(* the desktop shell.  They are checked side by side: in each behaviour one  *)
(* of them takes the steps, the one "part" names, and the others stay in one *)
(* initial state.                                                            *)
(***************************************************************************)
EXTENDS OfflineQueue, SyncSocket, DesktopShell, TLC

VARIABLE part

Init ==
    /\ QueueInit /\ SocketInit /\ ShellInit
    /\ part \in {"queue", "socket", "shell"}
    /\ part # "queue" => netUp

Next ==
    \/ part = "queue" /\ QueueNext /\ UNCHANGED <<part, SocketVars, ShellVars>>
    \/ part = "socket" /\ SocketNext /\ UNCHANGED <<part, QueueVars, ShellVars>>
    \/ part = "shell" /\ ShellNext /\ UNCHANGED <<part, QueueVars, SocketVars>>

Spec == Init /\ [][Next]_<<QueueVars, SocketVars, ShellVars, part>>

(* The type invariant of the component that takes the steps.                 *)
TypeOK ==
    /\ part = "queue" => QueueTypeOK
    /\ part = "socket" => SocketTypeOK
    /\ part = "shell" => ShellTypeOK

(* Processes and queued operations are interchangeable.  The instance gives  *)
(* the two components the same values for them, so that a permutation acts   *)
(* on both at once.                                                          *)
Symmetry == Permutations(Procs \cup Ops)
================================================================================
