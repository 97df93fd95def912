--------------------------- MODULE MCClientSessions ---------------------------
(***************************************************************************)
(* Instances of the client's sessions and of what guards them: the session   *)
(* of the native application, the sign-in of the web application, emergency  *)
(* access, and the protection of the application in the background.  They    *)
(* are checked side by side: in each behaviour one of them takes the steps,  *)
(* the one "part" names, and the others stay in their initial state.  A part *)
(* stops when the exception its properties name has occurred: the list of    *)
(* devices was written back old or not stored, or an emergency contact was   *)
(* put back after its revocation.                                            *)
(***************************************************************************)
EXTENDS NativeSession, WebAuth, EmergencyAccess, AppProtection

VARIABLE part

Init ==
    /\ NativeInit /\ WebInit /\ EmergencyInit /\ ProtectionInit
    /\ part \in {"native", "web", "emergency", "protection"}
    /\ part # "web" => webAuthn = {}

Next ==
    \/ /\ part = "native" /\ NativeNext
       /\ UNCHANGED <<part, WebVars, EmergencyVars, ProtectionVars>>
    \/ /\ part = "web" /\ ~staleWrite /\ ~unsaved /\ WebNext
       /\ UNCHANGED <<part, NativeVars, EmergencyVars, ProtectionVars>>
    \/ /\ part = "emergency" /\ undone = {} /\ EmergencyNext
       /\ UNCHANGED <<part, NativeVars, WebVars, ProtectionVars>>
    \/ /\ part = "protection" /\ ProtectionNext
       /\ UNCHANGED <<part, NativeVars, WebVars, EmergencyVars>>

(* In the other parts no request is sent, and the fairness of the native     *)
(* application demands nothing.                                              *)
Spec ==
    /\ Init /\ [][Next]_<<NativeVars, WebVars, EmergencyVars, ProtectionVars, part>>
    /\ NativeFairness

(* The type invariant of the component that takes the steps.                 *)
TypeOK ==
    /\ part = "native" => NativeTypeOK
    /\ part = "web" => WebTypeOK
    /\ part = "emergency" => EmergencyTypeOK
    /\ part = "protection" => ProtectionTypeOK
================================================================================
