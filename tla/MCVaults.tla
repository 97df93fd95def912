------------------------------- MODULE MCVaults -------------------------------
(***************************************************************************)
(* Instances of the client's components that keep the user's vaults: the     *)
(* container on the drive, the list of vaults, the list of the files of the  *)
(* vault that is open, and the setup of a drive.  They are checked side by   *)
(* side: in each behaviour one of them takes the steps, the one "part"       *)
(* names, and the others stay in one initial state.  The list of vaults      *)
(* stops at the first of the lost updates that VaultsKept excepts.           *)
(***************************************************************************)
EXTENDS VaultContainer, VaultList, FileList, UsbSetup

VARIABLE part

Init ==
    /\ ContainerInit /\ ListInit /\ FileListInit /\ UsbInit
    /\ part \in {"container", "vaults", "files", "usb"}
    /\ part # "vaults" => stored = {}
    /\ part # "files" => diskIndex = {}
    /\ part # "usb" => platform = "darwin" /\ \A d \in Drives : secure[d] = NoSecure

Next ==
    \/ /\ part = "container" /\ ContainerNext
       /\ UNCHANGED <<part, ListVars, FileListVars, UsbVars>>
    \/ /\ part = "vaults" /\ ~raced /\ ListNext
       /\ UNCHANGED <<part, ContainerVars, FileListVars, UsbVars>>
    \/ /\ part = "files" /\ FileListNext
       /\ UNCHANGED <<part, ContainerVars, ListVars, UsbVars>>
    \/ /\ part = "usb" /\ UsbNext
       /\ UNCHANGED <<part, ContainerVars, ListVars, FileListVars>>

Spec == Init /\ [][Next]_<<ContainerVars, ListVars, FileListVars, UsbVars, part>>

(* The type invariant of the component that takes the steps.                 *)
TypeOK ==
    /\ part = "container" => ContainerTypeOK
    /\ part = "vaults" => ListTypeOK
    /\ part = "files" => FileListTypeOK
    /\ part = "usb" => UsbTypeOK
================================================================================
