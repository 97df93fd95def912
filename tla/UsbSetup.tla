------------------------------- MODULE UsbSetup -------------------------------
(***************************************************************************)
(* Setting up, mounting, ejecting and wiping USB drives: the services        *)
(* usbProvisioner, usbMounter, usbEjector and usbResetter of usb-companion,  *)
(* and the setup screen of usbvault-app, which writes the real header into   *)
(* the container that the companion prepared.                                *)
(*                                                                          *)
(* The companion works on a drive by its id until it has found the mount     *)
(* point of the new SECURE volume.  Everything after that, in the companion  *)
(* and in the application, goes by the path; the same path can belong to     *)
(* another drive whose volume has the same label.                            *)
(*                                                                          *)
(* The screen and the companion's provisioning end together, as they do over *)
(* the IPC of the desktop application, which has no time-out.  The way       *)
(* through HTTP without the desktop application is left out: there the       *)
(* screen gives up after 10 seconds while the companion goes on.             *)
(***************************************************************************)
EXTENDS Naturals, FiniteSets

CONSTANTS
    Drives,     \* USB drives
    Paths,      \* /Volumes/SECURE, /Volumes/SECURE 1, ...: mount points of SECURE volumes
    NoPath,     \* not mounted
    Setups,     \* setup screens (windows of the application)
    Before,     \* maker of the vaults that were there before
    Disturbed   \* TRUE: a drive may be pulled out, wiped, unmounted or set up
                \* again by another screen while a setup works on it

ASSUME UsbSetupAssumption ==
    /\ Drives # {}
    /\ NoPath \notin Paths /\ Before \notin Setups /\ Disturbed \in BOOLEAN

VARIABLES
    platform, \* config.platform
    plugged,  \* drives that detectUsbDrives finds
    secure,   \* per drive, its SECURE volume: what VAULT.bin is and who made it
    mountOf,  \* per drive, where its SECURE volume is mounted
    setup     \* per screen: the next step, the drive, the mount point

UsbVars == <<platform, plugged, secure, mountOf, setup>>

DriveContents == {"none", "empty", "placeholder", "keyed", "indexed", "vault"}
NoSecure == [is |-> "none", by |-> Before]
IdleSetup(d) == [at |-> "idle", drive |-> d, path |-> NoPath]

(* The type invariant; two volumes are never mounted at one path.            *)
UsbTypeOK ==
    /\ platform \in {"darwin", "linux", "win32"}
    /\ plugged \subseteq Drives
    /\ secure \in [Drives -> [is : DriveContents, by : Setups \cup {Before}]]
    /\ mountOf \in [Drives -> Paths \cup {NoPath}]
    /\ \A d \in Drives : mountOf[d] # NoPath =>
           /\ d \in plugged /\ secure[d].is # "none"
           /\ \A e \in Drives \ {d} : mountOf[e] # mountOf[d]
    /\ setup \in [Setups -> [at : {"idle", "partition", "wait", "fallback", "validate", "tools",
                                   "bin", "header", "index", "commit", "unmount", "done"},
                             drive : Drives, path : Paths \cup {NoPath}]]

UsbInit ==
    /\ platform \in {"darwin", "linux", "win32"}
    /\ plugged = {}
    /\ secure \in [Drives -> {NoSecure, [is |-> "empty", by |-> Before], [is |-> "vault", by |-> Before]}]
    /\ mountOf = [d \in Drives |-> NoPath]
    /\ setup = [s \in Setups |-> IdleSetup(CHOOSE d \in Drives : TRUE)]

-----------------------------------------------------------------------------
(* Drives and mount points.  The operating system mounts a SECURE volume at  *)
(* a path no other one has, when the drive is plugged in or later.           *)

Working(d) == \E s \in Setups : setup[s].at # "idle" /\ setup[s].drive = d
MayTouch(d) == Disturbed \/ ~Working(d)
FreePaths == Paths \ {mountOf[d] : d \in Drives}
MountAt(d, p) == mountOf' = [mountOf EXCEPT ![d] = p]
ParentDisk(p) == CHOOSE d \in Drives : mountOf[d] = p
MountedPaths == {mountOf[d] : d \in Drives} \ {NoPath}

Plug(d) ==
    /\ d \notin plugged
    /\ plugged' = plugged \cup {d}
    /\ UNCHANGED <<platform, secure, mountOf, setup>>

(* The operating system mounts a volume it sees, or mountSecure is called.   *)
mountSecure(d) ==
    /\ d \in plugged /\ secure[d].is # "none" /\ mountOf[d] = NoPath
    /\ \E p \in FreePaths : MountAt(d, p)
    /\ UNCHANGED <<platform, plugged, secure, setup>>

(* The user pulls the drive out, or ejectDrive powers it off.                *)
ejectDrive(d) ==
    /\ d \in plugged /\ MayTouch(d)
    /\ plugged' = plugged \ {d} /\ MountAt(d, NoPath)
    /\ UNCHANGED <<platform, secure, setup>>

unmountSecure(d) ==
    /\ d \in plugged /\ mountOf[d] # NoPath /\ MayTouch(d)
    /\ MountAt(d, NoPath)
    /\ UNCHANGED <<platform, plugged, secure, setup>>

(* quickErase and secureWipe.  A secureWipe on Linux that could not write is *)
(* reported as done; every other failure is reported.  Neither changes       *)
(* anything, so the failing cases are steps that do not change the state.    *)
resetDrive(d) ==
    /\ d \in plugged /\ MayTouch(d)
    /\ secure' = [secure EXCEPT ![d] = NoSecure] /\ MountAt(d, NoPath)
    /\ UNCHANGED <<platform, plugged, setup>>

-----------------------------------------------------------------------------
(* provisionVault of the companion.                                          *)

SetupGoes(s, at) == setup' = [setup EXCEPT ![s].at = at]
SetupAt(s, at) == setup[s].at = at
Target(s) == setup[s].drive

(* The user confirms the initialization of a drive; detectUsbDrives has it.  *)
provisionVault(s, d) ==
    /\ SetupAt(s, "idle") /\ d \in plugged /\ MayTouch(d)
    /\ setup' = [setup EXCEPT ![s] = [IdleSetup(d) EXCEPT !.at = "partition"]]
    /\ UNCHANGED <<platform, plugged, secure, mountOf>>

(* A slip: a failure while the header is written is not reported, as it was  *)
(* when the companion unmounted SECURE before it returned.                   *)
SetupFailsSilently(s) ==
    /\ setup[s].at \notin {"idle", "done"}
    /\ setup' = [setup EXCEPT ![s].at = IF setup[s].at \in {"header", "index", "commit"}
                                       THEN "unmount" ELSE "idle"]
    /\ UNCHANGED <<platform, plugged, secure, mountOf>>

(* Any step may fail; the error is shown and the screen can be used again.   *)
SetupFails(s) ==
    /\ setup[s].at \notin {"idle", "done"}
    /\ setup' = [setup EXCEPT ![s] = IdleSetup(Target(s))]
    /\ UNCHANGED <<platform, plugged, secure, mountOf>>

(* createDualPartitions replaces the volumes of the drive.  A command that   *)
(* fails before it wrote (no administrator, disk busy) is SetupFails.        *)
NewVolumes(s) ==
    /\ SetupAt(s, "partition") /\ Target(s) \in plugged
    /\ secure' = [secure EXCEPT ![Target(s)] = [is |-> "empty", by |-> s]]
    /\ UNCHANGED <<platform, plugged>>

Found(s, p) == setup' = [setup EXCEPT ![s].at = "validate", ![s].path = p]

(* diskutil, as root or through sudo; the volumes are mounted later.         *)
partitionMacOS(s) ==
    /\ platform = "darwin" /\ NewVolumes(s)
    /\ MountAt(Target(s), NoPath) /\ SetupGoes(s, "wait")

(* parted and mkfs, which leave nothing mounted.                             *)
partitionLinux(s) ==
    /\ platform = "linux" /\ NewVolumes(s)
    /\ MountAt(Target(s), NoPath) /\ SetupGoes(s, "wait")

(* One script partitions, assigns the drive letter and prints it.            *)
partitionWindows(s) ==
    /\ platform = "win32" /\ NewVolumes(s)
    /\ \E p \in FreePaths \cup ({mountOf[Target(s)]} \ {NoPath}) :
          MountAt(Target(s), p) /\ Found(s, p)

(* A later command of the partitioning fails, or the zeroing of a full       *)
(* format succeeds and the partitioning does not: no SECURE volume is left.  *)
PartitioningBreaks(s) ==
    LET d == Target(s) IN
    /\ SetupAt(s, "partition") /\ d \in plugged
    /\ secure' = [secure EXCEPT ![d] = NoSecure]
    /\ MountAt(d, NoPath)
    /\ setup' = [setup EXCEPT ![s] = IdleSetup(d)]
    /\ UNCHANGED <<platform, plugged>>

(* macOS polls the slices of the drive for 15 seconds.                       *)
AwaitMount(s) ==
    /\ SetupAt(s, "wait") /\ platform = "darwin"
    /\ IF mountOf[Target(s)] # NoPath THEN Found(s, mountOf[Target(s)]) ELSE SetupGoes(s, "fallback")
    /\ UNCHANGED <<platform, plugged, secure, mountOf>>

(* Linux mounts the partition itself and asks findmnt for the target.        *)
UdisksMount(s) ==
    LET d == Target(s) IN
    /\ SetupAt(s, "wait") /\ platform = "linux" /\ d \in plugged /\ secure[d].is # "none"
    /\ \E p \in IF mountOf[d] # NoPath THEN {mountOf[d]} ELSE FreePaths :
          MountAt(d, p) /\ Found(s, p)
    /\ UNCHANGED <<platform, plugged, secure>>

(* A slip: the label alone decides.                                          *)
findVolumeForDiskAny(d) == MountedPaths

(* A volume with the label SECURE that diskutil says is on this drive.       *)
findVolumeForDisk(d) == {p \in MountedPaths : ParentDisk(p) = d}

FallbackMount(s) ==
    /\ SetupAt(s, "fallback")
    /\ \E p \in findVolumeForDisk(Target(s)) : Found(s, p)
    /\ UNCHANGED <<platform, plugged, secure, mountOf>>

(* The SECURE partition of the drive must be there; on Windows, and if the   *)
(* query itself fails, nothing is checked.                                   *)
validatePartitionLayout(s) ==
    /\ SetupAt(s, "validate")
    /\ platform = "win32" \/ secure[Target(s)].is # "none"
    /\ SetupGoes(s, "tools")
    /\ UNCHANGED <<platform, plugged, secure, mountOf>>

(* README and marker on the TOOLS volume, whose state is left out.           *)
writeToolsContent(s) ==
    /\ SetupAt(s, "tools") /\ SetupGoes(s, "bin")
    /\ UNCHANGED <<platform, plugged, secure, mountOf>>

(* VAULT.bin is created at the mount point; a file that exists is not        *)
(* overwritten.                                                              *)
writeVaultBin(s) ==
    LET p == setup[s].path IN
    /\ SetupAt(s, "bin") /\ p \in MountedPaths
    /\ secure[ParentDisk(p)].is = "empty"
    /\ secure' = [secure EXCEPT ![ParentDisk(p)] = [is |-> "placeholder", by |-> s]]
    /\ SetupGoes(s, "header")
    /\ UNCHANGED <<platform, plugged, mountOf>>

-----------------------------------------------------------------------------
(* vaultOrchestrator.provision and the end of the setup screen.              *)

HasVaultBin(p) ==
    p \in MountedPaths /\ secure[ParentDisk(p)].is \in {"placeholder", "keyed", "indexed", "vault"}

(* The header of the password, the two indexes appended, and the header with *)
(* the pointer to the first.                                                 *)
provisionHeader(s) ==
    LET p == setup[s].path IN
    /\ SetupAt(s, "header") /\ HasVaultBin(p)
    /\ secure' = [secure EXCEPT ![ParentDisk(p)] = [is |-> "keyed", by |-> s]]
    /\ SetupGoes(s, "index")
    /\ UNCHANGED <<platform, plugged, mountOf>>

provisionIndex(s) ==
    LET p == setup[s].path IN
    /\ SetupAt(s, "index") /\ HasVaultBin(p)
    /\ secure' = IF secure[ParentDisk(p)].is = "keyed"
                 THEN [secure EXCEPT ![ParentDisk(p)].is = "indexed"] ELSE secure
    /\ SetupGoes(s, "commit")
    /\ UNCHANGED <<platform, plugged, mountOf>>

provisionCommit(s) ==
    LET p == setup[s].path IN
    /\ SetupAt(s, "commit") /\ HasVaultBin(p)
    /\ secure' = [secure EXCEPT ![ParentDisk(p)] =
                      [is |-> IF @.is \in {"indexed", "vault"} THEN "vault" ELSE "keyed", by |-> s]]
    /\ SetupGoes(s, "unmount")
    /\ UNCHANGED <<platform, plugged, mountOf>>

(* unmountSecure of the drive, then the success message.  On Windows a       *)
(* failed unmount is an error; elsewhere the volume just stays mounted.      *)
FinishSetup(s) ==
    /\ SetupAt(s, "unmount") /\ Target(s) \in plugged
    /\ \/ MountAt(Target(s), NoPath)
       \/ platform # "win32" /\ UNCHANGED mountOf
    /\ SetupGoes(s, "done")
    /\ UNCHANGED <<platform, plugged, secure>>

(* The form is reset after the message.                                      *)
ResetForm(s) ==
    /\ SetupAt(s, "done")
    /\ setup' = [setup EXCEPT ![s] = IdleSetup(Target(s))]
    /\ UNCHANGED <<platform, plugged, secure, mountOf>>

UsbNext ==
    \/ \E d \in Drives :
           Plug(d) \/ mountSecure(d) \/ ejectDrive(d) \/ unmountSecure(d) \/ resetDrive(d)
    \/ \E s \in Setups :
           \/ \E d \in Drives : provisionVault(s, d)
           \/ SetupFails(s)
           \/ partitionMacOS(s) \/ partitionLinux(s) \/ partitionWindows(s) \/ PartitioningBreaks(s)
           \/ AwaitMount(s) \/ UdisksMount(s) \/ FallbackMount(s)
           \/ validatePartitionLayout(s) \/ writeToolsContent(s) \/ writeVaultBin(s)
           \/ provisionHeader(s) \/ provisionIndex(s) \/ provisionCommit(s)
           \/ FinishSetup(s) \/ ResetForm(s)

UsbSpec == UsbInit /\ [][UsbNext]_UsbVars

-----------------------------------------------------------------------------
(* A setup changes only the drive the user chose, however many SECURE        *)
(* volumes are mounted: what is on a drive changes only while a setup of     *)
(* that drive runs, or because the drive is wiped.                           *)
OnlyChosenDrive ==
    [][\A d \in Drives : secure'[d] # secure[d] =>
           Working(d) \/ secure'[d] = NoSecure]_UsbVars

(* When the screen reports success, the drive the user chose holds a         *)
(* complete vault with this user's header.                                   *)
SetupIsUsable ==
    \A s \in Setups : SetupAt(s, "done") => secure[Target(s)] = [is |-> "vault", by |-> s]

=============================================================================
