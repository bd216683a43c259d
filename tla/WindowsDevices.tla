--------------------------- MODULE WindowsDevices ---------------------------
(***************************************************************************)
(* The adapters and the drives of Windows.  They share nothing, so a       *)
(* behaviour is one of get() or one of drives(), and the other component   *)
(* stays where it is.                                                      *)
(***************************************************************************)
EXTENDS WindowsAdapters

CONSTANTS Drive, Fixed, Media, NoMedium, MaxChanges     \* see WindowsDrives

VARIABLES
    component,  \* the one that runs
    present, medium, changes, step, length, left, at, label, vec, result, seen

Drives == INSTANCE WindowsDrives

drivesState == <<present, medium, changes, step, length, left, at, label, vec, result, seen>>

ASSUME DrivesAssumption == Drives!DrivesAssumption

DevicesInit ==
    /\ component \in {"adapters", "drives"}
    /\ Init /\ Drives!Init
    /\ component = "adapters" => present = {} /\ medium = [d \in Drive |-> NoMedium]
    /\ component = "drives" => need = 1

DevicesNext ==
    \/ component = "adapters" /\ Next /\ UNCHANGED <<component, drivesState>>
    \/ component = "drives" /\ Drives!Next /\ UNCHANGED <<component, vars>>

DevicesSpec ==
    /\ DevicesInit /\ [][DevicesNext]_<<component, vars, drivesState>>
    /\ WF_vars(Get)

\* What drives() returns was there, and it fails only for a reason, see
\* WindowsDrives (disk.rs:13-74).
DrivesHonest == Drives!Honest /\ Drives!FailsForReason
=============================================================================
