------------------------------- MODULE Mounts -------------------------------
(***************************************************************************)
(* The mounts of Linux, and those of the systems with getmntinfo.  A       *)
(* behaviour is one of either: the other component stays where it is.      *)
(***************************************************************************)
EXTENDS LinuxMounts

CONSTANTS
    BsdDir,             \* the directories of the BSDs and macOS
    Thread, Reads, MaxEdits     \* see BsdMounts

VARIABLES
    component,  \* the one that runs
    mtab, edits, buffer, call, answer, given, there, longest

Bsd == INSTANCE BsdMounts WITH Dir <- BsdDir

bsdState == <<mtab, edits, buffer, call, answer, given, there, longest>>

ASSUME BsdAssumption == Bsd!ConstantsAssumption

\* The component that does not run starts in one state only.
MountsInit ==
    /\ component \in {"linux", "bsd"}
    /\ Init /\ Bsd!Init
    /\ component = "linux" => mtab = table
    /\ component = "bsd" => table = <<mtab[1]>>

MountsNext ==
    \/ component = "linux" /\ Next /\ UNCHANGED <<component, bsdState>>
    \/ component = "bsd" /\ Bsd!Next /\ UNCHANGED <<component, vars>>

MountsSpec == MountsInit /\ [][MountsNext]_<<component, vars, bsdState>>

\* A call nobody overlapped is right, see BsdMounts (freebsd.rs:138-139).
AloneHonest == Bsd!AloneHonest

\* What an overlapped call may return, see BsdMounts (freebsd.rs:134-139, 191-204).
OverlapBounded == Bsd!OverlapBounded
=============================================================================
