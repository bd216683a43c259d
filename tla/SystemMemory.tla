---------------------------- MODULE SystemMemory ----------------------------
(***************************************************************************)
(* The memory of FreeBSD, which has no swap to report, and memory and swap *)
(* of the other systems.  A behaviour is one of either: the other          *)
(* component stays where it is.                                            *)
(***************************************************************************)
EXTENDS FreeBsdMemory

CONSTANTS
    Platforms,  \* the other systems of a run, see MemoryAndSwap
    OtherPhys,  \* their pages of memory
    SwapSize,   \* their pages of swap
    OtherMoves  \* bound on the changes of their kernel during one call

VARIABLES
    component,  \* the one that runs
    plat, msPages, swapped, limit, commit, op, todo, looks, msRet, msMoves, demand

Both == INSTANCE MemoryAndSwap WITH
    Phys <- OtherPhys, MaxMoves <- OtherMoves,
    pages <- msPages, ret <- msRet, moves <- msMoves

bothState == <<plat, msPages, swapped, limit, commit, op, todo, looks, msRet, msMoves, demand>>

ASSUME BothAssumption == Both!ConstantsAssumption

MemoryInit ==
    /\ component \in {"freebsd", "others"}
    /\ Init /\ Both!Init
    /\ component = "freebsd" =>
        /\ plat = CHOOSE p \in Platforms : p # "windows"
        /\ msPages["free"] = OtherPhys /\ swapped = 0
    /\ component = "others" => pages["free"] = Phys

MemoryNext ==
    \/ component = "freebsd" /\ Next /\ UNCHANGED <<component, bothState>>
    \/ component = "others" /\ Both!Next /\ UNCHANGED <<component, vars>>

MemorySpec == MemoryInit /\ [][MemoryNext]_<<component, vars, bothState>>

\* Free is never more than total, see MemoryAndSwap (windows/mod.rs:356-364).
FreeWithinTotal == Both!FreeWithinTotal

\* Memory and swap of one answer fit together, see MemoryAndSwap (common.rs:42-47).
DemandAccounted == Both!DemandAccounted
=============================================================================
