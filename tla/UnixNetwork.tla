---------------------------- MODULE UnixNetwork ----------------------------
(***************************************************************************)
(* The counters Linux has in files, and the list of interfaces of the      *)
(* other Unix systems.  A behaviour is one of either: the other component  *)
(* stays where it is.                                                      *)
(***************************************************************************)
EXTENDS LinuxNetStats

CONSTANTS Name, Lossy, Bytes, MaxList, MaxLost      \* see IfAddrs

VARIABLES
    component,  \* the one that runs
    endian, ifs, heap, call, outcome, refused

IfList == INSTANCE IfAddrs

ifListState == <<endian, ifs, heap, call, outcome, refused>>

ASSUME IfListAssumption == IfList!ConstantsAssumption

\* The component that does not run starts in one state only.
NetworkInit ==
    /\ component \in {"linux", "ifaddrs"}
    /\ Init /\ IfList!Init
    /\ component = "linux" => ifs = << >> /\ endian = "little"
    /\ component = "ifaddrs" => link = "up"

NetworkNext ==
    \/ component = "linux" /\ Next /\ UNCHANGED <<component, ifListState>>
    \/ component = "ifaddrs" /\ IfList!Next /\ UNCHANGED <<component, vars>>

NetworkSpec == NetworkInit /\ [][NetworkNext]_<<component, vars, ifListState>>

\* Which lists are freed, and when, see IfAddrs (openbsd.rs:152-161, 176).
ListsFreed == IfList!ListsFreed

\* What network_stats() of OpenBSD returns, see IfAddrs (openbsd.rs:152-176).
StatsHonest == IfList!StatsHonest

\* What networks() returns, see IfAddrs (unix.rs:24-40).
NetworksComplete == IfList!NetworksComplete
=============================================================================
