-------------------------- MODULE WindowsCounters ---------------------------
(***************************************************************************)
(* What Windows counts: the CPU load, and the socket statistics, with those*)
(* of Linux beside them.  The two share no state, so a behaviour is one of *)
(* either, and the other component stays where it is.                      *)
(***************************************************************************)
EXTENDS WindowsCpuLoad

CONSTANTS MaxSockets, MaxEvents     \* see SocketStats

VARIABLES
    component,  \* the one that runs
    platform, sockets, todo, stats, sockRet, events, glances

Sock == INSTANCE SocketStats WITH ret <- sockRet

sockState == <<platform, sockets, todo, stats, sockRet, events, glances>>

ASSUME SockAssumption == Sock!ConstantsAssumption

CountersInit ==
    /\ component \in {"cpu", "sockets"}
    /\ Init /\ Sock!Init
    /\ component = "cpu" => platform = "windows"

CountersNext ==
    \/ component = "cpu" /\ Next /\ UNCHANGED <<component, sockState>>
    \/ component = "sockets" /\ Sock!Next /\ UNCHANGED <<component, vars>>

CountersSpec == CountersInit /\ [][CountersNext]_<<component, vars, sockState>>

\* The counts of sockets are of the call, see SocketStats (linux.rs:724-743).
SocketsHonest == Sock!SocketsHonest
=============================================================================
