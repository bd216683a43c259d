---------------------------- MODULE SocketStats ----------------------------
(***************************************************************************)
(* socket_stats() of Linux, which reads a file for IPv4 and one for IPv6,  *)
(* and of Windows, which asks four times, while sockets are opened and     *)
(* closed.  No single moment needs to have had all the numbers of a result.*)
(***************************************************************************)
EXTENDS Integers, Sequences

CONSTANTS
    MaxSockets, \* bound on the sockets of each kind
    MaxEvents   \* bound on what is opened and closed during a call

ConstantsAssumption == {MaxSockets, MaxEvents} \subseteq Nat

\* The fields of the result: _in_use, but for the orphaned.
Kind == {"tcp", "tcp6", "udp", "udp6"}
Field == Kind \cup {"orphaned"}

VARIABLES
    platform,   \* "linux" or "windows"
    sockets,    \* [Field -> Nat], those there are
    todo,       \* the system calls left to make: the fields each one fills in
    stats,      \* [Field -> Nat], the local variables
    ret,        \* what the last call returned, until the next one
    events,     \* history: sockets opened and closed since the call began
    glances     \* history: what there was during the call

vars == <<platform, sockets, todo, stats, ret, events, glances>>

Zero == [f \in Field |-> 0]

\* The calls on Windows, with the family of the first in the second.
CallsOneFamily(p) ==
    IF p = "linux"
    THEN <<{"tcp", "orphaned", "udp"}, {"tcp6", "udp6"}>>
    ELSE <<{"tcp"}, {"tcp"}, {"udp"}, {"udp6"}>>

Calls(p) ==
    IF p = "linux"
    THEN <<{"tcp", "orphaned", "udp"}, {"tcp6", "udp6"}>>
    ELSE <<{"tcp"}, {"tcp6"}, {"udp"}, {"udp6"}>>

Init ==
    /\ platform \in {"linux", "windows"}
    /\ sockets = Zero
    /\ todo = << >>
    /\ stats = Zero
    /\ ret = "nothing"
    /\ events = 0
    /\ glances = {}

InCall == todo # << >>

Change(now) ==
    /\ sockets' = now
    /\ IF InCall
       THEN /\ events < MaxEvents
            /\ events' = events + 1
            /\ glances' = glances \cup {now}
       ELSE UNCHANGED <<events, glances>>
    /\ UNCHANGED <<platform, todo, stats, ret>>

Open(k) ==
    /\ sockets[k] < MaxSockets
    /\ Change([sockets EXCEPT ![k] = @ + 1])

Close(k) ==
    /\ sockets[k] > 0
    /\ Change([sockets EXCEPT ![k] = @ - 1])

\* A process leaves a TCP socket to the kernel, or the kernel is done with it.
Orphan ==
    \E f, g \in {"tcp", "orphaned"} :
        /\ f # g
        /\ sockets[f] > 0 /\ sockets[g] < MaxSockets
        /\ Change([sockets EXCEPT ![f] = @ - 1, ![g] = @ + 1])

Call ==
    /\ ~InCall
    /\ todo' = Calls(platform)
    /\ stats' = Zero
    /\ ret' = "nothing"
    /\ events' = 0
    /\ glances' = {sockets}
    /\ UNCHANGED <<platform, sockets>>

Read ==
    /\ InCall
    /\ todo' = Tail(todo)
    /\ stats' = [f \in Field |-> IF f \in Head(todo) THEN sockets[f] ELSE stats[f]]
    /\ ret' = IF Len(todo) = 1 THEN "ok" ELSE ret
    /\ UNCHANGED <<platform, sockets, events, glances>>

\* A file cannot be read or parsed, or a function does not return ERROR_SUCCESS.
ReadFails ==
    /\ InCall
    /\ todo' = << >>
    /\ ret' = "err"
    /\ UNCHANGED <<platform, sockets, stats, events, glances>>

Next ==
    \/ \E k \in Kind : Open(k) \/ Close(k)
    \/ Orphan
    \/ Call
    \/ Read
    \/ ReadFails

Spec == Init /\ [][Next]_vars

-----------------------------------------------------------------------------

InUse(s) == s["tcp"] + s["tcp6"] + s["udp"] + s["udp6"]

\* What one system call fills in was there together at one moment of the call,
\* and the sockets in use, added up over the four kinds, are no more off from
\* those of any moment of the call than was opened and closed during it
\* (linux.rs:724-743, windows/socket.rs:54-66).
SocketsHonest ==
    ret = "ok" =>
        /\ \A i \in DOMAIN Calls(platform) :
            \E g \in glances : \A f \in Calls(platform)[i] : stats[f] = g[f]
        /\ platform = "windows" => stats["orphaned"] = 0
        /\ \A g \in glances : InUse(stats) \in InUse(g) - events..InUse(g) + events
=============================================================================
