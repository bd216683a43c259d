--------------------------- MODULE LinuxNetStats ---------------------------
(***************************************************************************)
(* network_stats() of src/src/platform/linux.rs: six counters of one       *)
(* interface, each read from a file of its own while packets come and go.  *)
(* Between two reads the interface may disappear, and come back under the  *)
(* same name with its counters at 0.                                       *)
(***************************************************************************)
EXTENDS Integers, Sequences

CONSTANTS
    MaxPacket,  \* the bytes of the largest packet
    Sizes,      \* the packet sizes of a run
    MaxEvents   \* bound on the packets, errors and replugs of a behaviour

ASSUME ConstantsAssumption ==
    /\ MaxPacket \in Nat \ {0}
    /\ Sizes \subseteq 1..MaxPacket
    /\ MaxEvents \in Nat

Counter == {"rx_bytes", "tx_bytes", "rx_packets", "tx_packets", "rx_errors", "tx_errors"}

\* The counters of one direction, and the bytes a packet adds to them.
Direction == {"rx", "tx"}

BytesOf(d) == IF d = "rx" THEN "rx_bytes" ELSE "tx_bytes"
PacketsOf(d) == IF d = "rx" THEN "rx_packets" ELSE "tx_packets"
ErrorsOf(d) == IF d = "rx" THEN "rx_errors" ELSE "tx_errors"

VARIABLES
    counters,   \* [Counter -> Nat], the files below statistics/
    link,       \* "up", or "gone": the interface does not exist
    epoch,      \* how often it was created
    events,     \* packets, errors and replugs so far
    next,       \* the next file of Order to read, or 0 between two calls
    sample,     \* [Counter -> Nat], the local variables of network_stats()
    ret,        \* the last NetworkStats returned
    began,      \* history: counters when the call began
    beganEpoch  \* history: epoch when the call began

nic == <<counters, link, epoch, events>>
vars == <<counters, link, epoch, events, next, sample, ret, began, beganEpoch>>

Zero == [c \in Counter |-> 0]

\* The packets before the bytes.
OrderPacketsFirst ==
    <<"rx_packets", "tx_packets", "rx_bytes", "tx_bytes", "rx_errors", "tx_errors">>

\* The order of the statements of network_stats().
Order ==
    <<"rx_bytes", "tx_bytes", "rx_packets", "tx_packets", "rx_errors", "tx_errors">>

Init ==
    /\ counters = Zero
    /\ link \in {"up", "gone"}
    /\ epoch = 0
    /\ events = 0
    /\ next = 0
    /\ sample = Zero
    /\ ret = [tag |-> "nothing", stats |-> Zero, epoch |-> 0]
    /\ began = Zero
    /\ beganEpoch = 0

Event ==
    /\ events < MaxEvents
    /\ events' = events + 1
    /\ UNCHANGED <<next, sample, ret, began, beganEpoch>>

\* The driver counts a packet and its bytes together.
Packet(d, n) ==
    /\ Event
    /\ link = "up"
    /\ counters' = [counters EXCEPT ![BytesOf(d)] = @ + n, ![PacketsOf(d)] = @ + 1]
    /\ UNCHANGED <<link, epoch>>

Error(d) ==
    /\ Event
    /\ link = "up"
    /\ counters' = [counters EXCEPT ![ErrorsOf(d)] = @ + 1]
    /\ UNCHANGED <<link, epoch>>

Unplug ==
    /\ Event
    /\ link = "up"
    /\ link' = "gone"
    /\ UNCHANGED <<counters, epoch>>

Plug ==
    /\ Event
    /\ link = "gone"
    /\ link' = "up"
    /\ epoch' = epoch + 1
    /\ counters' = Zero

\* A call that still has the local variables of the last one.
CallKeep ==
    /\ next = 0
    /\ next' = 1
    /\ began' = counters
    /\ beganEpoch' = epoch
    /\ UNCHANGED <<nic, sample, ret>>

\* network_stats() is called.
Call ==
    /\ next = 0
    /\ next' = 1
    /\ sample' = Zero
    /\ began' = counters
    /\ beganEpoch' = epoch
    /\ UNCHANGED <<nic, ret>>

\* The value goes into its variable; the sixth completes the NetworkStats.
\* The code cannot tell "mixed" from "ok": the tag is for the properties.
Take(value) ==
    LET s == [sample EXCEPT ![Order[next]] = value] IN
    /\ sample' = s
    /\ IF next < 6
       THEN next' = next + 1 /\ UNCHANGED ret
       ELSE /\ next' = 0
            /\ ret' = [tag |-> IF epoch = beganEpoch THEN "ok" ELSE "mixed",
                       stats |-> s, epoch |-> epoch]
    /\ UNCHANGED <<nic, began, beganEpoch>>

\* A file that is gone counts as 0.
ReadOrZero ==
    /\ next # 0
    /\ Take(IF link = "up" THEN counters[Order[next]] ELSE 0)

\* value_from_file on the next file.
Read ==
    /\ next # 0
    /\ link = "up"
    /\ Take(counters[Order[next]])

\* The file is gone, or does not hold a number: the call ends with an error.
ReadFails ==
    /\ next # 0
    /\ next' = 0
    /\ UNCHANGED <<nic, sample, ret, began, beganEpoch>>

Next ==
    \/ \E d \in Direction, n \in Sizes : Packet(d, n)
    \/ \E d \in Direction : Error(d)
    \/ Unplug
    \/ Plug
    \/ Call
    \/ Read
    \/ ReadFails

Spec == Init /\ [][Next]_vars

-----------------------------------------------------------------------------

\* The counters this call has read.
Done == {Order[i] : i \in 1..next - 1}

Stats == [Counter -> Nat]

\* Shapes; a call starts from fresh variables (linux.rs:691-699).
TypeOK ==
    /\ counters \in Stats
    /\ link \in {"up", "gone"}
    /\ epoch \in Nat /\ events \in Nat
    /\ next \in 0..6
    /\ sample \in Stats
    /\ next # 0 => \A c \in Counter \ Done : sample[c] = 0
    /\ ret \in [tag : {"nothing", "ok", "mixed"}, stats : Stats, epoch : Nat]
    /\ began \in Stats
    /\ beganEpoch \in Nat

\* No more bytes than p packets can carry.
Carries(p, b) == b <= MaxPacket * p

\* The result accounts for every byte it reports: whatever arrives between the
\* reads, there are packets enough to carry the bytes, because the bytes are
\* read first.  An interface created anew in mid-call is left out of this
\* (linux.rs:694-697).
BytesCarried ==
    ret.tag = "ok" =>
        \A d \in Direction : Carries(ret.stats[PacketsOf(d)], ret.stats[BytesOf(d)])

\* Two calls in a row on the same incarnation of an interface never show a
\* counter going back, whichever of the six reads packets fall between and
\* however many calls fail in between (linux.rs:690-709).
NeverBackwards ==
    [][ret.tag = "ok" /\ ret'.tag = "ok" /\ ret'.epoch = ret.epoch =>
           \A c \in Counter : ret.stats[c] <= ret'.stats[c]]_vars
=============================================================================
