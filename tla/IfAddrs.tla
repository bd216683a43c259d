------------------------------ MODULE IfAddrs ------------------------------
(***************************************************************************)
(* The two readers of the list of getifaddrs: networks() of                *)
(* src/src/platform/unix.rs, which all Unix systems but illumos share, and *)
(* network_stats() of OpenBSD.  getifaddrs allocates the list, a copy of   *)
(* the caller's own; a loop walks it, which may end the call; freeifaddrs  *)
(* gives it back.  A list of no entry is the null pointer.                 *)
(*                                                                         *)
(* A name is a string of bytes.  network_stats() insists on UTF-8,         *)
(* networks() replaces what is not, so that two names may become one.      *)
(***************************************************************************)
EXTENDS Integers, Sequences

CONSTANTS
    Name,       \* the names of interfaces
    Lossy,      \* to_string_lossy of a name; a name of UTF-8 is its own
    Bytes,      \* the bytes of the addresses of a run: functions on 0..15
    MaxList,    \* bound on the entries of the list
    MaxLost     \* bound on the lists a behaviour leaves allocated

ConstantsAssumption ==
    /\ Name \subseteq DOMAIN Lossy
    /\ Bytes \subseteq [0..15 -> 0..255]
    /\ MaxList \in Nat
    /\ MaxLost \in Nat

Utf8 == {n \in Name : Lossy[n] = n}

VARIABLES
    endian,     \* "little" or "big": how the machine stores a word
    ifs,        \* the kernel's list: a sequence of [name, family, data, carried]
    heap,       \* lists of getifaddrs that were not freed
    call,       \* the call in progress and its list
    outcome,    \* what the last call returned
    refused     \* history: calls that ended in the middle of the list

vars == <<endian, ifs, heap, call, outcome, refused>>

\* The address of an entry may be missing; only the link entry of an interface
\* has counters, here one number for all six.
Entry == [name : Name, family : {"null", "inet", "inet6", "link"}, data : Bytes]

Carried(e) == IF e.family = "link" THEN e.data[0] ELSE 0

\* What network_stats() returned, and what networks() did.
Stats(tag, n, sum, listed) ==
    [op |-> "network_stats", tag |-> tag, name |-> n, stats |-> sum, listed |-> listed,
     networks |-> << >>]

Addresses(tag, networks) ==
    [op |-> "networks", tag |-> tag, name |-> "", stats |-> 0, listed |-> tag = "ok",
     networks |-> networks]

Nothing == Addresses("nothing", << >>)

Calling(op, n, list) == [op |-> op, name |-> n, list |-> list]

Idle == Calling("idle", "", << >>)

\* What getifaddrs allocates for a list.
Blocks(list) == IF list = << >> THEN 0 ELSE 1

Init ==
    /\ endian \in {"little", "big"}
    /\ ifs \in UNION {[1..n -> Entry] : n \in 0..MaxList}
    \* an interface has one link entry
    /\ \A i, j \in DOMAIN ifs :
        i # j => ~(ifs[i].family = "link" /\ ifs[j].family = "link" /\ ifs[i].name = ifs[j].name)
    /\ heap = 0
    /\ call = Idle
    /\ outcome = Nothing
    /\ refused = 0

\* getifaddrs gives a call its list.
Listed(op, n) ==
    /\ call = Idle
    /\ call' = Calling(op, n, ifs)
    /\ heap' = heap + Blocks(ifs)
    /\ outcome' = Nothing
    /\ UNCHANGED <<endian, ifs, refused>>

Return(result) ==
    /\ call' = Idle
    /\ outcome' = result
    /\ UNCHANGED <<endian, ifs>>

-----------------------------------------------------------------------------

\* What an entry adds to the counters: those of every interface.
AddsAny(e, n) == Carried(e)

\* Those of the interface asked for.
Adds(e, n) == IF e.name = n THEN Carried(e) ELSE 0

\* The counters after each turn of the loop of network_stats().
Sums(list, n) ==
    LET sum[i \in 0..Len(list)] == IF i = 0 THEN 0 ELSE sum[i - 1] + Adds(list[i], n)
    IN  sum

\* network_stats() calls getifaddrs.
ListForStats(n) ==
    /\ refused < MaxLost
    /\ Listed("network_stats", n)

\* It fails; the result is not looked at, and the pointer is still null.
Unlisted(n) ==
    /\ call = Idle
    /\ call' = Calling("network_stats", n, << >>)
    /\ outcome' = Nothing
    /\ UNCHANGED <<endian, ifs, heap, refused>>

Unnamed(list) == \E i \in DOMAIN list : list[i].name \notin Utf8

\* A name that is not UTF-8 ends the call in its loop, whatever was asked for.
NameRefused ==
    /\ call.op = "network_stats"
    /\ Unnamed(call.list)
    /\ refused' = refused + 1
    /\ Return(Stats("err", call.name, 0, TRUE))
    /\ UNCHANGED heap

\* The loop is through; freeifaddrs of its first entry, or of null.
NetworkStats ==
    /\ call.op = "network_stats"
    /\ ~Unnamed(call.list)
    /\ heap' = heap - Blocks(call.list)
    /\ Return(Stats("ok", call.name, Sums(call.list, call.name)[Len(call.list)],
                    call.list = ifs))
    /\ UNCHANGED refused

-----------------------------------------------------------------------------

\* transmute of two bytes to a word.
Word(first, second) ==
    IF endian = "little" THEN first + 256 * second ELSE 256 * first + second

\* The bytes are reversed, transmuted to words, and the words taken from the last.
ParseV6(data) ==
    LET reversed == [i \in 0..15 |-> data[15 - i]]
        words    == [k \in 0..7 |-> Word(reversed[2 * k], reversed[2 * k + 1])]
    IN  [k \in 0..7 |-> words[7 - k]]

ParseAddr(e) ==
    CASE e.family = "null"  -> [tag |-> "Empty", groups |-> << >>]
      [] e.family = "inet"  -> [tag |-> "V4", groups |-> [k \in 0..3 |-> e.data[2 + k]]]
      [] e.family = "inet6" -> [tag |-> "V6", groups |-> ParseV6(e.data)]
      [] e.family = "link"  -> [tag |-> "Unsupported", groups |-> << >>]

Supported(e) == e.family # "link"

\* insert in the place of entry().or_insert().
EnterAfresh(result, e) ==
    [n \in DOMAIN result \cup {Lossy[e.name]} |->
        IF n = Lossy[e.name]
        THEN IF Supported(e) THEN <<ParseAddr(e)>> ELSE << >>
        ELSE result[n]]

\* One turn of the loop of networks().
Enter(result, e) ==
    [n \in DOMAIN result \cup {Lossy[e.name]} |->
        LET addrs == IF n \in DOMAIN result THEN result[n] ELSE << >>
        IN  IF n = Lossy[e.name] /\ Supported(e) THEN Append(addrs, ParseAddr(e)) ELSE addrs]

\* The result after each turn.
Entered(list) ==
    LET result[i \in 0..Len(list)] ==
            IF i = 0 THEN << >> ELSE Enter(result[i - 1], list[i])
    IN  result

\* networks() calls getifaddrs.
ListForNetworks == Listed("networks", "")

\* It fails, and so does networks().
NetworksFails ==
    /\ call = Idle
    /\ Return(Addresses("err", << >>))
    /\ UNCHANGED <<heap, refused>>

\* freeifaddrs of the pointer the loop has moved to the end.
NetworksFreesEnd ==
    /\ call.op = "networks"
    /\ heap' = heap - Blocks(<< >>)
    /\ Return(Addresses("ok", Entered(call.list)[Len(call.list)]))
    /\ UNCHANGED refused

\* The loop is through; freeifaddrs of the pointer kept in ifirst.
Networks ==
    /\ call.op = "networks"
    /\ heap' = heap - Blocks(call.list)
    /\ Return(Addresses("ok", Entered(call.list)[Len(call.list)]))
    /\ UNCHANGED refused

Next ==
    \/ \E n \in Utf8 : ListForStats(n) \/ Unlisted(n)
    \/ NameRefused
    \/ NetworkStats
    \/ ListForNetworks
    \/ NetworksFails
    \/ Networks

Spec == Init /\ [][Next]_vars

-----------------------------------------------------------------------------

\* However the calls are mixed, and whichever call of getifaddrs fails, every
\* list is freed once, by the call that it was made for: those left allocated
\* between two calls are those of the calls of network_stats() that met a name
\* that is not UTF-8 (openbsd.rs:152-161, 176; unix.rs:18-40).
ListsFreed == heap = refused + Blocks(call.list)

\* The counters of the link entry of an interface, or 0.
CountersOf(n) ==
    LET links == {i \in DOMAIN ifs : ifs[i].name = n /\ ifs[i].family = "link"}
    IN  IF links = {} THEN 0 ELSE ifs[CHOOSE i \in links : TRUE].data[0]

\* network_stats() has the counters of the interface asked for, once, although
\* the list has an entry for each of its addresses; zeros stand also for an
\* interface that does not exist and for a list that could not be had; and it
\* fails when another interface has a name that is not UTF-8
\* (openbsd.rs:152-176).
StatsHonest ==
    outcome.op = "network_stats" =>
        IF outcome.tag = "ok"
        THEN outcome.stats = IF outcome.listed THEN CountersOf(outcome.name) ELSE 0
        ELSE outcome.listed /\ \E i \in DOMAIN ifs : ifs[i].name # outcome.name

\* The groups of an IPv6 address, in network order.
NetworkOrder(data) == [k \in 0..7 |-> 256 * data[2 * k] + data[2 * k + 1]]

Swappable(data) == \A k \in 0..7 : data[2 * k] = data[2 * k + 1]

\* An address has the type and the bytes of its entry.  The groups of an IPv6
\* address are in network order on a little-endian machine, and on another have
\* their bytes swapped.
Right(addr, e) ==
    /\ addr.tag = "Empty" <=> e.family = "null"
    /\ addr.tag = "V4" => addr.groups = [k \in 0..3 |-> e.data[k + 2]]
    /\ addr.tag = "V6" =>
        (addr.groups = NetworkOrder(e.data) <=> endian = "little" \/ Swappable(e.data))

\* Each address of the list is there once, in order, under what UTF-8 can say of
\* the name of its interface, where an interface without addresses is too
\* (unix.rs:24-40, 55-59).
NetworksComplete ==
    outcome.op = "networks" /\ outcome.tag = "ok" =>
        /\ DOMAIN outcome.networks = {Lossy[ifs[i].name] : i \in DOMAIN ifs}
        /\ \A n \in DOMAIN outcome.networks :
            LET addrs == outcome.networks[n]
                mine  == {i \in DOMAIN ifs : Lossy[ifs[i].name] = n /\ Supported(ifs[i])}
            IN  \E place \in [DOMAIN addrs -> mine] :
                    /\ \A i, j \in DOMAIN addrs : i < j => place[i] < place[j]
                    /\ \A k \in mine : \E i \in DOMAIN addrs : place[i] = k
                    /\ \A i \in DOMAIN addrs : Right(addrs[i], ifs[place[i]])
=============================================================================
