--------------------------- MODULE WindowsAddress ---------------------------
(***************************************************************************)
(* parse_addr_and_netmask of src/src/platform/windows/                     *)
(* network_interfaces.rs with netmask_v4 and netmask_v6: an address and    *)
(* the length of its prefix, as GetAdaptersAddresses gives them, turned    *)
(* into an address and a netmask.  Groups are the octets of an IPv4        *)
(* address and the 16-bit words of an IPv6 address.                        *)
(***************************************************************************)
EXTENDS Integers

Families == {"v4", "v6", "other"}

\* A shift that does not wrap: nothing is left when the distance is the width.
ShlPlain(x, n, width) == (x * 2^n) % 2^width

\* wrapping_shl of an unsigned integer: the distance is taken modulo the width.
Shl(x, n, width) == (x * 2^(n % width)) % 2^width

\* A group of the netmask: all ones, cut off within it, or zero.
MaskGroup(bits, idx, width) ==
    CASE bits > idx * width + width -> 2^width - 1
      [] bits > idx * width /\ bits <= idx * width + width ->
            Shl(2^width - 1, width - (bits % width), width)
      [] bits <= idx * width -> 0

NetmaskV4(bits) == [idx \in 0..3 |-> MaskGroup(bits, idx, 8)]

NetmaskV6(bits) == [idx \in 0..7 |-> MaskGroup(bits, idx, 16)]

\* The octets follow the two bytes of the port.
AddrV4(data) == [idx \in 0..3 |-> data[2 + idx]]

\* The bytes transmuted as they are, without the reversal.
AddrV6Unreversed(data) == [idx \in 0..7 |-> data[2 * idx] + 256 * data[2 * idx + 1]]

\* The bytes are reversed, read as little-endian words, and the words taken from
\* the last to the first.
AddrV6(data) ==
    LET reversed == [i \in 0..15 |-> data[15 - i]]
        words    == [k \in 0..7 |-> reversed[2 * k] + 256 * reversed[2 * k + 1]]
    IN  [idx \in 0..7 |-> words[7 - idx]]

\* IpAddr::Empty
Empty == << >>

ParseAddrAndNetmask(family, data, bits) ==
    CASE family = "v4" ->
            [family |-> family, addr |-> AddrV4(data),
             netmask |-> IF bits <= 32 THEN NetmaskV4(bits) ELSE Empty]
      [] family = "v6" ->
            [family |-> family, addr |-> AddrV6(data),
             netmask |-> IF bits <= 128 THEN NetmaskV6(bits) ELSE Empty]
      [] family = "other" -> [family |-> family, addr |-> Empty, netmask |-> Empty]

-----------------------------------------------------------------------------

GroupWidth(family) == IF family = "v4" THEN 8 ELSE 16

\* Bit i of an address, counted from its first, as a reference.
BitAt(groups, width, i) == (groups[i \div width] \div 2^(width - 1 - (i % width))) % 2

\* The netmask is the first bits ones, also where the prefix ends between two
\* groups (network_interfaces.rs:261), and there is none where the prefix is longer than
\* the address.
MaskCorrect(parsed, bits) ==
    LET width == GroupWidth(parsed.family)
        size  == IF parsed.family = "v4" THEN 32 ELSE 128
    IN  parsed.family # "other" =>
            IF bits > size
            THEN parsed.netmask = Empty
            ELSE \A i \in 0..size - 1 :
                    BitAt(parsed.netmask, width, i) = IF i < bits THEN 1 ELSE 0

\* An IPv6 address has its bytes in network order (network_interfaces.rs:223-239).
OrderCorrect(parsed, data) ==
    parsed.family = "v6" =>
        \A i \in 0..7 : parsed.addr[i] = 256 * data[2 * i] + data[2 * i + 1]
=============================================================================
