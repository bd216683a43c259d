------------------------- MODULE MCWindowsAdapters -------------------------
(***************************************************************************)
(* Values for the constants of WindowsDevices.                             *)
(***************************************************************************)
EXTENDS WindowsDevices

\* Bytes that are all different; with the high bit set they would be negative to
\* a signed type.
SomeBytes == {[i \in 0..15 |-> IF i % 2 = 0 THEN i ELSE 255 - i]}

\* Prefixes that end before, at and behind the end of a group, of IPv4 and of IPv6.
SomePrefixes == {0, 1, 7, 8, 9, 16, 31, 32, 33, 127, 128, 129, 255}
=============================================================================
