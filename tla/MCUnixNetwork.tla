--------------------------- MODULE MCUnixNetwork ---------------------------
EXTENDS UnixNetwork

\* A small packet and the largest.
SmallAndLarge == {1, MaxPacket}

\* Two names of UTF-8, one of them with a replacement character, and a name that
\* is turned into that one.
Names == {"em0", "tap?", "tap!"}
LossyNames == [n \in Names |-> IF n = "tap!" THEN "tap?" ELSE n]

\* Bytes that are all different, and bytes that can be swapped in pairs.
SomeBytes == {[i \in 0..15 |-> 255 - i], [i \in 0..15 |-> 1 + i \div 2]}
=============================================================================
