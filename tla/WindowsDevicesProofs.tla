----------------------- MODULE WindowsDevicesProofs ------------------------
(***************************************************************************)
(* The retry loop of network_interfaces.rs for every first size and every  *)
(* bound on the need: no block is left behind, new_size does not wrap, as  *)
(* twice the need is assumed to fit, and the sizes double, so that the     *)
(* retries are few.  And drives(), for any drives and media, however they  *)
(* come and go: what it returns was there, and it fails for a reason.      *)
(***************************************************************************)
EXTENDS WindowsDevices, FiniteSetTheorems, TLAPS

\* A doubled need is a ULONG.
LEMMA NoWrap ==
    ASSUME NEW n \in 1..MaxNeed
    PROVE  (2 * n) % Ulong = 2 * n /\ 2 * n \in 1..(Ulong - 1)
<1> USE ConstantsAssumption
<1>1. 2 * n \in Nat /\ 2 * n < Ulong /\ 2 * n > 0
  OBVIOUS
<1>2. \A a, m \in Nat : a < m => a % m = a
  OBVIOUS
<1>3. QED
  BY <1>1, <1>2

IInv == TypeOK /\ HeapBalanced /\ SizesDouble /\ RetriesBounded

LEMMA InvInit == Init => IInv
BY ConstantsAssumption DEF Init, Outcome, IInv, TypeOK, HeapBalanced, SizesDouble, RetriesBounded

\* A retry: the need was larger than the block, which was at least floor.
LEMMA OverflowStep ==
    ASSUME IInv, Overflow
    PROVE  IInv'
<1> USE ConstantsAssumption
<1>1. /\ need \in 1..MaxNeed /\ need > block /\ block >= floor
      /\ floor \in Nat \ {0} /\ block \in Nat /\ heap = 1
  BY DEF IInv, TypeOK, SizesDouble, HeapBalanced, Overflow
<1>2. floor < MaxNeed /\ floor' = 2 * floor
  BY <1>1 DEF Overflow, FloorDoubles
<1>3. newSize' = 2 * need /\ newSize' \in 1..(Ulong - 1)
  BY <1>1, NoWrap DEF Overflow
<1>4. /\ phase' = "alloc" /\ block' = 0 /\ heap' = 0
      /\ UNCHANGED <<need, ret>>
  BY <1>1 DEF Overflow, Free
<1>5. TypeOK'
  BY <1>1, <1>2, <1>3, <1>4 DEF IInv, TypeOK
<1>6. SizesDouble' /\ RetriesBounded'
  BY <1>1, <1>2, <1>3, <1>4 DEF SizesDouble, RetriesBounded
<1>7. HeapBalanced'
  BY <1>4 DEF HeapBalanced
<1>8. QED
  BY <1>5, <1>6, <1>7 DEF IInv

LEMMA InvPreserved == IInv /\ [Next]_vars => IInv'
<1> USE ConstantsAssumption
<1> SUFFICES ASSUME IInv, [Next]_vars PROVE IInv'
  OBVIOUS
<1> USE DEF IInv, TypeOK, HeapBalanced, SizesDouble, RetriesBounded
<1>1. ASSUME NEW n \in 1..MaxNeed, Resize(n) PROVE IInv'
  BY <1>1 DEF Resize
<1>2. CASE Call
  BY <1>2 DEF Call, Outcome
<1>3. CASE Malloc
  BY <1>3 DEF Malloc
<1>4. CASE MallocFails
  BY <1>4 DEF MallocFails
<1>5. CASE Success
  BY <1>5 DEF Success
<1>6. CASE Overflow
  BY <1>6, OverflowStep
<1>7. CASE QueryFails
  BY <1>7 DEF QueryFails, Free, Return, Outcome
<1>8. ASSUME NEW family \in Families, NEW data \in Samples, NEW bits \in Prefixes,
             Walk(family, data, bits)
      PROVE  IInv'
  BY <1>8 DEF Walk, Free, Return
<1>9. CASE UNCHANGED vars
  BY <1>9 DEF vars
<1>10. QED
  BY <1>1, <1>2, <1>3, <1>4, <1>5, <1>6, <1>7, <1>8, <1>9 DEF Next, Get

LEMMA InvAlways == Spec => []IInv
BY InvInit, InvPreserved, PTL DEF Spec

\* The variables keep their types, new_size among them: as it is assumed that twice
\* the need fits a ULONG, no doubling wraps (network_interfaces.rs:123-124).
THEOREM TypeCorrect == Spec => []TypeOK
<1>1. IInv => TypeOK
  BY DEF IInv
<1>2. QED
  BY <1>1, InvAlways, PTL

\* Every block is freed on every path.
THEOREM NoLeak == Spec => []HeapBalanced
<1>1. IInv => HeapBalanced
  BY DEF IInv
<1>2. QED
  BY <1>1, InvAlways, PTL

\* The sizes asked for double with every retry.
THEOREM Doubling == Spec => []SizesDouble
<1>1. IInv => SizesDouble
  BY DEF IInv
<1>2. QED
  BY <1>1, InvAlways, PTL

\* A call retries at most 1 + log2(MaxNeed / Working) times.
THEOREM FewRetries == Spec => []RetriesBounded
<1>1. IInv => RetriesBounded
  BY DEF IInv
<1>2. QED
  BY <1>1, InvAlways, PTL

-----------------------------------------------------------------------------
(* The bits of a netmask.                                                  *)

Pow(k) == 2^k

LEMMA PowValues ==
    /\ Pow(0) = 1 /\ Pow(1) = 2 /\ Pow(2) = 4 /\ Pow(3) = 8
    /\ Pow(4) = 16 /\ Pow(5) = 32 /\ Pow(6) = 64 /\ Pow(7) = 128
    /\ Pow(8) = 256 /\ Pow(9) = 512 /\ Pow(10) = 1024 /\ Pow(11) = 2048
    /\ Pow(12) = 4096 /\ Pow(13) = 8192 /\ Pow(14) = 16384 /\ Pow(15) = 32768
    /\ Pow(16) = 65536
BY DEF Pow

LEMMA UpToSeven ==
    \A k \in 0..7 : k = 0 \/ k = 1 \/ k = 2 \/ k = 3 \/ k = 4 \/ k = 5 \/ k = 6 \/ k = 7
OBVIOUS

\* Ones, shifted by n within the width, have a bit k if and only if k is not below n.
Shifted(width, ones, n, k) ==
    (((ones * Pow(n)) % Pow(width)) \div Pow(k)) % 2 = IF k >= n THEN 1 ELSE 0

LEMMA ShiftedOctet == \A n, k \in 0..7 : Shifted(8, 255, n, k)
<1> SUFFICES ASSUME NEW n \in 0..7, NEW k \in 0..7 PROVE Shifted(8, 255, n, k)
  OBVIOUS
<1>1. /\ n = 0 \/ n = 1 \/ n = 2 \/ n = 3 \/ n = 4 \/ n = 5 \/ n = 6 \/ n = 7
      /\ k = 0 \/ k = 1 \/ k = 2 \/ k = 3 \/ k = 4 \/ k = 5 \/ k = 6 \/ k = 7
  BY UpToSeven
<1>2. QED
  BY <1>1, PowValues DEF Shifted

LEMMA ShiftedWord == \A n, k \in 0..15 : Shifted(16, 65535, n, k)
<1> SUFFICES ASSUME NEW n \in 0..15, NEW k \in 0..15 PROVE Shifted(16, 65535, n, k)
  OBVIOUS
<1>1. /\ \/ n = 0 \/ n = 1 \/ n = 2 \/ n = 3 \/ n = 4 \/ n = 5 \/ n = 6 \/ n = 7
         \/ n = 8 \/ n = 9 \/ n = 10 \/ n = 11 \/ n = 12 \/ n = 13 \/ n = 14 \/ n = 15
      /\ \/ k = 0 \/ k = 1 \/ k = 2 \/ k = 3 \/ k = 4 \/ k = 5 \/ k = 6 \/ k = 7
         \/ k = 8 \/ k = 9 \/ k = 10 \/ k = 11 \/ k = 12 \/ k = 13 \/ k = 14 \/ k = 15
  OBVIOUS
<1>2. QED
  BY <1>1, PowValues, SMTT(60) DEF Shifted

\* A width that the code uses, with its ones.
Width(w) == (w = 8 /\ Pow(w) - 1 = 255) \/ (w = 16 /\ Pow(w) - 1 = 65535)

LEMMA Widths == Width(8) /\ Width(16)
BY PowValues DEF Width

\* wrapping_shl of all ones: by the whole width it does nothing.
LEMMA ShlBits ==
    ASSUME NEW w, Width(w), NEW d \in 1..w, NEW k \in 0..w - 1
    PROVE  (Shl(2^w - 1, d, w) \div 2^k) % 2 = IF d = w \/ k >= d THEN 1 ELSE 0
<1> DEFINE n == d % w
<1>1. n \in 0..w - 1 /\ (d = w => n = 0) /\ (d # w => n = d)
  BY DEF Width
<1>2. Shl(2^w - 1, d, w) = ((Pow(w) - 1) * Pow(n)) % Pow(w)
  BY DEF Shl, Pow
<1> HIDE DEF n
<1>3. Shifted(w, Pow(w) - 1, n, k)
  <2>1. CASE w = 8
    BY <1>1, <2>1, ShiftedOctet DEF Width
  <2>2. CASE w = 16
    BY <1>1, <2>2, ShiftedWord DEF Width
  <2>3. QED
    BY <2>1, <2>2 DEF Width
<1>4. (Shl(2^w - 1, d, w) \div 2^k) % 2 = IF k >= n THEN 1 ELSE 0
  <2>1. (Shl(2^w - 1, d, w) \div Pow(k)) % 2 = IF k >= n THEN 1 ELSE 0
    BY <1>2, <1>3 DEF Shifted
  <2>2. QED
    BY <2>1 DEF Pow
<1>5. QED
  BY <1>1, <1>4

\* A bit of all ones.
LEMMA OnesBits ==
    ASSUME NEW w, Width(w), NEW k \in 0..w - 1
    PROVE  ((2^w - 1) \div 2^k) % 2 = 1
<1>1. w \in 1..w /\ Pow(w) - 1 \in 0..Pow(w) - 1 /\ Pow(w) \in Nat \ {0}
  BY PowValues DEF Width
<1>2. Shl(2^w - 1, w, w) = 2^w - 1
  <2>1. w % w = 0
    BY DEF Width
  <2>2. Shl(2^w - 1, w, w) = ((Pow(w) - 1) * Pow(0)) % Pow(w)
    BY <2>1 DEF Shl, Pow
  <2>3. ((Pow(w) - 1) * 1) % Pow(w) = Pow(w) - 1
    BY PowValues DEF Width
  <2>4. QED
    BY <2>2, <2>3, PowValues DEF Pow
<1>3. (Shl(2^w - 1, w, w) \div 2^k) % 2 = 1
  BY <1>1, ShlBits
<1>4. QED
  BY <1>2, <1>3

\* Bit j of a group, counted from the first, is set if the prefix goes beyond it.
LEMMA GroupBits ==
    ASSUME NEW w, Width(w), NEW idx \in 0..7, NEW bits \in 0..255, NEW j \in 0..w - 1
    PROVE  (MaskGroup(bits, idx, w) \div 2^(w - 1 - j)) % 2
             = IF idx * w + j < bits THEN 1 ELSE 0
<1> DEFINE k == w - 1 - j
           group == MaskGroup(bits, idx, w)
           goal == (group \div 2^k) % 2 = IF idx * w + j < bits THEN 1 ELSE 0
<1>1. w \in {8, 16} /\ k \in 0..w - 1
  BY DEF Width
<1>2. CASE bits > idx * w + w
  <2>1. ~(bits <= idx * w + w) /\ ~(bits <= idx * w)
    BY <1>1, <1>2
  <2>11. group = 2^w - 1
    BY <1>2, <2>1 DEF MaskGroup
  <2>2. idx * w + j < bits
    BY <1>1, <1>2
  <2>3. ((2^w - 1) \div 2^k) % 2 = 1
    BY <1>1, OnesBits
  <2> HIDE DEF group, k
  <2>4. goal
    BY <2>11, <2>2, <2>3
  <2>5. QED
    BY <2>4 DEF group, k
<1>3. CASE bits > idx * w /\ bits <= idx * w + w
  <2> DEFINE d == w - (bits % w)
  <2>1. group = Shl(2^w - 1, d, w)
    BY <1>1, <1>3 DEF MaskGroup
  <2>2. d \in 1..w /\ (d = w <=> bits = idx * w + w) /\ (d # w => d = idx * w + w - bits)
    BY <1>1, <1>3
  <2> HIDE DEF group, d
  <2>3. (Shl(2^w - 1, d, w) \div 2^k) % 2 = IF d = w \/ k >= d THEN 1 ELSE 0
    BY <1>1, <2>2, ShlBits
  <2>4. idx * w + j < bits <=> d = w \/ k >= d
    BY <1>1, <1>3, <2>2
  <2> HIDE DEF k
  <2>5. goal
    BY <2>1, <2>3, <2>4
  <2>6. QED
    BY <2>5 DEF group, k
<1>4. CASE bits <= idx * w
  <2>1. group = 0
    BY <1>1, <1>4 DEF MaskGroup
  <2>2. ~(idx * w + j < bits)
    BY <1>1, <1>4
  <2>3. Pow(k) \in Nat \ {0}
    <3>1. \A i \in 0..15 : i \in 0..7 \/ i - 8 \in 0..7
      OBVIOUS
    <3>2. k \in 0..15
      BY <1>1
    <3> HIDE DEF k
    <3>3. \/ k = 0 \/ k = 1 \/ k = 2 \/ k = 3 \/ k = 4 \/ k = 5 \/ k = 6 \/ k = 7
          \/ k = 8 \/ k = 9 \/ k = 10 \/ k = 11 \/ k = 12 \/ k = 13 \/ k = 14 \/ k = 15
      BY <3>2
    <3>4. QED
      BY <3>3, PowValues
  <2> HIDE DEF group, k
  <2>4. (0 \div Pow(k)) % 2 = 0
    BY <2>3
  <2>5. goal
    BY <2>1, <2>2, <2>4 DEF Pow
  <2>6. QED
    BY <2>5 DEF group, k
<1>5. QED
  BY <1>1, <1>2, <1>3, <1>4

\* Every bit of a netmask, of IPv4 with 4 groups of 8 or of IPv6 with 8 of 16.
LEMMA MaskBits ==
    ASSUME NEW w, Width(w), NEW n \in {4, 8}, NEW bits \in 0..255, NEW i \in 0..n * w - 1
    PROVE  BitAt([idx \in 0..n - 1 |-> MaskGroup(bits, idx, w)], w, i)
             = IF i < bits THEN 1 ELSE 0
<1> DEFINE idx == i \div w
           j == i % w
<1>1. idx \in 0..n - 1 /\ idx \in 0..7 /\ j \in 0..w - 1 /\ i = idx * w + j
  <2>1. CASE w = 8
    BY <2>1
  <2>2. CASE w = 16
    BY <2>2
  <2>3. QED
    BY <2>1, <2>2 DEF Width
<1> DEFINE mask == [g \in 0..n - 1 |-> MaskGroup(bits, g, w)]
<1>2. BitAt(mask, w, i) = (mask[idx] \div 2^(w - 1 - j)) % 2
  BY DEF BitAt
<1> HIDE DEF idx, j
<1>3. mask[idx] = MaskGroup(bits, idx, w)
  BY <1>1
<1>4. (MaskGroup(bits, idx, w) \div 2^(w - 1 - j)) % 2 = IF idx * w + j < bits THEN 1 ELSE 0
  BY <1>1, GroupBits
<1>5. QED
  BY <1>1, <1>2, <1>3, <1>4

\* The netmask is right for every length of the prefix, 0 and 255 included.
LEMMA ParsedMask ==
    ASSUME NEW family \in Families, NEW data, NEW bits \in 0..255
    PROVE  MaskCorrect(ParseAddrAndNetmask(family, data, bits), bits)
<1> DEFINE parsed == ParseAddrAndNetmask(family, data, bits)
<1>1. CASE family = "other"
  BY <1>1 DEF MaskCorrect, ParseAddrAndNetmask
<1>2. CASE family = "v4"
  <2>1. parsed.family = "v4" /\ parsed.netmask = IF bits <= 32 THEN NetmaskV4(bits) ELSE Empty
    BY <1>2 DEF ParseAddrAndNetmask
  <2>2. NetmaskV4(bits) = [idx \in 0..4 - 1 |-> MaskGroup(bits, idx, 8)]
    BY DEF NetmaskV4
  <2>3. \A i \in 0..32 - 1 : BitAt(NetmaskV4(bits), 8, i) = IF i < bits THEN 1 ELSE 0
    <3>1. 4 \in {4, 8} /\ 4 * 8 - 1 = 32 - 1
      OBVIOUS
    <3>2. \A i \in 0..4 * 8 - 1 :
            BitAt([idx \in 0..4 - 1 |-> MaskGroup(bits, idx, 8)], 8, i)
              = IF i < bits THEN 1 ELSE 0
      BY <3>1, Widths, MaskBits
    <3>3. QED
      BY <2>2, <3>1, <3>2
  <2> HIDE DEF parsed
  <2>4. MaskCorrect(parsed, bits)
    BY <2>1, <2>3 DEF MaskCorrect, GroupWidth
  <2>5. QED
    BY <2>4 DEF parsed
<1>3. CASE family = "v6"
  <2>1. parsed.family = "v6" /\ parsed.netmask = IF bits <= 128 THEN NetmaskV6(bits) ELSE Empty
    BY <1>3 DEF ParseAddrAndNetmask
  <2>2. NetmaskV6(bits) = [idx \in 0..8 - 1 |-> MaskGroup(bits, idx, 16)]
    BY DEF NetmaskV6
  <2>3. \A i \in 0..128 - 1 : BitAt(NetmaskV6(bits), 16, i) = IF i < bits THEN 1 ELSE 0
    <3>1. 8 \in {4, 8} /\ 8 * 16 - 1 = 128 - 1
      OBVIOUS
    <3>2. \A i \in 0..8 * 16 - 1 :
            BitAt([idx \in 0..8 - 1 |-> MaskGroup(bits, idx, 16)], 16, i)
              = IF i < bits THEN 1 ELSE 0
      BY <3>1, Widths, MaskBits
    <3>3. QED
      BY <2>2, <3>1, <3>2
  <2> HIDE DEF parsed
  <2>4. MaskCorrect(parsed, bits)
    BY <2>1, <2>3 DEF MaskCorrect, GroupWidth
  <2>5. QED
    BY <2>4 DEF parsed
<1>4. QED
  BY <1>1, <1>2, <1>3 DEF Families

\* The double reversal puts the bytes of an IPv6 address into network order.
LEMMA ParsedInOrder ==
    ASSUME NEW family \in Families, NEW data \in [0..15 -> 0..255], NEW bits
    PROVE  OrderCorrect(ParseAddrAndNetmask(family, data, bits), data)
<1>1. CASE family # "v6"
  BY <1>1 DEF OrderCorrect, ParseAddrAndNetmask, Families
<1>2. CASE family = "v6"
  <2>1. ParseAddrAndNetmask(family, data, bits).addr = AddrV6(data)
    BY <1>2 DEF ParseAddrAndNetmask
  <2> DEFINE reversed == [i \in 0..15 |-> data[15 - i]]
             words    == [k \in 0..7 |-> reversed[2 * k] + 256 * reversed[2 * k + 1]]
  <2>2. \A i \in 0..7 : AddrV6(data)[i] = words[7 - i]
    BY DEF AddrV6
  <2>3. \A k \in 0..7 : words[k] = reversed[2 * k] + 256 * reversed[2 * k + 1]
    OBVIOUS
  <2>4. \A i \in 0..15 : reversed[i] = data[15 - i]
    OBVIOUS
  <2> HIDE DEF reversed, words
  <2>5. ASSUME NEW i \in 0..7
        PROVE  AddrV6(data)[i] = 256 * data[2 * i] + data[2 * i + 1]
    <3>1. AddrV6(data)[i] = reversed[14 - 2 * i] + 256 * reversed[15 - 2 * i]
      <4>1. 7 - i \in 0..7 /\ 2 * (7 - i) = 14 - 2 * i /\ 2 * (7 - i) + 1 = 15 - 2 * i
        OBVIOUS
      <4>2. QED
        BY <2>2, <2>3, <4>1
    <3>2. /\ 14 - 2 * i \in 0..15 /\ 15 - (14 - 2 * i) = 2 * i + 1
          /\ 15 - 2 * i \in 0..15 /\ 15 - (15 - 2 * i) = 2 * i
      OBVIOUS
    <3>3. reversed[14 - 2 * i] = data[2 * i + 1] /\ reversed[15 - 2 * i] = data[2 * i]
      BY <2>4, <3>2
    <3>4. data[2 * i] \in Int /\ data[2 * i + 1] \in Int
      OBVIOUS
    <3>5. QED
      BY <3>1, <3>3, <3>4
  <2>6. QED
    BY <2>1, <2>5 DEF OrderCorrect
<1>3. QED
  BY <1>1, <1>2

-----------------------------------------------------------------------------
(* What get() returns.                                                     *)

LEMMA AddressStep == AddressCorrect /\ [Next]_vars => AddressCorrect'
<1> SUFFICES ASSUME AddressCorrect, [Next]_vars PROVE AddressCorrect'
  OBVIOUS
<1>1. ASSUME NEW family \in Families, NEW data \in Samples, NEW bits \in Prefixes,
             Walk(family, data, bits)
      PROVE  AddressCorrect'
  <2>1. /\ ret'.data = data
        /\ ret'.bits = bits
        /\ ret'.parsed = ParseAddrAndNetmask(family, data, bits)
    BY <1>1 DEF Walk, Return
  <2>2. data \in [0..15 -> 0..255] /\ bits \in 0..255
    BY ConstantsAssumption
  <2>3. OrderCorrect(ParseAddrAndNetmask(family, data, bits), data)
    BY <2>2, ParsedInOrder
  <2>4. MaskCorrect(ParseAddrAndNetmask(family, data, bits), bits)
    BY <2>2, ParsedMask
  <2>5. QED
    BY <2>1, <2>3, <2>4 DEF AddressCorrect
<1>2. CASE UNCHANGED ret
  BY <1>2 DEF AddressCorrect
<1>3. CASE Call \/ QueryFails
  BY <1>3 DEF Call, QueryFails, Return, Outcome, AddressCorrect
<1>4. QED
  BY <1>1, <1>2, <1>3
     DEF Next, Get, Resize, Malloc, MallocFails, Success, Overflow, vars

\* Every address that get() returns has the netmask of its prefix, for every length
\* from 0 to 255, and an IPv6 address has its bytes in network order, whatever the
\* bytes (network_interfaces.rs:201-286).
THEOREM AddressesCorrect == Spec => []AddressCorrect
<1>1. Init => AddressCorrect
  BY DEF Init, Outcome, AddressCorrect
<1>2. QED
  BY <1>1, AddressStep, PTL DEF Spec

-----------------------------------------------------------------------------

\* The drives.
Shown == Media \cup {NoMedium}

\* What the outside is, and what of it the call has seen: seen grows with every
\* outside event, so that it holds what is there now.
OutsideSeen ==
    /\ present \subseteq Drive
    /\ medium \in [Drive -> Shown]
    /\ seen \in [lists : SUBSET SUBSET Drive, media : SUBSET (Drive \X Shown), calm : BOOLEAN]
    /\ step # "returned" =>
        /\ result = "nothing"
        /\ present \in seen.lists
        /\ \A d \in Drive : <<d, IF d \in present THEN medium[d] ELSE NoMedium>> \in seen.media

Asking == step \in {"volume", "type", "space"}

\* What the call knows at each of its steps.
CallKnows ==
    /\ step \in {"returned", "list", "drive"} \/ Asking
    /\ step = "list" => vec = {} /\ (seen.calm => length = Drives!ListLength)
    /\ step = "list" /\ length = 0 => {} \in seen.lists
    /\ Asking => at \in Drive
    /\ Asking /\ seen.calm => at \in present
    /\ step = "type" => <<at, NoMedium>> \in seen.media
    /\ step = "space" => <<at, label>> \in seen.media

\* The entries, the drive being asked and those left are the list.
ListVisited ==
    /\ step = "drive" => {e.drive : e \in vec} \cup left \in seen.lists
    /\ Asking => {e.drive : e \in vec} \cup left \cup {at} \in seen.lists
    /\ step # "returned" /\ step # "list" /\ seen.calm => left \subseteq present

\* Every entry was there.
EntrySeen(e) ==
    IF e.numbers = NoMedium
    THEN e.drive \notin Fixed /\ <<e.drive, NoMedium>> \in seen.media
    ELSE {<<e.drive, e.label>>, <<e.drive, e.numbers>>} \subseteq seen.media

DrivesInv ==
    /\ OutsideSeen
    /\ CallKnows
    /\ ListVisited
    /\ \A e \in vec : EntrySeen(e)
    /\ DrivesHonest

LEMMA DrivesInit == Drives!Init => DrivesInv
<1> USE DrivesAssumption DEF Drives!DrivesAssumption
<1> SUFFICES ASSUME Drives!Init PROVE DrivesInv
  OBVIOUS
<1>1. /\ present \subseteq Drive /\ medium \in [Drive -> Shown]
      /\ step = "returned" /\ vec = {} /\ result = "nothing"
      /\ seen = Drives!Glance(present, medium)
  BY DEF Drives!Init, Shown
<1>2. OutsideSeen
  BY <1>1 DEF OutsideSeen, Drives!Glance, Shown
<1>3. QED
  BY <1>1, <1>2 DEF DrivesInv, CallKnows, Asking, ListVisited, DrivesHonest,
                    Drives!Honest, Drives!FailsForReason

\* An outside event adds to what the call has seen, and ends the calm.
LEMMA OutsideStep ==
    ASSUME DrivesInv, NEW p \in SUBSET Drive, NEW m \in [Drive -> Shown],
           Drives!Outside(p, m)
    PROVE  DrivesInv'
<1> DEFINE glance == Drives!Glance(p, m)
<1>1. /\ present' = p /\ medium' = m
      /\ UNCHANGED <<step, length, left, at, label, vec, result>>
  BY DEF Drives!Outside
<1>2. CASE step = "returned"
  <2>1. seen' = seen
    BY <1>2 DEF Drives!Outside
  <2>2. OutsideSeen'
    BY <1>1, <1>2, <2>1 DEF DrivesInv, OutsideSeen
  <2>3. CallKnows' /\ ListVisited'
    BY <1>1, <1>2 DEF CallKnows, ListVisited, Asking
  <2>4. DrivesHonest' /\ \A e \in vec' : EntrySeen(e)'
    BY <1>1, <2>1 DEF DrivesInv, DrivesHonest, Drives!Honest, Drives!FailsForReason, EntrySeen
  <2>5. QED
    BY <2>2, <2>3, <2>4 DEF DrivesInv
<1>3. CASE step # "returned"
  <2>1. /\ seen'.lists = seen.lists \cup {p}
        /\ seen'.media = seen.media
             \cup {<<d, IF d \in p THEN m[d] ELSE NoMedium>> : d \in Drive}
        /\ seen'.calm = FALSE
        /\ seen' \in [lists : SUBSET SUBSET Drive, media : SUBSET (Drive \X Shown),
                      calm : BOOLEAN]
    <3>1. seen' = [lists |-> seen.lists \cup glance.lists,
                   media |-> seen.media \cup glance.media,
                   calm  |-> FALSE]
      BY <1>3 DEF Drives!Outside
    <3>2. seen.lists \subseteq SUBSET Drive /\ seen.media \subseteq Drive \X Shown
      BY DEF DrivesInv, OutsideSeen
    <3>3. {<<d, IF d \in p THEN m[d] ELSE NoMedium>> : d \in Drive} \subseteq Drive \X Shown
      BY DEF Shown
    <3>4. QED
      BY <3>1, <3>2, <3>3 DEF Drives!Glance
  <2>2. OutsideSeen'
    BY <1>1, <1>3, <2>1 DEF DrivesInv, OutsideSeen
  <2>3. CallKnows' /\ ListVisited'
    BY <1>1, <1>3, <2>1 DEF DrivesInv, CallKnows, ListVisited, Asking
  <2>4. \A e \in vec' : EntrySeen(e)'
    BY <1>1, <2>1 DEF DrivesInv, EntrySeen
  <2>5. DrivesHonest'
    BY <1>1, <1>3 DEF DrivesInv, OutsideSeen, DrivesHonest, Drives!Honest,
                      Drives!FailsForReason
  <2>6. QED
    BY <2>2, <2>3, <2>4, <2>5 DEF DrivesInv
<1>4. QED
  BY <1>2, <1>3

LEMMA GlanceType ==
    ASSUME present \subseteq Drive, medium \in [Drive -> Shown]
    PROVE  Drives!Glance(present, medium)
            \in [lists : SUBSET SUBSET Drive, media : SUBSET (Drive \X Shown), calm : BOOLEAN]
<1>1. {<<d, IF d \in present THEN medium[d] ELSE NoMedium>> : d \in Drive}
        \subseteq Drive \X Shown
  BY DEF Shown
<1>2. QED
  BY <1>1 DEF Drives!Glance

\* A new call has seen what is there.
LEMMA AskLengthStep == DrivesInv /\ Drives!AskLength => DrivesInv'
<1> SUFFICES ASSUME DrivesInv, Drives!AskLength PROVE DrivesInv'
  OBVIOUS
<1>1. /\ step' = "list" /\ length' = Drives!ListLength /\ vec' = {} /\ result' = "nothing"
      /\ seen' = Drives!Glance(present, medium)
      /\ UNCHANGED <<present, medium>>
  BY DEF Drives!AskLength, Drives!outside
<1>2. Drives!ListLength' = Drives!ListLength
  BY <1>1 DEF Drives!ListLength
<1>3. OutsideSeen'
  <2>1. present \subseteq Drive /\ medium \in [Drive -> Shown]
    BY DEF DrivesInv, OutsideSeen
  <2>2. {<<d, IF d \in present THEN medium[d] ELSE NoMedium>> : d \in Drive}
            \subseteq Drive \X Shown
    BY <2>1 DEF Shown
  <2>3. QED
    BY <1>1, <2>1, <2>2 DEF OutsideSeen, Drives!Glance
<1>4. length' = 0 => {} \in seen'.lists
  <2>1. present \in SUBSET Drive /\ IsFiniteSet(Drive)
    BY DrivesAssumption
       DEF Drives!DrivesAssumption, Drives!IsFiniteSet, IsFiniteSet, DrivesInv, OutsideSeen
  <2>2. IsFiniteSet(present)
    BY <2>1, FS_Subset
  <2>3. Cardinality(present) = 0 => present = {}
    BY <2>2, FS_EmptySet
  <2>4. seen'.lists = {present}
    BY <1>1 DEF Drives!Glance
  <2>5. Drives!ListLength = Cardinality(present)
    BY Zenon DEF Drives!ListLength, Drives!Cardinality, Cardinality
  <2>6. QED
    BY <1>1, <2>3, <2>4, <2>5
<1>5. CallKnows' /\ ListVisited'
  BY <1>1, <1>2, <1>4 DEF CallKnows, ListVisited, Asking
<1>6. DrivesHonest' /\ \A e \in vec' : EntrySeen(e)'
  BY <1>1 DEF DrivesHonest, Drives!Honest, Drives!FailsForReason
<1>7. QED
  BY <1>3, <1>5, <1>6 DEF DrivesInv

\* The list is one that is there now.
LEMMA AskListStep == DrivesInv /\ Drives!AskList => DrivesInv'
<1> SUFFICES ASSUME DrivesInv, Drives!AskList PROVE DrivesInv'
  OBVIOUS
<1>1. /\ step = "list" /\ step' = "drive" /\ left' = present
      /\ UNCHANGED <<present, medium, length, at, label, vec, result, seen>>
  BY DEF Drives!AskList, Drives!outside
<1>2. vec = {} /\ present \in seen.lists
  BY <1>1 DEF DrivesInv, CallKnows, OutsideSeen
<1>3. OutsideSeen' /\ CallKnows'
  BY <1>1 DEF DrivesInv, OutsideSeen, CallKnows, Asking
<1>4. ListVisited'
  <2>1. {e.drive : e \in vec'} \cup left' = present
    BY <1>1, <1>2
  <2>2. QED
    BY <1>1, <1>2, <2>1 DEF ListVisited, Asking
<1>5. DrivesHonest' /\ \A e \in vec' : EntrySeen(e)'
  BY <1>1, <1>2 DEF DrivesInv, OutsideSeen, DrivesHonest, Drives!Honest,
                    Drives!FailsForReason
<1>6. QED
  BY <1>3, <1>4, <1>5 DEF DrivesInv

\* A failure for a reason is allowed; the entries are gone.
LEMMA FailStep ==
    ASSUME DrivesInv, Drives!Fail,
           seen' \in [lists : SUBSET SUBSET Drive, media : SUBSET (Drive \X Shown),
                      calm : BOOLEAN],
           ~seen'.calm \/ \E d \in Fixed : <<d, NoMedium>> \in seen'.media
    PROVE  DrivesInv'
<1>1. step' = "returned" /\ vec' = {} /\ result' = "err" /\ UNCHANGED <<present, medium>>
  BY DEF Drives!Fail, Drives!outside
<1>2. OutsideSeen'
  BY <1>1 DEF DrivesInv, OutsideSeen
<1>3. QED
  BY <1>1, <1>2 DEF DrivesInv, CallKnows, ListVisited, Asking, DrivesHonest, Drives!Honest,
                    Drives!FailsForReason

\* A failure where no drive was announced is the list of none.
LEMMA EmptyListStep ==
    ASSUME DrivesInv, Drives!ListFails, ~Drives!Fail
    PROVE  DrivesInv'
<1>1. /\ step = "list" /\ length = 0 /\ left' = {} /\ step' = "drive"
      /\ UNCHANGED <<present, medium, length, at, label, vec, result>>
      /\ seen' = [seen EXCEPT !.calm = FALSE]
  BY DEF Drives!ListFails, Drives!outside
<1>2. vec = {} /\ {} \in seen.lists /\ result = "nothing"
  BY <1>1 DEF DrivesInv, CallKnows, OutsideSeen
<1>3. seen'.lists = seen.lists /\ seen'.media = seen.media /\ seen'.calm = FALSE
  BY <1>1 DEF DrivesInv, OutsideSeen
<1>4. OutsideSeen'
  BY <1>1, <1>3 DEF DrivesInv, OutsideSeen
<1>5. CallKnows' /\ ListVisited'
  BY <1>1, <1>2, <1>3 DEF CallKnows, ListVisited, Asking
<1>6. DrivesHonest' /\ \A e \in vec' : EntrySeen(e)'
  BY <1>1, <1>2 DEF DrivesHonest, Drives!Honest, Drives!FailsForReason
<1>7. QED
  BY <1>4, <1>5, <1>6 DEF DrivesInv

\* The next drive goes from those left to the one being asked.
LEMMA VisitStep ==
    ASSUME DrivesInv, NEW d \in left, Drives!Visit(d)
    PROVE  DrivesInv'
<1>1. /\ step = "drive" /\ left' = left \ {d} /\ at' = d /\ step' = "volume"
      /\ UNCHANGED <<present, medium, length, label, vec, result, seen>>
  BY DEF Drives!Visit, Drives!outside
<1>2. {e.drive : e \in vec} \cup left \in seen.lists /\ (seen.calm => left \subseteq present)
  BY <1>1 DEF DrivesInv, ListVisited
<1>3. d \in Drive
  BY <1>2 DEF DrivesInv, OutsideSeen
<1>4. OutsideSeen' /\ CallKnows'
  BY <1>1, <1>2, <1>3 DEF DrivesInv, OutsideSeen, CallKnows, Asking
<1>5. ListVisited'
  <2>1. {e.drive : e \in vec} \cup left' \cup {at'} = {e.drive : e \in vec} \cup left
    BY <1>1
  <2>2. QED
    BY <1>1, <1>2, <2>1 DEF ListVisited, Asking
<1>6. DrivesHonest' /\ \A e \in vec' : EntrySeen(e)'
  BY <1>1 DEF DrivesInv, OutsideSeen, DrivesHonest, Drives!Honest, Drives!FailsForReason,
              EntrySeen
<1>7. QED
  BY <1>4, <1>5, <1>6 DEF DrivesInv

\* The label is the one of the medium that is in the drive now.
LEMMA VolumeStep == DrivesInv /\ Drives!Volume => DrivesInv'
<1> SUFFICES ASSUME DrivesInv, Drives!Volume PROVE DrivesInv'
  OBVIOUS
<1>1. /\ step = "volume" /\ step' = "space" /\ label' = medium[at]
      /\ UNCHANGED <<present, medium, length, left, at, vec, result, seen>>
  BY DEF Drives!Volume, Drives!outside
<1>2. <<at, label'>> \in seen.media
  BY <1>1 DEF Drives!Volume, Drives!Readable, DrivesInv, OutsideSeen, CallKnows, Asking
<1>3. OutsideSeen' /\ CallKnows' /\ ListVisited'
  BY <1>1, <1>2 DEF DrivesInv, OutsideSeen, CallKnows, ListVisited, Asking
<1>4. DrivesHonest' /\ \A e \in vec' : EntrySeen(e)'
  BY <1>1 DEF DrivesInv, OutsideSeen, DrivesHonest, Drives!Honest, Drives!FailsForReason,
              EntrySeen
<1>5. QED
  BY <1>3, <1>4 DEF DrivesInv

\* A volume that cannot be read counts as seen, whatever the reason.
LEMMA VolumeFailsStep == DrivesInv /\ Drives!VolumeFails => DrivesInv'
<1> SUFFICES ASSUME DrivesInv, Drives!VolumeFails PROVE DrivesInv'
  OBVIOUS
<1>1. /\ step = "volume" /\ step' = "type"
      /\ UNCHANGED <<present, medium, length, left, at, label, vec, result>>
  BY DEF Drives!VolumeFails, Drives!outside
<1>2. /\ at \in Drive /\ medium \in [Drive -> Shown]
      /\ seen \in [lists : SUBSET SUBSET Drive, media : SUBSET (Drive \X Shown), calm : BOOLEAN]
      /\ <<at, IF at \in present THEN medium[at] ELSE NoMedium>> \in seen.media
  BY <1>1 DEF DrivesInv, OutsideSeen, CallKnows, Asking
<1>3. /\ seen'.lists = seen.lists
      /\ seen.media \subseteq seen'.media
      /\ <<at, NoMedium>> \in seen'.media
      /\ seen'.calm => seen.calm
      /\ seen' \in [lists : SUBSET SUBSET Drive, media : SUBSET (Drive \X Shown), calm : BOOLEAN]
  <2>1. CASE Drives!Readable
    <3>1. seen' = [seen EXCEPT !.media = @ \cup {<<at, NoMedium>>}, !.calm = FALSE]
      BY <2>1 DEF Drives!VolumeFails
    <3>2. seen' = [lists |-> seen.lists, media |-> seen.media \cup {<<at, NoMedium>>},
                   calm |-> FALSE]
      BY <1>2, <3>1
    <3>3. <<at, NoMedium>> \in Drive \X Shown
      BY <1>2 DEF Shown
    <3>4. seen.media \cup {<<at, NoMedium>>} \subseteq Drive \X Shown
      BY <1>2, <3>3
    <3>5. QED
      BY <3>2, <3>4, <1>2
  <2>2. CASE ~Drives!Readable
    <3>1. seen' = seen
      BY <2>2 DEF Drives!VolumeFails
    <3>2. <<at, NoMedium>> \in seen.media
      BY <1>2, <2>2 DEF Drives!Readable
    <3>3. QED
      BY <1>2, <3>1, <3>2
  <2>3. QED
    BY <2>1, <2>2
<1>4. OutsideSeen'
  BY <1>1, <1>3 DEF DrivesInv, OutsideSeen
<1>5. CallKnows' /\ ListVisited'
  BY <1>1, <1>3 DEF DrivesInv, CallKnows, ListVisited, Asking
<1>6. \A e \in vec' : EntrySeen(e)'
  BY <1>1, <1>3 DEF DrivesInv, EntrySeen
<1>7. DrivesHonest'
  BY <1>1 DEF DrivesInv, OutsideSeen, DrivesHonest, Drives!Honest, Drives!FailsForReason
<1>8. QED
  BY <1>4, <1>5, <1>6, <1>7 DEF DrivesInv

\* An entry that was seen joins the others.
LEMMA PushStep ==
    ASSUME DrivesInv, Asking, NEW l, NEW numbers, Drives!Push(l, numbers),
           EntrySeen([drive |-> at, label |-> l, numbers |-> numbers])
    PROVE  DrivesInv'
<1> DEFINE entry == [drive |-> at, label |-> l, numbers |-> numbers]
<1>1. /\ vec' = vec \cup {entry} /\ step' = "drive"
      /\ UNCHANGED <<present, medium, length, left, result, seen>>
  BY DEF Drives!Push, Drives!outside
<1>2. OutsideSeen' /\ CallKnows'
  BY <1>1 DEF DrivesInv, OutsideSeen, CallKnows, Asking
<1>3. ListVisited'
  <2>1. {e.drive : e \in vec'} = {e.drive : e \in vec} \cup {at}
    <3>1. entry.drive = at
      OBVIOUS
    <3> HIDE DEF entry
    <3>2. QED
      BY <1>1, <3>1
  <2>2. {e.drive : e \in vec} \cup left \cup {at} \in seen.lists
    BY DEF DrivesInv, ListVisited
  <2>3. {e.drive : e \in vec'} \cup left' = {e.drive : e \in vec} \cup left \cup {at}
    BY <1>1, <2>1
  <2>4. seen.calm => left \subseteq present
    BY DEF DrivesInv, ListVisited, Asking
  <2>5. QED
    BY <1>1, <2>2, <2>3, <2>4 DEF ListVisited, Asking
<1>4. \A e \in vec' : EntrySeen(e)'
  <2>1. \A e : EntrySeen(e)' = EntrySeen(e)
    BY <1>1 DEF EntrySeen
  <2> HIDE DEF entry
  <2>2. EntrySeen(entry)
    BY DEF entry
  <2>3. QED
    BY <1>1, <2>1, <2>2 DEF DrivesInv
<1>5. DrivesHonest'
  BY <1>1 DEF DrivesInv, OutsideSeen, Asking, DrivesHonest, Drives!Honest,
              Drives!FailsForReason
<1>6. QED
  BY <1>2, <1>3, <1>4, <1>5 DEF DrivesInv

\* drives() returns the list with every drive visited.
LEMMA ReturnStep == DrivesInv /\ Drives!Return => DrivesInv'
<1> SUFFICES ASSUME DrivesInv, Drives!Return PROVE DrivesInv'
  OBVIOUS
<1>1. /\ step = "drive" /\ left = {} /\ step' = "returned" /\ result' = "ok"
      /\ UNCHANGED <<present, medium, left, at, label, vec, seen>>
  BY DEF Drives!Return, Drives!outside
<1>2. {e.drive : e \in vec} \in seen.lists
  <2>1. {e.drive : e \in vec} \cup left \in seen.lists
    BY <1>1 DEF DrivesInv, ListVisited
  <2>2. {e.drive : e \in vec} \cup left = {e.drive : e \in vec}
    BY <1>1
  <2>3. QED
    BY <2>1, <2>2
<1>3. OutsideSeen' /\ CallKnows' /\ ListVisited'
  BY <1>1 DEF DrivesInv, OutsideSeen, CallKnows, ListVisited, Asking
<1>4. \A e \in vec' : EntrySeen(e)'
  BY <1>1 DEF DrivesInv, EntrySeen
<1>5. DrivesHonest'
  <2>1. {e.drive : e \in vec'} \in seen'.lists
    BY <1>1, <1>2
  <2>2. QED
    BY <1>1, <1>4, <2>1 DEF DrivesHonest, Drives!Honest, Drives!FailsForReason, EntrySeen
<1>6. QED
  BY <1>3, <1>4, <1>5 DEF DrivesInv

LEMMA DrivesPreserved == DrivesInv /\ [Drives!Next]_(Drives!drivesVars) => DrivesInv'
<1> USE DrivesAssumption DEF Drives!DrivesAssumption
<1> SUFFICES ASSUME DrivesInv, [Drives!Next]_(Drives!drivesVars) PROVE DrivesInv'
  OBVIOUS
<1>0. /\ present \subseteq Drive /\ medium \in [Drive -> Shown]
      /\ seen \in [lists : SUBSET SUBSET Drive, media : SUBSET (Drive \X Shown), calm : BOOLEAN]
  BY DEF DrivesInv, OutsideSeen
<1>1. ASSUME NEW d \in Drive, Drives!Attach(d) \/ Drives!Detach(d)
      PROVE  DrivesInv'
  <2>1. present \cup {d} \in SUBSET Drive /\ present \ {d} \in SUBSET Drive
    BY <1>0
  <2>2. QED
    BY <1>0, <1>1, <2>1, OutsideStep DEF Drives!Attach, Drives!Detach
<1>2. ASSUME NEW d \in Drive, NEW m \in Media \cup {NoMedium}, Drives!Load(d, m)
      PROVE  DrivesInv'
  <2>1. [medium EXCEPT ![d] = m] \in [Drive -> Shown]
    BY <1>0 DEF Shown
  <2>2. QED
    BY <1>0, <1>2, <2>1, OutsideStep DEF Drives!Load
<1>3. CASE Drives!AskLength
  BY <1>3, AskLengthStep
<1>4. CASE Drives!AskList
  BY <1>4, AskListStep
<1>5. CASE Drives!LengthFails
  <2>1. Drives!Fail /\ seen' = [Drives!Glance(present, medium) EXCEPT !.calm = FALSE]
    BY <1>5 DEF Drives!LengthFails
  <2>2. Drives!Glance(present, medium)
            \in [lists : SUBSET SUBSET Drive, media : SUBSET (Drive \X Shown), calm : BOOLEAN]
    BY <1>0, GlanceType
  <2>3. QED
    BY <2>1, <2>2, FailStep
<1>6. CASE Drives!ListFails
  <2>1. seen' = [seen EXCEPT !.calm = FALSE]
    BY <1>6 DEF Drives!ListFails
  <2>2. CASE Drives!Fail
    BY <1>0, <2>1, <2>2, FailStep
  <2>3. CASE ~Drives!Fail
    BY <1>6, <2>3, EmptyListStep
  <2>4. QED
    BY <2>2, <2>3
<1>7. CASE Drives!ListChanged
  <2>1. Drives!Fail /\ seen' = seen /\ ~seen.calm
    BY <1>7 DEF Drives!ListChanged, DrivesInv, CallKnows
  <2>2. QED
    BY <1>0, <2>1, FailStep
<1>8. ASSUME NEW d \in left, Drives!Visit(d)
      PROVE  DrivesInv'
  BY <1>8, VisitStep
<1>9. CASE Drives!Volume
  BY <1>9, VolumeStep
<1>10. CASE Drives!VolumeFails
  BY <1>10, VolumeFailsStep
<1>11. CASE Drives!Type
  <2>1. Asking /\ at \in Drive \ Fixed /\ <<at, NoMedium>> \in seen.media
    BY <1>11 DEF Drives!Type, Drives!Removable, Asking, DrivesInv, CallKnows
  <2>2. PICK l \in Media \cup {NoMedium} : Drives!Push(l, NoMedium)
    BY <1>11 DEF Drives!Type
  <2>3. EntrySeen([drive |-> at, label |-> l, numbers |-> NoMedium])
    BY <2>1 DEF EntrySeen
  <2>4. QED
    BY <2>1, <2>2, <2>3, PushStep
<1>12. CASE Drives!TypeFails
  <2>1. /\ Drives!Fail /\ seen' = seen
        /\ at \in Drive /\ <<at, NoMedium>> \in seen.media
        /\ at \notin present \/ at \in Fixed
        /\ seen.calm => at \in present
    BY <1>12 DEF Drives!TypeFails, Drives!Removable, DrivesInv, CallKnows, Asking
  <2>2. QED
    BY <1>0, <2>1, FailStep
<1>13. CASE Drives!Space
  <2>1. Asking /\ at \in Drive /\ <<at, label>> \in seen.media
    BY <1>13 DEF Drives!Space, DrivesInv, CallKnows, Asking
  <2>2. medium[at] # NoMedium /\ <<at, medium[at]>> \in seen.media
    BY <1>13, <2>1 DEF Drives!Space, Drives!Readable, DrivesInv, OutsideSeen
  <2>3. EntrySeen([drive |-> at, label |-> label, numbers |-> medium[at]])
    BY <2>1, <2>2 DEF EntrySeen
  <2>4. QED
    BY <1>13, <2>1, <2>3, PushStep DEF Drives!Space
<1>14. CASE Drives!SpaceFails
  BY <1>0, <1>14, FailStep DEF Drives!SpaceFails
<1>15. CASE Drives!Return
  BY <1>15, ReturnStep
<1>16. CASE UNCHANGED Drives!drivesVars
  <2>1. UNCHANGED <<present, medium, step, length, left, at, label, vec, result, seen>>
    BY <1>16 DEF Drives!drivesVars, Drives!outside
  <2>2. Drives!ListLength' = Drives!ListLength
    BY <2>1 DEF Drives!ListLength
  <2>3. OutsideSeen' /\ CallKnows' /\ ListVisited'
    BY <2>1, <2>2 DEF DrivesInv, OutsideSeen, CallKnows, ListVisited, Asking
  <2>4. DrivesHonest' /\ \A e \in vec' : EntrySeen(e)'
    BY <2>1 DEF DrivesInv, DrivesHonest, Drives!Honest, Drives!FailsForReason, EntrySeen
  <2>5. QED
    BY <2>3, <2>4 DEF DrivesInv
<1>17. QED
  BY <1>1, <1>2, <1>3, <1>4, <1>7, <1>8, <1>9, <1>10, <1>11, <1>12, <1>13, <1>14, <1>15, <1>16,
     <1>5, <1>6 DEF Drives!Next

\* What drives() returns was there, the list at one moment and the label and the
\* sizes of every entry, and it fails only for a reason (disk.rs:13-119).
THEOREM DrivesCorrect == Drives!Spec => []DrivesHonest
<1>1. DrivesInv => DrivesHonest
  BY DEF DrivesInv
<1>2. DrivesInv /\ [Drives!Next]_(Drives!drivesVars) => DrivesInv'
  BY DrivesPreserved
<1>3. QED
  BY DrivesInit, <1>1, <1>2, PTL DEF Drives!Spec

\* The composition that the run checks is a behaviour of each of its parts.
THEOREM DevicesCompose == DevicesSpec => Spec /\ Drives!Spec
<1>1. DevicesInit => Init /\ Drives!Init
  BY DEF DevicesInit
<1>2. [DevicesNext]_<<component, vars, drivesState>> =>
        [Next]_vars /\ [Drives!Next]_(Drives!drivesVars)
  BY DEF DevicesNext, drivesState, Drives!drivesVars, Drives!outside
<1>3. QED
  BY <1>1, <1>2, PTL DEF DevicesSpec, Spec, Drives!Spec
=============================================================================
