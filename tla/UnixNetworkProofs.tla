------------------------- MODULE UnixNetworkProofs -------------------------
(***************************************************************************)
(* network_stats() of one interface: the bytes of a result are carried by  *)
(* its packets, and the results of one incarnation never go back, for      *)
(* packets of any size and any number of events.  The list of getifaddrs,  *)
(* of any length, comes out whole, and its counters once.                  *)
(***************************************************************************)
EXTENDS UnixNetwork, InductionFacts, SequenceTheorems, TLAPS

\* The six files, one by one.
LEMMA OrderAt ==
    /\ Order[1] = "rx_bytes" /\ Order[2] = "tx_bytes"
    /\ Order[3] = "rx_packets" /\ Order[4] = "tx_packets"
    /\ Order[5] = "rx_errors" /\ Order[6] = "tx_errors"
BY DEF Order

LEMMA OrderType == \A i \in 1..6 : Order[i] \in Counter
BY OrderAt DEF Counter

\* A read adds one counter to those that have been read; after the sixth all
\* of them have.
LEMMA DoneGrows ==
    ASSUME next \in 1..6
    PROVE  /\ Order[next] \notin Done
           /\ {Order[i] : i \in 1..next} = Done \cup {Order[next]}
           /\ next = 6 => Done \cup {Order[next]} = Counter
<1>1. Done = {Order[i] : i \in 1..next - 1}
  BY DEF Done
<1>2. \A i, j \in 1..6 : i # j => Order[i] # Order[j]
  BY OrderAt
<1>3. Order[next] \notin Done
  BY <1>1, <1>2
<1>4. {Order[i] : i \in 1..next} = Done \cup {Order[next]}
  BY <1>1
<1>5. ASSUME next = 6 PROVE Done \cup {Order[next]} = Counter
  <2>1. Done \cup {Order[6]} = {Order[i] : i \in 1..6}
    BY <1>4, <1>5
  <2>2. {Order[i] : i \in 1..6} = Counter
    BY OrderAt DEF Counter
  <2>3. QED
    BY <1>5, <2>1, <2>2
<1>6. QED
  BY <1>3, <1>4, <1>5

\* The bytes of a direction are read before its packets.
LEMMA BytesFirst ==
    ASSUME next \in 1..6, NEW d \in Direction
    PROVE  /\ BytesOf(d) \in Counter /\ PacketsOf(d) \in Counter
           /\ BytesOf(d) # PacketsOf(d)
           /\ PacketsOf(d) \in Done => BytesOf(d) \in Done
           /\ Order[next] = PacketsOf(d) => BytesOf(d) \in Done
<1>1. CASE d = "rx"
  <2>1. BytesOf(d) = Order[1] /\ PacketsOf(d) = Order[3]
    BY <1>1, OrderAt DEF BytesOf, PacketsOf
  <2>2. QED
    BY <2>1, OrderAt DEF Done, Counter
<1>2. CASE d = "tx"
  <2>1. BytesOf(d) = Order[2] /\ PacketsOf(d) = Order[4]
    BY <1>2, OrderAt DEF BytesOf, PacketsOf
  <2>2. QED
    BY <2>1, OrderAt DEF Done, Counter
<1>3. QED
  BY <1>1, <1>2 DEF Direction

\* What a read does to the variables.
LEMMA ReadStep ==
    ASSUME TypeOK, Read
    PROVE  /\ next \in 1..6 /\ Order[next] \in Counter
           /\ sample' \in Stats
           /\ sample'[Order[next]] = counters[Order[next]]
           /\ \A c \in Counter \ {Order[next]} : sample'[c] = sample[c]
           /\ UNCHANGED <<counters, link, epoch, events, began, beganEpoch>>
           /\ next < 6 => /\ next' = next + 1 /\ ret' = ret
                          /\ Done' = Done \cup {Order[next]}
           /\ next = 6 => /\ next' = 0
                          /\ ret' = [tag |-> IF epoch = beganEpoch THEN "ok" ELSE "mixed",
                                     stats |-> sample', epoch |-> epoch]
<1>1. next \in 1..6 /\ Order[next] \in Counter /\ counters[Order[next]] \in Nat
  BY OrderType DEF Read, TypeOK, Stats
<1>2. /\ sample' = [sample EXCEPT ![Order[next]] = counters[Order[next]]]
      /\ sample' \in Stats
  BY <1>1 DEF Read, Take, TypeOK, Stats
<1>3. UNCHANGED <<counters, link, epoch, events, began, beganEpoch>>
  BY DEF Read, Take, nic
<1>4. ASSUME next < 6
      PROVE  next' = next + 1 /\ ret' = ret /\ Done' = Done \cup {Order[next]}
  <2>1. next' = next + 1 /\ ret' = ret
    BY <1>4 DEF Read, Take
  <2>2. QED
    BY <1>1, <2>1, DoneGrows DEF Done
<1>5. ASSUME next = 6
      PROVE  /\ next' = 0
             /\ ret' = [tag |-> IF epoch = beganEpoch THEN "ok" ELSE "mixed",
                        stats |-> sample', epoch |-> epoch]
  <2>1. /\ next' = 0
        /\ ret' = [tag |-> IF epoch = beganEpoch THEN "ok" ELSE "mixed",
                   stats |-> [sample EXCEPT ![Order[next]] = counters[Order[next]]],
                   epoch |-> epoch]
    BY <1>5 DEF Read, Take
  <2>2. QED
    BY <1>2, <2>1
<1>6. \A c \in Counter \ {Order[next]} : sample'[c] = sample[c]
  BY <1>2 DEF TypeOK, Stats
<1>7. sample'[Order[next]] = counters[Order[next]]
  BY <1>1, <1>2 DEF TypeOK, Stats
<1>8. QED
  BY <1>1, <1>2, <1>3, <1>4, <1>5, <1>6, <1>7

-----------------------------------------------------------------------------

LEMMA TypeInit == Init => TypeOK
BY DEF Init, TypeOK, Zero, Stats, Done

LEMMA TypePreserved == TypeOK /\ [Next]_vars => TypeOK'
<1> USE ConstantsAssumption
<1> SUFFICES ASSUME TypeOK, [Next]_vars PROVE TypeOK'
  OBVIOUS
<1> USE DEF TypeOK
<1>1. ASSUME NEW d \in Direction, NEW n \in Sizes, Packet(d, n)
      PROVE  TypeOK'
  <2>1. n \in Nat
    OBVIOUS
  <2>2. counters' \in Stats
    BY <1>1, <2>1 DEF Packet, Stats, Counter, BytesOf, PacketsOf
  <2>3. QED
    BY <1>1, <2>2 DEF Packet, Event, Done
<1>2. ASSUME NEW d \in Direction, Error(d)
      PROVE  TypeOK'
  <2>1. counters' \in Stats
    BY <1>2 DEF Error, Stats, Counter, ErrorsOf
  <2>2. QED
    BY <1>2, <2>1 DEF Error, Event, Done
<1>3. CASE Unplug
  <2>1. UNCHANGED <<counters, epoch, next, sample, ret, began, beganEpoch>>
    BY <1>3 DEF Unplug, Event
  <2>2. events' \in Nat /\ link' = "gone"
    BY <1>3 DEF Unplug, Event
  <2>3. QED
    BY <2>1, <2>2 DEF Done
<1>4. CASE Plug
  BY <1>4 DEF Plug, Event, Done, Zero, Stats
<1>5. CASE Call
  BY <1>5 DEF Call, nic, Zero, Stats
<1>6. CASE Read
  <2>1. CASE next < 6
    <3>1. Done' = Done \cup {Order[next]} /\ next' = next + 1 /\ ret' = ret
      BY <1>6, <2>1, ReadStep
    <3>2. \A c \in Counter \ Done' : sample'[c] = 0
      <4>1. \A c \in Counter \ Done : sample[c] = 0
        BY <1>6, ReadStep
      <4>2. QED
        BY <1>6, <3>1, <4>1, ReadStep
    <3>3. QED
      BY <1>6, <2>1, <3>1, <3>2, ReadStep
  <2>2. CASE next = 6
    <3>1. ret' \in [tag : {"nothing", "ok", "mixed"}, stats : Stats, epoch : Nat]
      BY <1>6, <2>2, ReadStep
    <3>2. QED
      BY <1>6, <2>2, <3>1, ReadStep
  <2>3. QED
    BY <1>6, <2>1, <2>2, ReadStep
<1>7. CASE ReadFails
  BY <1>7 DEF ReadFails, nic
<1>8. CASE UNCHANGED vars
  BY <1>8 DEF vars, Done
<1>9. QED
  BY <1>1, <1>2, <1>3, <1>4, <1>5, <1>6, <1>7, <1>8 DEF Next

\* The variables keep their types, and a call starts from fresh ones.
THEOREM TypeCorrect == Spec => []TypeOK
BY TypeInit, TypePreserved, PTL DEF Spec

-----------------------------------------------------------------------------

\* What a call may rely on while the interface stays the one it began with.
Undisturbed == next # 0 /\ epoch = beganEpoch

EpochsOrdered == beganEpoch <= epoch /\ ret.epoch <= epoch

\* A value read lies between the counter at the call's begin and the counter now.
ReadsInsideCall ==
    Undisturbed =>
        \A c \in Counter : /\ began[c] <= counters[c]
                           /\ c \in Done => /\ began[c] <= sample[c]
                                            /\ sample[c] <= counters[c]

\* The driver's packets carry its bytes.
CountersCarried == \A d \in Direction : Carries(counters[PacketsOf(d)], counters[BytesOf(d)])

\* The bytes read are carried by the packets read, or by those there are.
ReadsCarried ==
    Undisturbed =>
        \A d \in Direction :
            BytesOf(d) \in Done =>
                Carries(IF PacketsOf(d) \in Done THEN sample[PacketsOf(d)]
                                                 ELSE counters[PacketsOf(d)],
                        sample[BytesOf(d)])

\* A result lies behind the counters of its incarnation, and behind those that
\* a call of the same incarnation began with.
ResultBehind ==
    ret.tag = "ok" =>
        /\ ret.epoch = epoch => \A c \in Counter : ret.stats[c] <= counters[c]
        /\ next # 0 /\ ret.epoch = beganEpoch =>
               \A c \in Counter : ret.stats[c] <= began[c]

IInv ==
    /\ TypeOK
    /\ EpochsOrdered
    /\ ReadsInsideCall
    /\ CountersCarried
    /\ ReadsCarried
    /\ ResultBehind
    /\ BytesCarried

\* A packet has room for its bytes.
LEMMA CarriesMore ==
    ASSUME NEW p \in Nat, NEW b \in Nat, NEW n \in Nat, n <= MaxPacket, Carries(p, b)
    PROVE  Carries(p + 1, b + n) /\ Carries(p + 1, b)
<1> USE ConstantsAssumption
<1>1. MaxPacket * (p + 1) = MaxPacket * p + MaxPacket
  OBVIOUS
<1>2. MaxPacket * p \in Nat
  OBVIOUS
<1>3. QED
  BY <1>1, <1>2 DEF Carries

\* The events of one incarnation: the counters grow, and the packets keep
\* carrying both the counted bytes and the bytes a call has read before.
LEMMA Growth ==
    ASSUME IInv, Event, UNCHANGED epoch, counters' \in Stats,
           \A c \in Counter : counters[c] <= counters'[c],
           CountersCarried',
           \A d \in Direction, b \in Nat :
               Carries(counters[PacketsOf(d)], b) => Carries(counters'[PacketsOf(d)], b),
           link' \in {"up", "gone"}
    PROVE  IInv'
<1> USE DEF IInv
<1>1. UNCHANGED <<next, sample, ret, began, beganEpoch, epoch>> /\ events' \in Nat
  BY DEF Event, TypeOK
<1>2. Done' = Done /\ (Undisturbed' <=> Undisturbed)
  BY <1>1 DEF Done, Undisturbed
<1>3. TypeOK'
  BY <1>1, <1>2 DEF TypeOK
<1>4. EpochsOrdered' /\ BytesCarried'
  BY <1>1 DEF EpochsOrdered, BytesCarried
<1>5. \A c \in Counter : /\ counters[c] \in Nat /\ counters'[c] \in Nat
                         /\ began[c] \in Nat /\ sample[c] \in Nat /\ ret.stats[c] \in Nat
  BY DEF TypeOK, Stats
<1>6. ReadsInsideCall'
  BY <1>1, <1>2, <1>5 DEF ReadsInsideCall
<1>7. ReadsCarried'
  <2>1. \A d \in Direction : sample[BytesOf(d)] \in Nat
    BY <1>5 DEF BytesOf, Counter
  <2>2. QED
    BY <1>1, <1>2, <2>1 DEF ReadsCarried
<1>8. ResultBehind'
  BY <1>1, <1>5 DEF ResultBehind
<1>9. QED
  BY <1>3, <1>4, <1>6, <1>7, <1>8

LEMMA PacketGrowth ==
    ASSUME IInv, NEW d \in Direction, NEW n \in Sizes, Packet(d, n)
    PROVE  IInv'
<1> USE ConstantsAssumption
<1>1. n \in Nat /\ n <= MaxPacket
  OBVIOUS
<1>2. \A c \in Counter : counters[c] \in Nat
  BY DEF IInv, TypeOK, Stats
<1>3. /\ counters' = [counters EXCEPT ![BytesOf(d)] = @ + n, ![PacketsOf(d)] = @ + 1]
      /\ Event /\ UNCHANGED <<link, epoch>>
  BY DEF Packet
<1>4. \A e \in Direction : /\ BytesOf(e) \in Counter /\ PacketsOf(e) \in Counter
                           /\ \A f \in Direction : BytesOf(e) # PacketsOf(f)
                           /\ \A f \in Direction : e # f => /\ BytesOf(e) # BytesOf(f)
                                                            /\ PacketsOf(e) # PacketsOf(f)
  BY DEF Direction, BytesOf, PacketsOf, Counter
<1>5. /\ counters' \in Stats
      /\ counters'[BytesOf(d)] = counters[BytesOf(d)] + n
      /\ counters'[PacketsOf(d)] = counters[PacketsOf(d)] + 1
      /\ \A c \in Counter \ {BytesOf(d), PacketsOf(d)} : counters'[c] = counters[c]
  BY <1>1, <1>2, <1>3, <1>4 DEF IInv, TypeOK, Stats
<1>6. \A c \in Counter : counters[c] <= counters'[c]
  BY <1>1, <1>2, <1>4, <1>5
<1>7. CountersCarried'
  <2>1. Carries(counters'[PacketsOf(d)], counters'[BytesOf(d)])
    BY <1>1, <1>2, <1>4, <1>5, CarriesMore DEF IInv, CountersCarried
  <2>2. ASSUME NEW e \in Direction, e # d
        PROVE  Carries(counters'[PacketsOf(e)], counters'[BytesOf(e)])
    BY <1>4, <1>5, <2>2 DEF IInv, CountersCarried
  <2>3. QED
    BY <2>1, <2>2 DEF CountersCarried
<1>8. ASSUME NEW e \in Direction, NEW b \in Nat, Carries(counters[PacketsOf(e)], b)
      PROVE  Carries(counters'[PacketsOf(e)], b)
  <2>1. CASE e = d
    BY <1>1, <1>2, <1>4, <1>5, <1>8, <2>1, CarriesMore
  <2>2. CASE e # d
    BY <1>4, <1>5, <1>8, <2>2
  <2>3. QED
    BY <2>1, <2>2
<1>9. link' \in {"up", "gone"}
  BY <1>3 DEF IInv, TypeOK
<1>10. QED
  BY <1>3, <1>5, <1>6, <1>7, <1>8, <1>9, Growth

LEMMA ErrorGrowth ==
    ASSUME IInv, NEW d \in Direction, Error(d)
    PROVE  IInv'
<1>1. /\ counters' = [counters EXCEPT ![ErrorsOf(d)] = @ + 1]
      /\ Event /\ UNCHANGED <<link, epoch>>
  BY DEF Error
<1>2. /\ counters' \in Stats
      /\ \A c \in Counter : counters[c] <= counters'[c]
      /\ \A c \in Counter \ {ErrorsOf(d)} : counters'[c] = counters[c]
  <2>1. counters \in [Counter -> Nat] /\ \A c \in Counter : counters[c] \in Nat
    BY DEF IInv, TypeOK, Stats
  <2>2. ErrorsOf(d) \in Counter
    BY DEF ErrorsOf, Counter
  <2>3. QED
    BY <1>1, <2>1, <2>2 DEF Stats
<1>3. \A e \in Direction : /\ counters'[BytesOf(e)] = counters[BytesOf(e)]
                           /\ counters'[PacketsOf(e)] = counters[PacketsOf(e)]
  BY <1>2 DEF Direction, BytesOf, PacketsOf, ErrorsOf, Counter
<1>4. CountersCarried'
  BY <1>3 DEF IInv, CountersCarried
<1>5. link' \in {"up", "gone"}
  BY <1>1 DEF IInv, TypeOK
<1>6. QED
  BY <1>1, <1>2, <1>3, <1>4, <1>5, Growth

LEMMA UnplugGrowth ==
    ASSUME IInv, Unplug
    PROVE  IInv'
<1>1. Event /\ UNCHANGED <<counters, epoch>> /\ link' = "gone"
  BY DEF Unplug
<1>2. counters' \in Stats /\ \A c \in Counter : counters[c] <= counters'[c]
  BY <1>1 DEF IInv, TypeOK, Stats
<1>3. CountersCarried'
  BY <1>1 DEF IInv, CountersCarried
<1>4. QED
  BY <1>1, <1>2, <1>3, Growth

\* The new incarnation is younger than anything remembered.
LEMMA PlugFresh ==
    ASSUME IInv, Plug
    PROVE  IInv'
<1> USE ConstantsAssumption DEF IInv
<1>1. /\ UNCHANGED <<next, sample, ret, began, beganEpoch>>
      /\ epoch' = epoch + 1 /\ epoch \in Nat /\ ret.epoch \in Nat /\ beganEpoch \in Nat
      /\ counters' = Zero
  BY DEF Plug, Event, TypeOK
<1>2. TypeOK'
  BY TypePreserved DEF Next
<1>3. epoch' # beganEpoch' /\ epoch' # ret'.epoch /\ EpochsOrdered'
  BY <1>1 DEF EpochsOrdered
<1>4. ReadsInsideCall' /\ ReadsCarried'
  BY <1>3 DEF ReadsInsideCall, ReadsCarried, Undisturbed
<1>5. CountersCarried'
  <2>1. \A d \in Direction : counters'[BytesOf(d)] = 0 /\ counters'[PacketsOf(d)] = 0
    BY <1>1 DEF Zero, Counter, BytesOf, PacketsOf
  <2>2. QED
    BY <2>1 DEF CountersCarried, Carries
<1>6. ResultBehind'
  BY <1>1, <1>3 DEF ResultBehind
<1>7. BytesCarried'
  BY <1>1 DEF BytesCarried
<1>8. QED
  BY <1>2, <1>3, <1>4, <1>5, <1>6, <1>7

LEMMA CallStarts ==
    ASSUME IInv, Call
    PROVE  IInv'
<1> USE DEF IInv
<1>1. /\ UNCHANGED <<counters, link, epoch, events, ret>>
      /\ next' = 1 /\ began' = counters /\ beganEpoch' = epoch
  BY DEF Call, nic
<1>2. TypeOK'
  BY TypePreserved DEF Next
<1>3. Done' = {}
  BY <1>1 DEF Done
<1>4. EpochsOrdered' /\ CountersCarried' /\ BytesCarried'
  BY <1>1 DEF EpochsOrdered, CountersCarried, BytesCarried, TypeOK
<1>5. ReadsInsideCall' /\ ReadsCarried'
  BY <1>1, <1>3 DEF ReadsInsideCall, ReadsCarried, TypeOK, Stats
<1>6. ResultBehind'
  BY <1>1 DEF ResultBehind
<1>7. QED
  BY <1>2, <1>4, <1>5, <1>6

\* A read keeps what the reads so far have promised.
LEMMA ReadKeeps ==
    ASSUME IInv, Read
    PROVE  /\ Undisturbed =>
                \A c \in Done \cup {Order[next]} :
                    began[c] <= sample'[c] /\ sample'[c] <= counters[c]
           /\ Undisturbed =>
                \A d \in Direction :
                    BytesOf(d) \in Done \cup {Order[next]} =>
                        Carries(IF PacketsOf(d) \in Done \cup {Order[next]}
                                THEN sample'[PacketsOf(d)] ELSE counters[PacketsOf(d)],
                                sample'[BytesOf(d)])
<1> USE DEF IInv
<1>1. /\ next \in 1..6 /\ Order[next] \in Counter /\ Order[next] \notin Done
      /\ sample'[Order[next]] = counters[Order[next]]
      /\ \A c \in Counter \ {Order[next]} : sample'[c] = sample[c]
  BY ReadStep, DoneGrows
<1>2. Done \subseteq Counter
  BY OrderType, <1>1 DEF Done
<1>3. ASSUME Undisturbed, NEW c \in Done \cup {Order[next]}
      PROVE  began[c] <= sample'[c] /\ sample'[c] <= counters[c]
  <2>1. CASE c = Order[next]
    BY <1>1, <1>3, <2>1 DEF ReadsInsideCall, TypeOK, Stats
  <2>2. CASE c # Order[next]
    BY <1>1, <1>2, <1>3, <2>2 DEF ReadsInsideCall
  <2>3. QED
    BY <2>1, <2>2
<1>4. ASSUME Undisturbed, NEW d \in Direction, BytesOf(d) \in Done \cup {Order[next]}
      PROVE  Carries(IF PacketsOf(d) \in Done \cup {Order[next]}
                     THEN sample'[PacketsOf(d)] ELSE counters[PacketsOf(d)],
                     sample'[BytesOf(d)])
  <2>1. /\ BytesOf(d) \in Counter /\ PacketsOf(d) \in Counter /\ BytesOf(d) # PacketsOf(d)
        /\ PacketsOf(d) \in Done => BytesOf(d) \in Done
        /\ Order[next] = PacketsOf(d) => BytesOf(d) \in Done
    BY <1>1, BytesFirst
  <2>2. CASE BytesOf(d) = Order[next]
    <3>1. PacketsOf(d) \notin Done \cup {Order[next]}
      BY <1>1, <2>1, <2>2
    <3>2. QED
      BY <1>1, <2>2, <3>1 DEF CountersCarried
  <2>3. CASE BytesOf(d) # Order[next]
    <3>1. /\ BytesOf(d) \in Done /\ sample'[BytesOf(d)] = sample[BytesOf(d)]
          /\ Carries(IF PacketsOf(d) \in Done THEN sample[PacketsOf(d)]
                                              ELSE counters[PacketsOf(d)],
                     sample[BytesOf(d)])
      BY <1>1, <1>4, <2>1, <2>3 DEF ReadsCarried
    <3>2. CASE PacketsOf(d) = Order[next]
      BY <1>1, <3>1, <3>2
    <3>3. CASE PacketsOf(d) # Order[next]
      BY <1>1, <2>1, <3>1, <3>3
    <3>4. QED
      BY <3>2, <3>3
  <2>4. QED
    BY <2>2, <2>3
<1>5. QED
  BY <1>3, <1>4

LEMMA ReadPreserves ==
    ASSUME IInv, Read
    PROVE  IInv'
<1> USE DEF IInv
<1>1. TypeOK'
  BY TypePreserved DEF Next
<1>2. /\ next \in 1..6
      /\ UNCHANGED <<counters, link, epoch, events, began, beganEpoch>>
  BY ReadStep
<1>3. CountersCarried'
  BY <1>2 DEF CountersCarried
<1>4. CASE next < 6
  <2>1. next' = next + 1 /\ ret' = ret /\ Done' = Done \cup {Order[next]}
    BY <1>4, ReadStep
  <2>2. Undisturbed' => Undisturbed
    BY <1>2 DEF Undisturbed
  <2>3. EpochsOrdered' /\ BytesCarried'
    BY <1>2, <2>1 DEF EpochsOrdered, BytesCarried
  <2>4. ReadsInsideCall'
    BY <1>2, <2>1, <2>2, ReadKeeps DEF ReadsInsideCall
  <2>5. ReadsCarried'
    BY <1>2, <2>1, <2>2, ReadKeeps DEF ReadsCarried
  <2>6. ResultBehind'
    BY <1>2, <2>1 DEF ResultBehind
  <2>7. QED
    BY <1>1, <1>3, <2>3, <2>4, <2>5, <2>6
<1>5. CASE next = 6
  <2>1. /\ next' = 0
        /\ ret'.stats = sample' /\ ret'.epoch = epoch
        /\ ret'.tag = "ok" => Undisturbed
    BY <1>2, <1>5, ReadStep DEF Undisturbed
  <2>2. Done \cup {Order[next]} = Counter
    BY <1>2, <1>5, DoneGrows
  <2>3. EpochsOrdered'
    BY <1>2, <2>1 DEF EpochsOrdered, TypeOK
  <2>4. ReadsInsideCall' /\ ReadsCarried'
    BY <2>1 DEF ReadsInsideCall, ReadsCarried, Undisturbed
  <2>5. ResultBehind'
    BY <1>2, <2>1, <2>2, ReadKeeps DEF ResultBehind
  <2>6. BytesCarried'
    <3>1. \A d \in Direction : BytesOf(d) \in Counter /\ PacketsOf(d) \in Counter
      BY <1>2, BytesFirst
    <3>2. QED
      BY <2>1, <2>2, <3>1, ReadKeeps DEF BytesCarried
  <2>7. QED
    BY <1>1, <1>3, <2>3, <2>4, <2>5, <2>6
<1>6. QED
  BY <1>2, <1>4, <1>5

LEMMA InvInit == Init => IInv
<1> USE ConstantsAssumption
<1> SUFFICES ASSUME Init PROVE IInv
  OBVIOUS
<1>1. TypeOK
  BY TypeInit
<1>2. CountersCarried
  BY DEF Init, CountersCarried, Carries, Zero, Counter, Direction, BytesOf, PacketsOf
<1>3. QED
  BY <1>1, <1>2 DEF Init, IInv, EpochsOrdered, ReadsInsideCall, ReadsCarried, Undisturbed,
                    ResultBehind, BytesCarried

LEMMA InvPreserved == IInv /\ [Next]_vars => IInv'
<1> SUFFICES ASSUME IInv, [Next]_vars PROVE IInv'
  OBVIOUS
<1>1. ASSUME NEW d \in Direction, NEW n \in Sizes, Packet(d, n) PROVE IInv'
  BY <1>1, PacketGrowth
<1>2. ASSUME NEW d \in Direction, Error(d) PROVE IInv'
  BY <1>2, ErrorGrowth
<1>3. CASE Unplug
  BY <1>3, UnplugGrowth
<1>4. CASE Plug
  BY <1>4, PlugFresh
<1>5. CASE Call
  BY <1>5, CallStarts
<1>6. CASE Read
  BY <1>6, ReadPreserves
<1>7. CASE ReadFails
  <2>1. UNCHANGED <<counters, link, epoch, events, ret, began, beganEpoch>> /\ next' = 0
    BY <1>7 DEF ReadFails, nic
  <2>2. TypeOK'
    BY <1>7, TypePreserved DEF IInv, Next
  <2>3. QED
    BY <2>1, <2>2 DEF IInv, EpochsOrdered, ReadsInsideCall, CountersCarried, ReadsCarried,
                      Undisturbed, ResultBehind, BytesCarried
<1>8. CASE UNCHANGED vars
  <2>1. TypeOK'
    BY TypePreserved DEF IInv
  <2>2. QED
    BY <1>8, <2>1 DEF vars, IInv, EpochsOrdered, ReadsInsideCall, CountersCarried,
                      ReadsCarried, Undisturbed, ResultBehind, BytesCarried, Done
<1>9. QED
  BY <1>1, <1>2, <1>3, <1>4, <1>5, <1>6, <1>7, <1>8 DEF Next

LEMMA InvAlways == Spec => []IInv
BY InvInit, InvPreserved, PTL DEF Spec

\* The packets of every result carry its bytes.
THEOREM ResultCarried == Spec => []BytesCarried
<1>1. IInv => BytesCarried
  BY DEF IInv
<1>2. QED
  BY <1>1, InvAlways, PTL

\* The step that returns a result: it lies ahead of the counters the call
\* began with, which lie ahead of the previous result.
LEMMA ResultAhead ==
    IInv /\ [Next]_vars =>
        [ret.tag = "ok" /\ ret'.tag = "ok" /\ ret'.epoch = ret.epoch =>
            \A c \in Counter : ret.stats[c] <= ret'.stats[c]]_vars
<1> SUFFICES ASSUME IInv, [Next]_vars,
                    ret.tag = "ok", ret'.tag = "ok", ret'.epoch = ret.epoch,
                    NEW c \in Counter
             PROVE  ret.stats[c] <= ret'.stats[c]
  OBVIOUS
<1> USE DEF IInv
<1>1. ret.stats[c] \in Nat /\ began[c] \in Nat /\ sample'[c] \in Nat
  <2>1. TypeOK'
    BY TypePreserved
  <2>2. QED
    BY <2>1 DEF TypeOK, Stats
<1>2. CASE ret' = ret
  BY <1>1, <1>2
<1>3. CASE ret' # ret
  <2>1. Read
    BY <1>3 DEF Next, vars, Packet, Error, Unplug, Plug, Event, Call, ReadFails
  <2>2. next = 6
    BY <1>3, <2>1, ReadStep
  <2>3. ret'.stats = sample' /\ ret'.epoch = epoch /\ Undisturbed
    BY <2>1, <2>2, ReadStep DEF Undisturbed
  <2>4. Done \cup {Order[next]} = Counter
    BY <2>2, DoneGrows
  <2>5. began[c] <= sample'[c]
    BY <2>1, <2>3, <2>4, ReadKeeps
  <2>6. ret.stats[c] <= began[c]
    BY <2>3 DEF ResultBehind, Undisturbed
  <2>7. QED
    BY <1>1, <2>3, <2>5, <2>6
<1>4. QED
  BY <1>2, <1>3

\* No counter goes back from one result of an incarnation to the next.
THEOREM ResultsGrow == Spec => NeverBackwards
BY ResultAhead, InvAlways, PTL DEF Spec, NeverBackwards

-----------------------------------------------------------------------------
(* The list of getifaddrs.                                                 *)

Listed == IfList!Entry

\* The names networks() may use.
Shown == {Lossy[n] : n \in Name}

LEMMA ListConstants == Name \subseteq DOMAIN Lossy /\ Bytes \subseteq [0..15 -> 0..255]
BY IfListAssumption DEF IfList!ConstantsAssumption

LEMMA AddsNat == \A e \in Listed : \A n : IfList!Adds(e, n) \in Nat
<1>1. ASSUME NEW e \in Listed
      PROVE  IfList!Carried(e) \in Nat
  <2>1. e.data \in [0..15 -> 0..255]
    BY ListConstants DEF Listed, IfList!Entry
  <2>2. e.data[0] \in 0..255
    BY <2>1
  <2>3. QED
    BY <2>2 DEF IfList!Carried
<1>2. QED
  BY <1>1 DEF IfList!Adds

\* The loop of network_stats(), turn by turn.
LEMMA SumsSteps ==
    ASSUME NEW list \in Seq(Listed), NEW n
    PROVE  /\ IfList!Sums(list, n)[0] = 0
           /\ \A i \in 1..Len(list) :
                 IfList!Sums(list, n)[i] = IfList!Sums(list, n)[i - 1] + IfList!Adds(list[i], n)
<1> DEFINE m == Len(list)
           add(i) == IfList!Adds(list[i], n)
           step == [i \in 1..m |-> [a \in Nat |-> a + add(i)]]
           F(g) == [i \in 0..m |-> IF i = 0 THEN 0 ELSE g[i - 1] + add(i)]
           sums == IfList!Sums(list, n)
<1>1. m \in Nat /\ \A i \in 1..m : list[i] \in Listed
  BY LenProperties, ElementOfSeq
<1>2. \A i \in 1..m : add(i) \in Nat
  BY <1>1, AddsNat
<1> HIDE DEF add, m
<1>3. step \in [1..m -> [Nat -> Nat]]
  BY <1>2
<1>4. PICK f : Stepwise(f, m, Nat, 0, step)
  <2> HIDE DEF step
  <2>1. 0 \in Nat
    OBVIOUS
  <2>2. QED
    BY <1>1, <1>3, <2>1, Recursion
<1>5. ASSUME NEW i \in 1..m
      PROVE  f[i] = f[i - 1] + add(i)
  <2>1. f[i - 1] \in Nat /\ f[i] = step[i][f[i - 1]]
    BY <1>1, <1>4 DEF Stepwise
  <2>2. QED
    BY <2>1
<1>6. f = F(f)
  BY <1>1, <1>4, <1>5 DEF Stepwise
<1>7. sums = F(sums)
  <2>1. sums = CHOOSE h : h = F(h)
    BY DEF IfList!Sums, m, add
  <2> HIDE DEF F, sums
  <2>2. QED
    BY <1>6, <2>1
<1>8. sums[0] = 0 /\ \A i \in 1..m : sums[i] = sums[i - 1] + add(i)
  <2> HIDE DEF sums
  <2>1. \A i \in 1..m : i \in 0..m /\ i # 0
    BY <1>1
  <2>2. QED
    BY <1>1, <1>7, <2>1
<1>9. QED
  BY <1>8 DEF m, add

\* An interface has one link entry.
OneLink(list) ==
    \A i, j \in DOMAIN list :
        i # j => ~(list[i].family = "link" /\ list[j].family = "link"
                   /\ list[i].name = list[j].name)

\* The places of the link entries of an interface.
Links(list, n) == {i \in DOMAIN list : list[i].name = n /\ list[i].family = "link"}

\* The sum has the counters of the one link entry (openbsd.rs:162-173).
LEMMA SumIsCounters ==
    ASSUME NEW list \in Seq(Listed), OneLink(list), NEW n
    PROVE  /\ Links(list, n) = {} => IfList!Sums(list, n)[Len(list)] = 0
           /\ \A i \in Links(list, n) :
                 IfList!Sums(list, n)[Len(list)] = list[i].data[0]
<1> DEFINE m == Len(list)
           sums == IfList!Sums(list, n)
           add(i) == IfList!Adds(list[i], n)
           L == Links(list, n)
           T == {k \in Nat : k <= m =>
                    /\ (\A i \in L : i > k) => sums[k] = 0
                    /\ \A i \in L : i <= k => sums[k] = list[i].data[0]}
<1>1. /\ m \in Nat /\ DOMAIN list = 1..m
      /\ sums[0] = 0 /\ \A i \in 1..m : sums[i] = sums[i - 1] + add(i)
  BY SumsSteps, LenProperties
<1>2. \A i \in 1..m : add(i) = IF i \in L THEN list[i].data[0] ELSE 0
  BY <1>1 DEF IfList!Adds, IfList!Carried, Links
<1>3. \A i, j \in L : i = j
  BY DEF OneLink, Links
<1>4. L \subseteq 1..m /\ \A i \in L : list[i].data[0] \in Nat
  <2>1. ASSUME NEW i \in L
        PROVE  i \in 1..m /\ list[i].data[0] \in Nat
    <3>1. i \in 1..m /\ list[i] \in Listed
      BY <1>1, ElementOfSeq DEF Links
    <3>2. list[i].data \in [0..15 -> 0..255]
      BY <3>1, ListConstants DEF Listed, IfList!Entry
    <3>3. list[i].data[0] \in 0..255
      BY <3>2
    <3> DEFINE v == list[i].data[0]
    <3>4. v \in Nat
      <4>1. v \in 0..255
        BY <3>3
      <4> HIDE DEF v
      <4>2. QED
        BY <4>1
    <3>5. QED
      BY <3>1, <3>4
  <2>2. QED
    BY <2>1
<1> HIDE DEF m, sums, add, L
<1>5. 0 \in T
  BY <1>1, <1>4
<1>6. ASSUME NEW k \in Nat, k \in T
      PROVE  k + 1 \in T
  <2> SUFFICES ASSUME k + 1 <= m
               PROVE  /\ (\A i \in L : i > k + 1) => sums[k + 1] = 0
                      /\ \A i \in L : i <= k + 1 => sums[k + 1] = list[i].data[0]
    OBVIOUS
  <2>1. k + 1 \in 1..m /\ (k + 1) - 1 = k /\ k <= m
    BY <1>1
  <2>2. sums[k + 1] = sums[k] + add(k + 1)
    BY <1>1, <2>1
  <2>3. ASSUME \A i \in L : i > k + 1
        PROVE  sums[k + 1] = 0
    <3>1. (\A i \in L : i > k) /\ k + 1 \notin L
      BY <1>4, <2>3
    <3>2. sums[k] = 0 /\ add(k + 1) = 0
      BY <1>2, <1>6, <2>1, <3>1
    <3>3. QED
      BY <2>2, <3>2
  <2>4. ASSUME NEW i \in L, i <= k + 1
        PROVE  sums[k + 1] = list[i].data[0]
    <3>0. i \in 1..m /\ list[i].data[0] \in Nat
      BY <1>4
    <3>1. CASE i = k + 1
      <4>1. \A j \in L : j > k
        <5>1. \A j \in L : j = i
          BY <1>3
        <5>2. QED
          BY <3>1, <5>1
      <4>2. sums[k] = 0 /\ add(k + 1) = list[i].data[0]
        BY <1>2, <1>6, <2>1, <3>1, <4>1
      <4>3. QED
        BY <2>2, <3>0, <4>2
    <3>2. CASE i # k + 1
      <4>1. i <= k /\ k + 1 \notin L
        BY <1>3, <2>4, <3>0, <3>2
      <4>2. sums[k] = list[i].data[0] /\ add(k + 1) = 0
        BY <1>2, <1>6, <2>1, <4>1
      <4>3. QED
        BY <2>2, <3>0, <4>2
    <3>3. QED
      BY <3>1, <3>2
  <2>5. QED
    BY <2>3, <2>4
<1>7. m \in T
  <2> HIDE DEF T
  <2>1. QED
    BY <1>1, <1>5, <1>6, Induction
<1>8. /\ L = {} => sums[m] = 0
      /\ \A i \in L : sums[m] = list[i].data[0]
  BY <1>1, <1>4, <1>7
<1>9. QED
  BY <1>8 DEF m, sums, L

\* The addresses of a run, and the maps networks() builds of them.
Addr == {IfList!ParseAddr(e) : e \in Listed}

Results == UNION {[M -> Seq(Addr)] : M \in SUBSET Shown}

LEMMA EmptyResult == << >> \in Results /\ DOMAIN << >> = {}
<1>1. << >> \in [1..0 -> Addr] /\ << >> \in [1..0 -> Seq(Addr)] /\ 1..0 = {}
  <2>1. << >> \in Seq(Addr) /\ << >> \in Seq(Seq(Addr)) /\ Len(<< >>) = 0
    BY EmptySeq
  <2>2. QED
    BY <2>1, LenProperties
<1>2. << >> \in [{} -> Seq(Addr)] /\ {} \in SUBSET Shown
  BY <1>1
<1>3. QED
  BY <1>2 DEF Results

\* One turn enters a name, and under it an address unless it has none.
LEMMA EnterStep ==
    ASSUME NEW r \in Results, NEW e \in Listed
    PROVE  /\ IfList!Enter(r, e) \in Results
           /\ DOMAIN IfList!Enter(r, e) = DOMAIN r \cup {Lossy[e.name]}
           /\ \A n \in DOMAIN r \cup {Lossy[e.name]} :
                LET addrs == IF n \in DOMAIN r THEN r[n] ELSE << >>
                IN  /\ addrs \in Seq(Addr)
                    /\ IfList!Enter(r, e)[n] =
                         IF n = Lossy[e.name] /\ IfList!Supported(e)
                         THEN Append(addrs, IfList!ParseAddr(e)) ELSE addrs
<1> DEFINE addrs(n) == IF n \in DOMAIN r THEN r[n] ELSE << >>
           value(n) == IF n = Lossy[e.name] /\ IfList!Supported(e)
                       THEN Append(addrs(n), IfList!ParseAddr(e)) ELSE addrs(n)
<1>1. PICK M \in SUBSET Shown : r \in [M -> Seq(Addr)]
  BY DEF Results
<1> DEFINE N == M \cup {Lossy[e.name]}
<1>2. N \in SUBSET Shown /\ DOMAIN r = M
  BY <1>1 DEF Shown, Listed, IfList!Entry
<1>3. \A n \in N : addrs(n) \in Seq(Addr)
  BY <1>1, EmptySeq
<1>4. IfList!ParseAddr(e) \in Addr
  BY DEF Addr
<1>5. \A n \in N : value(n) \in Seq(Addr)
  <2> HIDE DEF addrs
  <2>1. \A n \in N : Append(addrs(n), IfList!ParseAddr(e)) \in Seq(Addr)
    BY <1>3, <1>4, AppendProperties
  <2>2. QED
    BY <1>3, <2>1
<1>6. IfList!Enter(r, e) = [n \in N |-> value(n)]
  BY <1>2 DEF IfList!Enter
<1>7. IfList!Enter(r, e) \in [N -> Seq(Addr)]
  <2> HIDE DEF value, N
  <2>1. QED
    BY <1>5, <1>6
<1>8. IfList!Enter(r, e) \in Results
  <2> HIDE DEF N
  <2>1. QED
    BY <1>2, <1>7 DEF Results
<1>9. QED
  BY <1>2, <1>3, <1>6, <1>8

\* The loop of networks(), turn by turn.
LEMMA EnteredSteps ==
    ASSUME NEW list \in Seq(Listed)
    PROVE  /\ IfList!Entered(list)[0] = << >>
           /\ \A i \in 0..Len(list) : IfList!Entered(list)[i] \in Results
           /\ \A i \in 1..Len(list) :
                 IfList!Entered(list)[i] = IfList!Enter(IfList!Entered(list)[i - 1], list[i])
<1> DEFINE m == Len(list)
           turn(r, i) == IfList!Enter(r, list[i])
           step == [i \in 1..m |-> [r \in Results |-> turn(r, i)]]
           F(g) == [i \in 0..m |-> IF i = 0 THEN << >> ELSE turn(g[i - 1], i)]
           entered == IfList!Entered(list)
<1>1. m \in Nat /\ \A i \in 1..m : list[i] \in Listed
  BY LenProperties, ElementOfSeq
<1>2. \A i \in 1..m : \A r \in Results : turn(r, i) \in Results
  BY <1>1, EnterStep
<1> HIDE DEF turn, m
<1>3. step \in [1..m -> [Results -> Results]]
  BY <1>2
<1>4. PICK f : Stepwise(f, m, Results, << >>, step)
  <2> HIDE DEF step
  <2>1. QED
    BY <1>1, <1>3, EmptyResult, Recursion
<1>5. ASSUME NEW i \in 1..m
      PROVE  f[i] = turn(f[i - 1], i)
  <2>1. f[i - 1] \in Results /\ f[i] = step[i][f[i - 1]]
    BY <1>1, <1>4 DEF Stepwise
  <2>2. QED
    BY <2>1
<1>6. f = F(f)
  BY <1>1, <1>4, <1>5 DEF Stepwise
<1>7. entered = F(entered)
  <2>1. entered = CHOOSE h : h = F(h)
    BY DEF IfList!Entered, m, turn
  <2> HIDE DEF F, entered
  <2>2. QED
    BY <1>6, <2>1
<1>8. entered[0] = << >> /\ \A i \in 1..m : entered[i] = turn(entered[i - 1], i)
  <2> HIDE DEF entered
  <2>1. \A i \in 1..m : i \in 0..m /\ i # 0
    BY <1>1
  <2>2. QED
    BY <1>1, <1>7, <2>1
<1> DEFINE T == {k \in Nat : k <= m => entered[k] \in Results}
<1> HIDE DEF entered
<1>9. 0 \in T
  BY <1>8, EmptyResult
<1>10. ASSUME NEW k \in Nat, k \in T
       PROVE  k + 1 \in T
  <2> SUFFICES ASSUME k + 1 <= m
               PROVE  entered[k + 1] \in Results
    OBVIOUS
  <2>1. k + 1 \in 1..m /\ (k + 1) - 1 = k /\ k <= m
    BY <1>1
  <2>2. entered[k + 1] = turn(entered[k], k + 1)
    BY <1>8, <2>1
  <2>3. QED
    BY <1>2, <1>10, <2>1, <2>2
<1>11. \A k \in Nat : k \in T
  <2> HIDE DEF T
  <2>1. QED
    BY <1>9, <1>10, Induction
<1>12. \A i \in 0..m : entered[i] \in Results
  BY <1>1, <1>11
<1>13. QED
  BY <1>8, <1>12 DEF m, turn, entered

\* addrs has, in order, the addresses of the entries of list at the places P.
Holds(addrs, list, P) ==
    \E place \in [DOMAIN addrs -> P] :
        /\ \A i, j \in DOMAIN addrs : i < j => place[i] < place[j]
        /\ \A k \in P : \E i \in DOMAIN addrs : place[i] = k
        /\ \A i \in DOMAIN addrs : addrs[i] = IfList!ParseAddr(list[place[i]])

LEMMA HoldsNone ==
    ASSUME NEW list
    PROVE  Holds(<< >>, list, {})
<1> DEFINE place == [i \in DOMAIN << >> |-> 0]
<1>1. DOMAIN << >> = {} /\ place \in [DOMAIN << >> -> {}]
  BY EmptyResult
<1> HIDE DEF place
<1>2. /\ \A i, j \in DOMAIN << >> : i < j => place[i] < place[j]
      /\ \A i \in DOMAIN << >> : << >>[i] = IfList!ParseAddr(list[place[i]])
  BY <1>1
<1>3. QED
  BY <1>1, <1>2, Zenon DEF Holds

\* The next entry adds its place and its address.
LEMMA HoldsMore ==
    ASSUME NEW list, NEW k \in Nat, NEW P \in SUBSET (1..k), NEW addrs \in Seq(Addr),
           Holds(addrs, list, P), NEW a \in Addr, a = IfList!ParseAddr(list[k + 1])
    PROVE  Holds(Append(addrs, a), list, P \cup {k + 1})
<1> DEFINE l == Append(addrs, a)
           m == Len(addrs)
           Q == P \cup {k + 1}
<1>1. m \in Nat /\ DOMAIN addrs = 1..m
  BY LenProperties
<1>2. /\ l \in Seq(Addr) /\ Len(l) = m + 1 /\ l[m + 1] = a
      /\ \A i \in 1..m : l[i] = addrs[i]
  BY AppendProperties
<1>3. DOMAIN l = 1..m + 1
  BY <1>2, LenProperties
<1>4. PICK place \in [DOMAIN addrs -> P] :
        /\ \A i, j \in DOMAIN addrs : i < j => place[i] < place[j]
        /\ \A u \in P : \E i \in DOMAIN addrs : place[i] = u
        /\ \A i \in DOMAIN addrs : addrs[i] = IfList!ParseAddr(list[place[i]])
  BY DEF Holds
<1> DEFINE places == [i \in DOMAIN l |-> IF i = m + 1 THEN k + 1 ELSE place[i]]
<1> HIDE DEF l, m
<1>5. places[m + 1] = k + 1 /\ m + 1 \in 1..m + 1
  BY <1>1, <1>3
<1>6. \A i \in 1..m : i \in 1..m + 1 /\ places[i] = place[i] /\ place[i] \in P
                     /\ place[i] \in 1..k
  <2> SUFFICES ASSUME NEW i \in 1..m
               PROVE  i \in 1..m + 1 /\ places[i] = place[i] /\ place[i] \in P
                      /\ place[i] \in 1..k
    OBVIOUS
  <2>1. i \in 1..m + 1 /\ i # m + 1
    BY <1>1
  <2>2. places[i] = place[i]
    BY <1>3, <2>1
  <2>3. place[i] \in P
    BY <1>1, <1>4
  <2>4. place[i] \in 1..k
    <3> HIDE DEF places
    <3>1. QED
      BY <2>3
  <2>5. QED
    BY <2>1, <2>2, <2>3, <2>4
<1>7. \A i \in 1..m + 1 : i = m + 1 \/ i \in 1..m
  BY <1>1
<1>8. places \in [DOMAIN l -> Q]
  BY <1>1, <1>3, <1>4, <1>7
<1> HIDE DEF places
<1>9. ASSUME NEW i \in DOMAIN l, NEW j \in DOMAIN l, i < j
      PROVE  places[i] < places[j]
  <2>1. i \in 1..m
    BY <1>1, <1>3, <1>9
  <2>2. CASE j = m + 1
    BY <1>5, <1>6, <2>1, <2>2
  <2>3. CASE j \in 1..m
    <3>1. place[i] < place[j]
      BY <1>1, <1>4, <1>9, <2>1, <2>3
    <3>2. QED
      BY <1>6, <2>1, <2>3, <3>1
  <2>4. QED
    BY <1>3, <1>7, <2>2, <2>3
<1>10. ASSUME NEW u \in Q
       PROVE  \E i \in DOMAIN l : places[i] = u
  <2>1. CASE u = k + 1
    BY <1>3, <1>5, <2>1
  <2>2. CASE u \in P
    <3>1. PICK i \in 1..m : place[i] = u
      BY <1>1, <1>4, <2>2
    <3>2. QED
      BY <1>3, <1>6, <3>1
  <2>3. QED
    BY <2>1, <2>2
<1>11. ASSUME NEW i \in DOMAIN l
       PROVE  l[i] = IfList!ParseAddr(list[places[i]])
  <2>1. CASE i = m + 1
    BY <1>2, <1>5, <2>1
  <2>2. CASE i \in 1..m
    BY <1>1, <1>2, <1>4, <1>6, <2>2
  <2>3. QED
    BY <1>3, <1>7, <2>1, <2>2
<1>12. Holds(l, list, Q)
  BY <1>8, <1>9, <1>10, <1>11, Zenon DEF Holds
<1>13. QED
  BY <1>12 DEF l

\* The places, in the first k, of the addresses to be found under a name.
Mine(list, n, k) ==
    {i \in 1..k : Lossy[list[i].name] = n /\ IfList!Supported(list[i])}

\* The loop of networks() keeps every address, under its name.
LEMMA EnteredTrue ==
    ASSUME NEW list \in Seq(Listed), NEW r, r = IfList!Entered(list)[Len(list)]
    PROVE  /\ r \in Results
           /\ DOMAIN r = {Lossy[list[i].name] : i \in 1..Len(list)}
           /\ \A n \in DOMAIN r : Holds(r[n], list, Mine(list, n, Len(list)))
<1> DEFINE m == Len(list)
           entered == IfList!Entered(list)
           shown(k) == {Lossy[list[i].name] : i \in 1..k}
           True(k) == /\ DOMAIN entered[k] = shown(k)
                      /\ \A n \in DOMAIN entered[k] : Holds(entered[k][n], list, Mine(list, n, k))
           T == {k \in Nat : k <= m => True(k)}
<1>1. /\ m \in Nat /\ \A i \in 1..m : list[i] \in Listed
      /\ entered[0] = << >> /\ \A i \in 0..m : entered[i] \in Results
      /\ \A i \in 1..m : entered[i] = IfList!Enter(entered[i - 1], list[i])
  BY EnteredSteps, LenProperties, ElementOfSeq
<1> HIDE DEF m, entered
<1>2. 0 \in T
  <2>1. 1..0 = {}
    OBVIOUS
  <2>2. shown(0) = {}
    BY <2>1
  <2>3. True(0)
    BY <1>1, <2>2, EmptyResult
  <2>4. QED
    BY <2>3
<1>3. ASSUME NEW k \in Nat, k \in T
      PROVE  k + 1 \in T
  <2> SUFFICES ASSUME k + 1 <= m PROVE True(k + 1)
    OBVIOUS
  <2> DEFINE before == entered[k]
             after == entered[k + 1]
             e == list[k + 1]
             addrs(n) == IF n \in DOMAIN before THEN before[n] ELSE << >>
  <2>1. k + 1 \in 1..m /\ (k + 1) - 1 = k /\ k \in 0..m /\ k <= m /\ k + 1 \in 0..m
    BY <1>1
  <2>2. True(k)
    BY <1>3, <2>1
  <2>3. e \in Listed /\ before \in Results /\ after = IfList!Enter(before, e)
    BY <1>1, <2>1
  <2>4. /\ DOMAIN after = DOMAIN before \cup {Lossy[e.name]}
        /\ \A n \in DOMAIN after :
              /\ addrs(n) \in Seq(Addr)
              /\ after[n] = IF n = Lossy[e.name] /\ IfList!Supported(e)
                            THEN Append(addrs(n), IfList!ParseAddr(e)) ELSE addrs(n)
    <3> HIDE DEF before, after, e
    <3>1. DOMAIN after = DOMAIN before \cup {Lossy[e.name]}
      BY <2>3, EnterStep
    <3>2. ASSUME NEW n \in DOMAIN before \cup {Lossy[e.name]}
          PROVE  LET l == IF n \in DOMAIN before THEN before[n] ELSE << >>
                 IN  /\ l \in Seq(Addr)
                     /\ IfList!Enter(before, e)[n] =
                           IF n = Lossy[e.name] /\ IfList!Supported(e)
                           THEN Append(l, IfList!ParseAddr(e)) ELSE l
      BY <2>3, EnterStep, Zenon
    <3>3. QED
      BY <2>3, <3>1, <3>2
  <2>5. DOMAIN after = shown(k + 1)
    <3>1. shown(k + 1) = shown(k) \cup {Lossy[e.name]}
      <4>1. 1..k + 1 = 1..k \cup {k + 1}
        OBVIOUS
      <4>2. QED
        BY <4>1
    <3>2. QED
      BY <2>2, <2>4, <3>1
  <2>6. ASSUME NEW n \in DOMAIN after
        PROVE  Holds(after[n], list, Mine(list, n, k + 1))
    <3>1. Holds(addrs(n), list, Mine(list, n, k))
      <4>1. CASE n \in DOMAIN before
        BY <2>2, <4>1
      <4>2. CASE n \notin DOMAIN before
        <5>1. \A i \in 1..k : Lossy[list[i].name] # n
          BY <2>2, <4>2
        <5>2. Mine(list, n, k) = {}
          BY <5>1 DEF Mine
        <5>3. QED
          BY <4>2, <5>2, HoldsNone
      <4>3. QED
        BY <4>1, <4>2
    <3>2. 1..k + 1 = 1..k \cup {k + 1} /\ Mine(list, n, k) \in SUBSET (1..k)
      BY DEF Mine
    <3>3. CASE n = Lossy[e.name] /\ IfList!Supported(e)
      <4>1. Mine(list, n, k + 1) = Mine(list, n, k) \cup {k + 1}
        BY <3>2, <3>3 DEF Mine
      <4>2. IfList!ParseAddr(e) \in Addr
        BY <2>3 DEF Addr
      <4>3. after[n] = Append(addrs(n), IfList!ParseAddr(e)) /\ addrs(n) \in Seq(Addr)
        BY <2>4, <3>3
      <4> DEFINE a == IfList!ParseAddr(e)
                 l == addrs(n)
      <4>4. a \in Addr /\ l \in Seq(Addr) /\ Holds(l, list, Mine(list, n, k))
            /\ a = IfList!ParseAddr(list[k + 1])
        BY <3>1, <4>2, <4>3
      <4> HIDE DEF a, l
      <4>5. Holds(Append(l, a), list, Mine(list, n, k) \cup {k + 1})
        BY <3>2, <4>4, HoldsMore
      <4>6. QED
        BY <4>1, <4>3, <4>5 DEF a, l
    <3>4. CASE ~(n = Lossy[e.name] /\ IfList!Supported(e))
      <4>1. Mine(list, n, k + 1) = Mine(list, n, k)
        BY <3>2, <3>4 DEF Mine
      <4>2. after[n] = addrs(n)
        BY <2>4, <3>4
      <4>3. QED
        BY <3>1, <4>1, <4>2
    <3>5. QED
      BY <3>3, <3>4
  <2>7. QED
    BY <2>5, <2>6
<1>4. \A k \in Nat : k \in T
  <2> HIDE DEF T
  <2>1. QED
    BY <1>2, <1>3, Induction
<1>5. True(m) /\ entered[m] \in Results
  BY <1>1, <1>4
<1>6. QED
  BY <1>5 DEF m, entered

\* An address has the type of its entry, and the groups of an IPv6 address are in
\* network order on a little-endian machine (unix.rs:55-59).
LEMMA RightAddr ==
    ASSUME NEW e \in Listed, endian \in {"little", "big"}, IfList!Supported(e)
    PROVE  IfList!Right(IfList!ParseAddr(e), e)
<1> DEFINE d == e.data
<1>1. e.family \in {"null", "inet", "inet6"} /\ d \in [0..15 -> 0..255]
  BY ListConstants DEF Listed, IfList!Entry, IfList!Supported
<1> HIDE DEF d
<1>2. CASE e.family = "null"
  BY <1>2 DEF IfList!Right, IfList!ParseAddr
<1>3. CASE e.family = "inet"
  <2>1. IfList!ParseAddr(e) = [tag |-> "V4", groups |-> [k \in 0..3 |-> e.data[2 + k]]]
    BY <1>3 DEF IfList!ParseAddr
  <2>2. [k \in 0..3 |-> e.data[2 + k]] = [k \in 0..3 |-> e.data[k + 2]]
    OBVIOUS
  <2>3. QED
    BY <1>3, <2>1, <2>2 DEF IfList!Right
<1>4. CASE e.family = "inet6"
  <2> DEFINE words == IfList!ParseV6(d)
             order == IfList!NetworkOrder(d)
  <2>1. IfList!ParseAddr(e) = [tag |-> "V6", groups |-> words]
    BY <1>4 DEF IfList!ParseAddr, d
  <2>2. /\ words = [k \in 0..7 |-> words[k]] /\ order = [k \in 0..7 |-> order[k]]
        /\ \A k \in 0..7 : order[k] = 256 * d[2 * k] + d[2 * k + 1]
    BY DEF IfList!ParseV6, IfList!NetworkOrder
  <2>3. \A k \in 0..7 : words[k] = IfList!Word(d[2 * k + 1], d[2 * k])
    <3> SUFFICES ASSUME NEW k \in 0..7
                 PROVE  words[k] = IfList!Word(d[2 * k + 1], d[2 * k])
      OBVIOUS
    <3> DEFINE reversed == [i \in 0..15 |-> d[15 - i]]
    <3>1. words[k] = IfList!Word(reversed[2 * (7 - k)], reversed[2 * (7 - k) + 1])
      BY DEF IfList!ParseV6
    <3>2. reversed[2 * (7 - k)] = d[2 * k + 1] /\ reversed[2 * (7 - k) + 1] = d[2 * k]
      OBVIOUS
    <3>3. QED
      BY <3>1, <3>2
  <2>4. words = order <=> \A k \in 0..7 : words[k] = order[k]
    <3> HIDE DEF words, order
    <3>1. QED
      BY <2>2
  <2>5. ASSUME NEW k \in 0..7
        PROVE  words[k] = order[k] <=> endian = "little" \/ d[2 * k] = d[2 * k + 1]
    <3>1. d[2 * k] \in 0..255 /\ d[2 * k + 1] \in 0..255
      BY <1>1
    <3>2. words[k] = IF endian = "little" THEN d[2 * k + 1] + 256 * d[2 * k]
                     ELSE 256 * d[2 * k + 1] + d[2 * k]
      BY <2>3 DEF IfList!Word
    <3>3. order[k] = 256 * d[2 * k] + d[2 * k + 1]
      BY <2>2
    <3> DEFINE x == d[2 * k]
               y == d[2 * k + 1]
    <3>4. x \in Int /\ y \in Int
      BY <3>1
    <3> HIDE DEF words, order, x, y
    <3>5. QED
      BY <3>2, <3>3, <3>4 DEF x, y
  <2>6. words = order <=> endian = "little" \/ IfList!Swappable(d)
    <3> HIDE DEF words, order
    <3>1. QED
      BY <2>4, <2>5 DEF IfList!Swappable
  <2>7. QED
    <3> HIDE DEF words, order
    <3>1. words = IfList!NetworkOrder(d) <=> endian = "little" \/ IfList!Swappable(d)
      BY <2>6 DEF order
    <3>2. QED
      BY <1>4, <2>1, <3>1 DEF IfList!Right, d
<1>5. QED
  BY <1>1, <1>2, <1>3, <1>4

\* The list is the caller's and does not change; what a call returned is true of
\* it, and what is in progress has that list or none.
CallKnown ==
    \/ call = IfList!Idle
    \/ /\ outcome = IfList!Nothing
       /\ \/ \E n \in IfList!Utf8, list \in {ifs, << >>} :
                call = IfList!Calling("network_stats", n, list)
          \/ call = IfList!Calling("networks", "", ifs)

IfInv ==
    /\ endian \in {"little", "big"}
    /\ ifs \in Seq(Listed)
    /\ OneLink(ifs)
    /\ refused \in Nat
    /\ CallKnown
    /\ IfList!ListsFreed
    /\ IfList!StatsHonest
    /\ IfList!NetworksComplete

LEMMA CallParts ==
    /\ IfList!Idle.op = "idle" /\ IfList!Idle.list = << >>
    /\ \A op, n, list : /\ IfList!Calling(op, n, list).op = op
                        /\ IfList!Calling(op, n, list).name = n
                        /\ IfList!Calling(op, n, list).list = list
BY DEF IfList!Idle, IfList!Calling

\* Nothing returned is true of any list.
LEMMA NothingTold ==
    outcome = IfList!Nothing => IfList!StatsHonest /\ IfList!NetworksComplete
<1>1. SUFFICES ASSUME outcome = IfList!Nothing
               PROVE  IfList!StatsHonest /\ IfList!NetworksComplete
  OBVIOUS
<1>2. outcome.op = "networks" /\ outcome.tag = "nothing"
  BY <1>1 DEF IfList!Nothing, IfList!Addresses
<1>3. QED
  BY <1>2 DEF IfList!StatsHonest, IfList!NetworksComplete

LEMMA NothingToldNext ==
    (outcome = IfList!Nothing)' => IfList!StatsHonest' /\ IfList!NetworksComplete'
BY NothingTold, PTL

\* A call in progress is of one of the two, and has the caller's list or none.
LEMMA InCall ==
    ASSUME CallKnown
    PROVE  /\ call.op = "network_stats" =>
                \E n \in IfList!Utf8, list \in {ifs, << >>} :
                    call = IfList!Calling("network_stats", n, list)
           /\ call.op = "networks" => call.list = ifs
<1>1. CASE call = IfList!Idle
  BY <1>1, CallParts
<1>2. CASE \E n \in IfList!Utf8, list \in {ifs, << >>} :
             call = IfList!Calling("network_stats", n, list)
  <2>1. call.op = "network_stats"
    BY <1>2, CallParts
  <2>2. QED
    BY <1>2, <2>1
<1>3. CASE call = IfList!Calling("networks", "", ifs)
  <2>1. call.op = "networks" /\ call.list = ifs
    BY <1>3 DEF IfList!Calling
  <2>2. QED
    BY <2>1
<1>4. QED
  BY <1>1, <1>2, <1>3 DEF CallKnown

LEMMA IfInit == IfList!Init => IfInv
<1> SUFFICES ASSUME IfList!Init PROVE IfInv
  OBVIOUS
<1>1. /\ endian \in {"little", "big"} /\ heap = 0 /\ refused = 0
      /\ ifs \in UNION {[1..n -> IfList!Entry] : n \in 0..MaxList}
      /\ OneLink(ifs)
      /\ outcome = IfList!Nothing /\ call = IfList!Idle
  BY DEF IfList!Init, OneLink
<1>2. ifs \in Seq(Listed)
  <2>1. PICK n \in 0..MaxList : ifs \in [1..n -> Listed]
    BY <1>1 DEF Listed
  <2>2. n \in Nat
    BY <2>1, IfListAssumption DEF IfList!ConstantsAssumption
  <2>3. QED
    BY <2>1, <2>2, SeqDef
<1>3. IfList!StatsHonest /\ IfList!NetworksComplete
  BY <1>1, NothingTold
<1>4. IfList!Idle.list = << >> /\ IfList!Blocks(<< >>) = 0
  BY CallParts DEF IfList!Blocks
<1>5. IfList!ListsFreed
  BY <1>1, <1>4 DEF IfList!ListsFreed
<1>6. QED
  BY <1>1, <1>2, <1>3, <1>5 DEF IfInv, CallKnown

\* getifaddrs allocates the list of a call that begins, or fails.
LEMMA BeginStep ==
    ASSUME IfInv, \/ \E n \in IfList!Utf8 : IfList!ListForStats(n) \/ IfList!Unlisted(n)
                  \/ IfList!ListForNetworks
    PROVE  IfInv'
<1>1. /\ call = IfList!Idle /\ outcome' = IfList!Nothing /\ UNCHANGED <<endian, ifs, refused>>
      /\ \/ /\ \/ \E n \in IfList!Utf8 : call' = IfList!Calling("network_stats", n, ifs)
               \/ call' = IfList!Calling("networks", "", ifs)
            /\ call'.list = ifs
            /\ heap' = heap + IfList!Blocks(ifs)
         \/ /\ \E n \in IfList!Utf8 : call' = IfList!Calling("network_stats", n, << >>)
            /\ call'.list = << >>
            /\ heap' = heap
  <2>1. CASE \E n \in IfList!Utf8 : IfList!ListForStats(n)
    <3>1. PICK n \in IfList!Utf8 : IfList!ListForStats(n)
      BY <2>1
    <3>2. call'.list = ifs
      BY <3>1 DEF IfList!ListForStats, IfList!Listed, IfList!Calling
    <3>3. QED
      BY <3>1, <3>2 DEF IfList!ListForStats, IfList!Listed
  <2>2. CASE \E n \in IfList!Utf8 : IfList!Unlisted(n)
    <3>1. PICK n \in IfList!Utf8 : IfList!Unlisted(n)
      BY <2>2
    <3>2. call'.list = << >>
      BY <3>1 DEF IfList!Unlisted, IfList!Calling
    <3>3. QED
      BY <3>1, <3>2 DEF IfList!Unlisted
  <2>3. CASE IfList!ListForNetworks
    <3>1. call'.list = ifs
      BY <2>3 DEF IfList!ListForNetworks, IfList!Listed, IfList!Calling
    <3>2. QED
      BY <2>3, <3>1 DEF IfList!ListForNetworks, IfList!Listed
  <2>4. QED
    BY <2>1, <2>2, <2>3
<1>2. heap = refused /\ refused \in Nat
  <2>1. call.list = << >>
    BY <1>1, CallParts
  <2>2. IfList!Blocks(call.list) = 0
    BY <2>1 DEF IfList!Blocks
  <2>3. heap = refused + IfList!Blocks(call.list) /\ refused \in Nat
    BY DEF IfInv, IfList!ListsFreed, IfList!Blocks
  <2>4. QED
    BY <2>2, <2>3
<1>3. IfList!ListsFreed'
  <2>1. heap' = refused' + IfList!Blocks(call'.list)
    <3>1. CASE call'.list = ifs /\ heap' = heap + IfList!Blocks(ifs)
      BY <1>1, <1>2, <3>1
    <3>2. CASE call'.list = << >> /\ heap' = heap
      <4>1. IfList!Blocks(call'.list) = 0
        BY <3>2 DEF IfList!Blocks
      <4>2. PICK k \in Nat : k = refused
        BY <1>2
      <4>3. k + 0 = k
        OBVIOUS
      <4>4. refused' = k
        BY <1>1, <4>2
      <4>5. heap' = k
        BY <1>2, <3>2, <4>2
      <4>6. QED
        BY <4>1, <4>3, <4>4, <4>5
    <3>3. QED
      BY <1>1, <3>1, <3>2
  <2>2. QED
    BY <2>1 DEF IfList!ListsFreed, IfList!Blocks
<1>4. CallKnown'
  BY <1>1 DEF CallKnown, IfList!Calling, IfList!Nothing, IfList!Addresses, IfList!Utf8
<1>5. (outcome = IfList!Nothing)'
  BY <1>1 DEF IfList!Nothing, IfList!Addresses
<1>6. IfList!StatsHonest' /\ IfList!NetworksComplete'
  BY <1>5, NothingToldNext
<1>7. QED
  BY <1>1, <1>2, <1>3, <1>4, <1>6 DEF IfInv, OneLink

\* A call of network_stats() leaves its list if and only if it fails, and has the
\* counters of the interface otherwise.
LEMMA StatsStep ==
    ASSUME IfInv, IfList!NameRefused \/ IfList!NetworkStats
    PROVE  /\ refused' \in Nat /\ IfList!ListsFreed'
           /\ IfList!StatsHonest' /\ IfList!NetworksComplete'
<1>1. PICK n \in IfList!Utf8, list \in {ifs, << >>} :
        call = IfList!Calling("network_stats", n, list)
  <2>1. call.op = "network_stats"
    BY DEF IfList!NameRefused, IfList!NetworkStats
  <2>2. QED
    BY <2>1, InCall DEF IfInv
<1>2. call.op = "network_stats" /\ call.name = n /\ call.list = list
  BY <1>1, CallParts
<1>3. /\ ifs \in Seq(Listed) /\ OneLink(ifs) /\ refused \in Nat
      /\ heap = refused + IfList!Blocks(list)
  BY <1>2 DEF IfInv, IfList!ListsFreed
<1>4. /\ call' = IfList!Idle /\ call'.list = << >> /\ ifs' = ifs
      /\ IfList!Blocks(call'.list) = 0
  <2>1. call' = IfList!Idle /\ ifs' = ifs
    BY DEF IfList!NameRefused, IfList!NetworkStats, IfList!Return
  <2>2. QED
    BY <2>1, CallParts DEF IfList!Blocks
<1>5. << >> \in Seq(Listed) /\ OneLink(<< >>) /\ Links(<< >>, n) = {} /\ DOMAIN << >> = {}
  BY EmptySeq, EmptyResult DEF OneLink, Links
<1>6. CASE IfList!NameRefused
  <2>1. PICK i \in DOMAIN list : list[i].name \notin IfList!Utf8
    BY <1>2, <1>6 DEF IfList!NameRefused, IfList!Unnamed
  <2>2. list = ifs /\ list # << >>
    BY <1>5, <2>1
  <2>3. heap' = heap /\ refused' = refused + 1
    BY <1>6 DEF IfList!NameRefused
  <2>4. IfList!Blocks(list) = 1
    BY <2>2 DEF IfList!Blocks
  <2>5. IfList!ListsFreed'
    <3>1. heap' = refused' + IfList!Blocks(call'.list)
      BY <1>3, <1>4, <2>3, <2>4
    <3>2. QED
      BY <3>1 DEF IfList!ListsFreed, IfList!Blocks
  <2>6. /\ outcome'.op = "network_stats" /\ outcome'.tag = "err" /\ outcome'.name = n
        /\ outcome'.listed = TRUE
    BY <1>2, <1>6 DEF IfList!NameRefused, IfList!Return, IfList!Stats
  <2>7. \E k \in DOMAIN ifs : ifs[k].name # n
    BY <2>1, <2>2
  <2>8. IfList!StatsHonest' /\ IfList!NetworksComplete'
    BY <1>4, <2>6, <2>7 DEF IfList!StatsHonest, IfList!NetworksComplete
  <2>9. QED
    BY <1>3, <2>3, <2>5, <2>8
<1>7. CASE IfList!NetworkStats
  <2> DEFINE sum == IfList!Sums(list, n)[Len(list)]
             listed == list = ifs
  <2>1. /\ heap' = heap - IfList!Blocks(list) /\ refused' = refused
        /\ outcome' = IfList!Stats("ok", n, sum, listed)
    BY <1>2, <1>7 DEF IfList!NetworkStats, IfList!Return
  <2> HIDE DEF sum, listed
  <2>2. /\ outcome'.op = "network_stats" /\ outcome'.tag = "ok" /\ outcome'.name = n
        /\ outcome'.listed = listed /\ outcome'.stats = sum
    BY <2>1 DEF IfList!Stats
  <2>3. list \in Seq(Listed) /\ OneLink(list)
    BY <1>3, <1>5
  <2>4. (Links(list, n) = {} => sum = 0) /\ \A i \in Links(list, n) : sum = list[i].data[0]
    BY <2>3, SumIsCounters DEF sum
  <2>5. sum = IF listed THEN IfList!CountersOf(n) ELSE 0
    <3>1. CASE listed
      <4>1. list = ifs
        BY <3>1 DEF listed
      <4>2. IfList!CountersOf(n) =
              IF Links(ifs, n) = {} THEN 0 ELSE ifs[CHOOSE i \in Links(ifs, n) : TRUE].data[0]
        BY DEF IfList!CountersOf, Links
      <4>3. CASE Links(ifs, n) = {}
        BY <2>4, <3>1, <4>1, <4>2, <4>3
      <4>4. CASE Links(ifs, n) # {}
        <5>1. (CHOOSE i \in Links(ifs, n) : TRUE) \in Links(ifs, n)
          BY <4>4
        <5>2. QED
          BY <2>4, <3>1, <4>1, <4>2, <4>4, <5>1
      <4>5. QED
        BY <4>3, <4>4
    <3>2. CASE ~listed
      <4>1. list = << >>
        BY <3>2 DEF listed
      <4>2. QED
        BY <1>5, <2>4, <3>2, <4>1
    <3>3. QED
      BY <3>1, <3>2
  <2>6. IfList!CountersOf(n)' = IfList!CountersOf(n)
    BY <1>4 DEF IfList!CountersOf
  <2>7. IfList!StatsHonest'
    BY <2>2, <2>5, <2>6, <1>4 DEF IfList!StatsHonest, IfList!CountersOf
  <2>8. IfList!ListsFreed'
    <3>1. heap' = refused' + IfList!Blocks(call'.list)
      BY <1>3, <1>4, <2>1 DEF IfList!Blocks
    <3>2. QED
      BY <3>1 DEF IfList!ListsFreed, IfList!Blocks
  <2>9. QED
    BY <1>3, <2>1, <2>2, <2>7, <2>8 DEF IfList!NetworksComplete
<1>8. QED
  BY <1>6, <1>7

\* What networks() returns is what the list has.
LEMMA NetworksStep ==
    ASSUME IfInv, IfList!Networks
    PROVE  IfList!NetworksComplete'
<1> DEFINE r == IfList!Entered(ifs)[Len(ifs)]
<1>1. ifs \in Seq(Listed) /\ endian \in {"little", "big"}
  BY DEF IfInv
<1>0. call.list = ifs
  <2>1. call.op = "networks"
    BY DEF IfList!Networks
  <2>2. QED
    BY <2>1, InCall DEF IfInv
<1>2. outcome' = IfList!Addresses("ok", r) /\ ifs' = ifs /\ endian' = endian
  BY <1>0 DEF IfList!Networks, IfList!Return
<1>3. /\ r \in Results
      /\ DOMAIN r = {Lossy[ifs[i].name] : i \in 1..Len(ifs)}
      /\ \A n \in DOMAIN r : Holds(r[n], ifs, Mine(ifs, n, Len(ifs)))
  BY <1>1, EnteredTrue
<1> HIDE DEF r
<1>4. outcome'.networks = r
  BY <1>2 DEF IfList!Addresses
<1>5. DOMAIN ifs = 1..Len(ifs) /\ \A i \in DOMAIN ifs : ifs[i] \in Listed
  BY <1>1, LenProperties, ElementOfSeq
<1>6. DOMAIN r = {Lossy[ifs[i].name] : i \in DOMAIN ifs}
  BY <1>3, <1>5
<1> DEFINE mine(n) == {i \in DOMAIN ifs : Lossy[ifs[i].name] = n /\ IfList!Supported(ifs[i])}
           Kept(n) ==
             \E place \in [DOMAIN r[n] -> mine(n)] :
                /\ \A i, j \in DOMAIN r[n] : i < j => place[i] < place[j]
                /\ \A k \in mine(n) : \E i \in DOMAIN r[n] : place[i] = k
                /\ \A i \in DOMAIN r[n] : IfList!Right(r[n][i], ifs[place[i]])
<1>7. ASSUME NEW n \in DOMAIN r
      PROVE  Kept(n)
  <2>1. mine(n) = Mine(ifs, n, Len(ifs))
    BY <1>5 DEF Mine
  <2>2. PICK place \in [DOMAIN r[n] -> mine(n)] :
          /\ \A i, j \in DOMAIN r[n] : i < j => place[i] < place[j]
          /\ \A k \in mine(n) : \E i \in DOMAIN r[n] : place[i] = k
          /\ \A i \in DOMAIN r[n] : r[n][i] = IfList!ParseAddr(ifs[place[i]])
    <3> HIDE DEF mine
    <3>1. QED
      BY <1>3, <2>1 DEF Holds
  <2>3. ASSUME NEW i \in DOMAIN r[n]
        PROVE  IfList!Right(r[n][i], ifs[place[i]])
    <3>1. place[i] \in mine(n)
      BY <2>2
    <3>2. ifs[place[i]] \in Listed /\ IfList!Supported(ifs[place[i]])
      BY <1>5, <3>1
    <3>3. QED
      BY <1>1, <2>2, <3>2, RightAddr
  <2>4. QED
    BY <2>2, <2>3
<1>8. DOMAIN outcome'.networks = {Lossy[ifs'[i].name] : i \in DOMAIN ifs'}
  BY <1>2, <1>4, <1>6
<1>9. ASSUME NEW e, NEW a
      PROVE  IfList!Right(a, e)' <=> IfList!Right(a, e)
  BY <1>2 DEF IfList!Right
<1>10. QED
  BY <1>2, <1>4, <1>6, <1>7 DEF IfList!NetworksComplete, IfList!Right

LEMMA IfPreserved == IfInv /\ [IfList!Next]_(IfList!vars) => IfInv'
<1> SUFFICES ASSUME IfInv, [IfList!Next]_(IfList!vars) PROVE IfInv'
  OBVIOUS
<1>1. CASE UNCHANGED IfList!vars
  <2>1. UNCHANGED <<endian, ifs, heap, call, outcome, refused>>
    BY <1>1 DEF IfList!vars
  <2>2. OneLink(ifs)' /\ CallKnown'
    BY <2>1 DEF IfInv, OneLink, CallKnown, IfList!Idle, IfList!Calling, IfList!Nothing,
                IfList!Addresses, IfList!Utf8
  <2>3. IfList!ListsFreed'
    BY <2>1 DEF IfInv, IfList!ListsFreed, IfList!Blocks
  <2>4. IfList!StatsHonest'
    BY <2>1 DEF IfInv, IfList!StatsHonest, IfList!CountersOf
  <2>5. IfList!NetworksComplete'
    BY <1>1 DEF IfInv, IfList!vars, IfList!NetworksComplete, IfList!Right
  <2>6. QED
    BY <2>1, <2>2, <2>3, <2>4, <2>5 DEF IfInv
<1>2. CASE \/ \E n \in IfList!Utf8 : IfList!ListForStats(n) \/ IfList!Unlisted(n)
           \/ IfList!ListForNetworks
  BY <1>2, BeginStep
<1>3. CASE IfList!NameRefused \/ IfList!NetworkStats \/ IfList!NetworksFails \/ IfList!Networks
  <2>1. endian' = endian /\ ifs' = ifs /\ call' = IfList!Idle
    BY <1>3 DEF IfList!NameRefused, IfList!NetworkStats, IfList!NetworksFails, IfList!Networks,
                IfList!Return
  <2>2. call'.list = << >> /\ IfList!Blocks(call'.list) = 0
    BY <2>1, CallParts DEF IfList!Blocks
  <2>3. /\ refused' \in Nat /\ IfList!ListsFreed'
        /\ IfList!StatsHonest' /\ IfList!NetworksComplete'
    <3>1. CASE IfList!NameRefused \/ IfList!NetworkStats
      BY <3>1, StatsStep
    <3>2. CASE IfList!NetworksFails
      <4>1. /\ outcome'.op = "networks" /\ outcome'.tag = "err" /\ call = IfList!Idle
            /\ heap' = heap /\ refused' = refused
        BY <3>2 DEF IfList!NetworksFails, IfList!Return, IfList!Addresses
      <4>2. heap' = refused' + IfList!Blocks(call'.list)
        BY <2>2, <4>1, CallParts DEF IfInv, IfList!ListsFreed, IfList!Blocks
      <4>3. IfList!ListsFreed'
        BY <4>2 DEF IfList!ListsFreed, IfList!Blocks
      <4>4. QED
        BY <4>1, <4>3 DEF IfInv, IfList!StatsHonest, IfList!NetworksComplete
    <3>3. CASE IfList!Networks
      <4>1. /\ outcome'.op = "networks" /\ heap' = heap - IfList!Blocks(call.list)
            /\ refused' = refused
        BY <3>3 DEF IfList!Networks, IfList!Return, IfList!Addresses
      <4>2. heap = refused + IfList!Blocks(call.list) /\ refused \in Nat
        BY DEF IfInv, IfList!ListsFreed
      <4>3. heap' = refused' + IfList!Blocks(call'.list)
        BY <2>2, <4>1, <4>2 DEF IfList!Blocks
      <4>4. IfList!ListsFreed'
        BY <4>3 DEF IfList!ListsFreed, IfList!Blocks
      <4>5. QED
        BY <3>3, <4>1, <4>2, <4>4, NetworksStep DEF IfList!StatsHonest
    <3>4. QED
      BY <1>3, <3>1, <3>2, <3>3
  <2>4. CallKnown'
    BY <2>1 DEF CallKnown, IfList!Idle, IfList!Calling
  <2>5. QED
    BY <2>1, <2>3, <2>4 DEF IfInv, OneLink
<1>4. QED
  BY <1>1, <1>2, <1>3 DEF IfList!Next

LEMMA IfAlways == IfList!Spec => []IfInv
BY IfInit, IfPreserved, PTL DEF IfList!Spec

\* Every list of getifaddrs is freed once, but for those of the calls that met a
\* name that is not UTF-8 (openbsd.rs:152-161, 176; unix.rs:18-40).
THEOREM OnlyRefusedLeak == IfList!Spec => []ListsFreed
<1>1. IfInv => ListsFreed
  BY DEF IfInv, ListsFreed
<1>2. QED
  BY IfAlways, <1>1, PTL

\* network_stats() of OpenBSD has the counters of the one link entry of the
\* interface, whatever the list is (openbsd.rs:152-176).
THEOREM CountersAreTheLinks == IfList!Spec => []StatsHonest
<1>1. IfInv => StatsHonest
  BY DEF IfInv, StatsHonest
<1>2. QED
  BY IfAlways, <1>1, PTL

\* networks() has every address of the list once and in order, however long the
\* list is (unix.rs:24-40).
THEOREM AddressesAreTheLists == IfList!Spec => []NetworksComplete
<1>1. IfInv => NetworksComplete
  BY DEF IfInv, NetworksComplete
<1>2. QED
  BY IfAlways, <1>1, PTL

-----------------------------------------------------------------------------
(* The composition.                                                        *)

\* A behaviour of the composition is one of each component.
THEOREM NetworkComposes == NetworkSpec => Spec /\ IfList!Spec
<1>1. NetworkInit => Init /\ IfList!Init
  BY DEF NetworkInit
<1>2. [NetworkNext]_<<component, vars, ifListState>>
        => [Next]_vars /\ [IfList!Next]_(IfList!vars)
  BY DEF NetworkNext, ifListState, IfList!vars
<1>3. QED
  BY <1>1, <1>2, PTL DEF NetworkSpec, Spec, IfList!Spec
=============================================================================
