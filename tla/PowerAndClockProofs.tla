------------------------ MODULE PowerAndClockProofs -------------------------
(***************************************************************************)
(* Linux: for every set of supplies and of files, what battery_life() says *)
(* is missing, on or off was so, the capacity is between those of the      *)
(* batteries, and a quiet call is exact.  The other systems: battery life  *)
(* and AC power are true to what was said of them, for every width of an   *)
(* int.  The clocks: their error is that of the resolution.                *)
(***************************************************************************)
EXTENDS PowerAndClock, InductionFacts, FiniteSetTheorems, SequenceTheorems, TLAPS

\* The name of the i-th value of a battery.
Q(i) == <<"full", "now", "current">>[i]

ReadType == [failed : BOOLEAN, value : Int, unit : Unit \cup {"none"}]

SeenType ==
    [charge : SUBSET (Meter \X Nat), on : SUBSET Ac, off : SUBSET Supply,
     calm : BOOLEAN, mixed : BOOLEAN]

Typed ==
    /\ present \subseteq Supply
    /\ charge \in [Meter -> Nat]
    /\ online \in [Ac -> BOOLEAN]
    /\ phase \in {"idle", "batteries", "then_ac", "ac"}
    /\ left \subseteq Supply
    /\ \/ at = None
       \/ phase = "batteries" /\ at \in Bat
       \/ phase \in {"ac", "then_ac"} /\ at \in Ac
    /\ got \in Seq(ReadType) /\ Len(got) < 3
    /\ unit \in Unit /\ (at \notin Bat => unit = "energy")
    /\ sum.full \in Nat /\ sum.now \in Nat /\ sum.current \in Int
    /\ onAc \in BOOLEAN
    /\ seen \in SeenType

\* What there is to see at the moment has been seen by the call in progress.
GlanceSeen ==
    phase # "idle" =>
        /\ \A m \in Meter : m[1] \in present => <<m, charge[m]>> \in seen.charge
        /\ \A a \in Ac \cap present : online[a] => a \in seen.on
        /\ \A s \in Supply \ present : s \in seen.off
        /\ \A a \in Ac : ~online[a] => a \in seen.off

\* The i-th value read of a battery: one that could not be had was not there to be
\* had; another is in a unit that has a file for it, and true.
ReadTrue(sn, b, i, v) ==
    IF v.failed
    THEN b \in Complete => b \in sn.off /\ ~sn.calm
    ELSE /\ v.unit \in Unit /\ Has(b, v.unit, Q(i))
         /\ sn.calm => v.unit = Preferred(b, Q(i))
         /\ i = 1 => v.value = Full[<<b, v.unit>>]
         /\ i = 2 => <<<<b, v.unit>>, v.value>> \in sn.charge

\* The values read of the battery at work.
ReadsTrue ==
    /\ at \notin Bat => got = << >>
    /\ at \in Bat => \A i \in 1..Len(got) : ReadTrue(seen, at, i, got[i])
    /\ seen.calm /\ at # None => at \in present

\* A value is looked for as charge: it could not be read as energy.
FellBack ==
    at \in Bat /\ unit = "charge" /\ Has(at, "energy", Q(Len(got) + 1)) =>
        at \in seen.off /\ ~seen.calm

\* A battery counts, or is still to come, or was off.
BatteriesCounted ==
    phase = "batteries" =>
        /\ ~onAc
        /\ sum.full = 0 => \A b \in Complete : b \in left \/ b = at \/ b \in seen.off

\* The same of the adapters.
AdaptersCounted ==
    phase \in {"ac", "then_ac"} =>
        IF onAc THEN seen.on # {}
                ELSE \A a \in Ac : a \in left \/ a = at \/ a \in seen.off

\* The share now / full is between two that a battery had.
InHull(full, now) ==
    /\ \E mn \in seen.charge : mn[1] \in Metered /\ mn[2] * full <= now * Full[mn[1]]
    /\ \E mn \in seen.charge : mn[1] \in Metered /\ mn[2] * full >= now * Full[mn[1]]

SumInHull ==
    /\ phase \in {"idle", "ac"} => sum.full = 0 /\ sum.now = 0
    /\ phase = "idle" => at = None /\ left = {} /\ ~onAc
    /\ phase = "then_ac" => sum.full # 0
    /\ sum.full = 0 => sum.now = 0
    /\ sum.full # 0 /\ ~seen.mixed => InHull(sum.full, sum.now)

\* A battery that has been added in two units has files of both.
MixedTrue ==
    seen.mixed =>
        \E b \in Bat :
            /\ \/ Has(b, "energy", "full") /\ Has(b, "charge", "now")
               \/ Has(b, "charge", "full") /\ Has(b, "energy", "now")
            /\ seen.calm => Preferred(b, "full") # Preferred(b, "now")

IInv ==
    /\ Typed
    /\ GlanceSeen
    /\ ReadsTrue
    /\ FellBack
    /\ BatteriesCounted
    /\ AdaptersCounted
    /\ SumInHull
    /\ MixedTrue
    /\ SaidOfSupplies
    /\ CapacityInHull

-----------------------------------------------------------------------------

LEMMA TimesMonotone ==
    ASSUME NEW a \in Int, NEW b \in Int, NEW c \in Nat, a <= b
    PROVE  a * c <= b * c
<1>1. (b - a) * c >= 0
  OBVIOUS
<1>2. (b - a) * c = b * c - a * c
  OBVIOUS
<1>3. QED
  BY <1>1, <1>2

LEMMA TimesCancel ==
    ASSUME NEW a \in Int, NEW b \in Int, NEW c \in Nat \ {0}, a * c <= b * c
    PROVE  a <= b
<1>1. CASE a > b
  <2>1. a >= b + 1 /\ c \in Nat /\ b + 1 \in Int
    BY <1>1
  <2>2. (b + 1) * c <= a * c
    BY <2>1, TimesMonotone
  <2>3. (b + 1) * c = b * c + c
    OBVIOUS
  <2>4. QED
    BY <2>2, <2>3
<1>2. QED
  BY <1>1

\* The mediant (N + n) / (F + f) of N / F and n / f is at least one of the two,
\* so it is above whatever is below N / F, or above n / f.
LEMMA MediantAbove ==
    ASSUME NEW F \in Nat \ {0}, NEW N \in Nat, NEW f \in Nat \ {0}, NEW n \in Nat,
           NEW p \in Nat \ {0}, NEW q \in Nat, q * F <= N * p
    PROVE  q * (F + f) <= (N + n) * p \/ n * (F + f) <= (N + n) * f
<1>1. CASE n * F <= N * f
  BY <1>1
<1>2. CASE N * f <= n * F
  <2>1. (q * F) * f <= (N * p) * f /\ (N * f) * p <= (n * F) * p
    BY <1>2, TimesMonotone
  <2>2. (q * f) * F = (q * F) * f /\ (N * p) * f = (N * f) * p /\ (n * F) * p = (n * p) * F
    OBVIOUS
  <2>3. (q * f) * F <= (n * p) * F
    BY <2>1, <2>2
  <2>4. q * f <= n * p
    BY <2>3, TimesCancel
  <2>5. q * (F + f) = q * F + q * f /\ (N + n) * p = N * p + n * p
    OBVIOUS
  <2>6. QED
    BY <2>4, <2>5
<1>3. QED
  BY <1>1, <1>2

LEMMA MediantBelow ==
    ASSUME NEW F \in Nat \ {0}, NEW N \in Nat, NEW f \in Nat \ {0}, NEW n \in Nat,
           NEW p \in Nat \ {0}, NEW q \in Nat, q * F >= N * p
    PROVE  q * (F + f) >= (N + n) * p \/ n * (F + f) >= (N + n) * f
<1>1. CASE n * F >= N * f
  BY <1>1
<1>2. CASE N * f >= n * F
  <2>1. (q * F) * f >= (N * p) * f /\ (N * f) * p >= (n * F) * p
    BY <1>2, TimesMonotone
  <2>2. (q * f) * F = (q * F) * f /\ (N * p) * f = (N * f) * p /\ (n * F) * p = (n * p) * F
    OBVIOUS
  <2>3. (n * p) * F <= (q * f) * F
    BY <2>1, <2>2
  <2>4. q * f >= n * p
    BY <2>3, TimesCancel
  <2>5. q * (F + f) = q * F + q * f /\ (N + n) * p = N * p + n * p
    OBVIOUS
  <2>6. QED
    BY <2>4, <2>5
<1>3. QED
  BY <1>1, <1>2

\* A battery more, of which one meter gave its full charge and a charge it had
\* during the call, leaves the share between two that were seen.
LEMMA SumStaysInHull ==
    ASSUME NEW full \in Nat, NEW now \in Nat, NEW m \in Metered, NEW n \in Nat,
           seen.charge \subseteq Meter \X Nat, <<m, n>> \in seen.charge,
           full = 0 => now = 0,
           full # 0 => InHull(full, now)
    PROVE  InHull(full + Full[m], now + n)
<1> USE ConstantsAssumption
<1> DEFINE f == Full[m]
<1>1. f \in Nat \ {0} /\ <<m, n>>[1] = m /\ <<m, n>>[2] = n
  BY DEF Metered
<1>2. CASE full = 0
  BY <1>1, <1>2 DEF InHull
<1>3. CASE full # 0
  <2>1. PICK bn \in seen.charge : bn[1] \in Metered /\ bn[2] * full <= now * Full[bn[1]]
    BY <1>3 DEF InHull
  <2>2. bn[2] \in Nat /\ Full[bn[1]] \in Nat \ {0}
    BY <2>1
  <2>3. bn[2] * (full + f) <= (now + n) * Full[bn[1]] \/ n * (full + f) <= (now + n) * f
    BY <1>1, <1>3, <2>1, <2>2, MediantAbove
  <2>4. \E k \in seen.charge : k[1] \in Metered /\ k[2] * (full + f) <= (now + n) * Full[k[1]]
    BY <1>1, <2>1, <2>3
  <2>5. PICK cn \in seen.charge : cn[1] \in Metered /\ cn[2] * full >= now * Full[cn[1]]
    BY <1>3 DEF InHull
  <2>6. cn[2] \in Nat /\ Full[cn[1]] \in Nat \ {0}
    BY <2>5
  <2>7. cn[2] * (full + f) >= (now + n) * Full[cn[1]] \/ n * (full + f) >= (now + n) * f
    BY <1>1, <1>3, <2>5, <2>6, MediantBelow
  <2>8. \E k \in seen.charge : k[1] \in Metered /\ k[2] * (full + f) >= (now + n) * Full[k[1]]
    BY <1>1, <2>5, <2>7
  <2>9. QED
    BY <2>4, <2>8 DEF InHull
<1>4. QED
  BY <1>2, <1>3

-----------------------------------------------------------------------------

LEMMA InvInit == Init => IInv
<1> SUFFICES ASSUME Init PROVE IInv
  OBVIOUS
<1> USE ConstantsAssumption
<1>1. Typed
  <2>1. seen \in SeenType
    BY DEF Init, Glance, SeenType
  <2>2. charge \in [Meter -> Nat] /\ got \in Seq(ReadType) /\ Len(got) < 3
    BY DEF Init
  <2>3. sum.full \in Nat /\ sum.now \in Nat /\ sum.current \in Int
    BY DEF Init, NoSum
  <2>4. at = None /\ unit \in Unit /\ unit = "energy"
    BY DEF Init, Unit
  <2>5. QED
    BY <2>1, <2>2, <2>3, <2>4 DEF Init, Typed
<1>2. /\ GlanceSeen /\ BatteriesCounted /\ AdaptersCounted /\ ReadsTrue /\ FellBack
      /\ SumInHull /\ MixedTrue
  BY DEF Init, GlanceSeen, ReadsTrue, FellBack, BatteriesCounted, AdaptersCounted, SumInHull,
         MixedTrue, NoSum, Supply, Glance
<1>3. SaidOfSupplies /\ CapacityInHull
  BY DEF Init, SaidOfSupplies, CapacityInHull, Returned, Outcome
<1>4. QED
  BY <1>1, <1>2, <1>3 DEF IInv

\* What was read stays true.
LEMMA ReadMore ==
    ASSUME NEW sn, NEW tn, NEW b, NEW i, NEW v, ReadTrue(sn, b, i, v),
           sn.charge \subseteq tn.charge, sn.off \subseteq tn.off, tn.calm => sn.calm
    PROVE  ReadTrue(tn, b, i, v)
BY DEF ReadTrue

\* What a call has established stays established when more has been seen, and
\* nothing but that and the world has changed.
LEMMA MoreSeen ==
    ASSUME IInv, UNCHANGED <<phase, left, at, got, sum, onAc, ret>>,
           IF phase = "idle"
           THEN seen' = seen
           ELSE /\ seen.charge \subseteq seen'.charge
                /\ seen.on \subseteq seen'.on
                /\ seen.off \subseteq seen'.off
                /\ seen'.calm => seen.calm /\ present' = present
                /\ seen'.mixed = seen.mixed
    PROVE  /\ ReadsTrue' /\ BatteriesCounted' /\ AdaptersCounted' /\ SumInHull' /\ MixedTrue'
           /\ SaidOfSupplies' /\ CapacityInHull'
<1> USE ConstantsAssumption
<1>1. CASE phase = "idle"
  <2>1. at = None /\ None \notin Bat
    BY <1>1 DEF IInv, SumInHull
  <2>2. ReadsTrue'
    BY <1>1, <2>1 DEF IInv, ReadsTrue
  <2>3. QED
    BY <1>1, <2>2 DEF IInv, BatteriesCounted, AdaptersCounted, SumInHull, InHull, MixedTrue,
                      SaidOfSupplies, CapacityInHull, Returned
<1>2. CASE phase # "idle"
  <2>1. ReadsTrue'
    <3>1. at \in Bat => \A i \in 1..Len(got) : ReadTrue(seen', at, i, got[i])
      <4> SUFFICES ASSUME at \in Bat, NEW i \in 1..Len(got) PROVE ReadTrue(seen', at, i, got[i])
        OBVIOUS
      <4>1. ReadTrue(seen, at, i, got[i])
        BY DEF IInv, ReadsTrue
      <4>2. QED
        BY <1>2, <4>1, ReadMore
    <3>2. QED
      BY <1>2, <3>1 DEF IInv, ReadsTrue
  <2>2. BatteriesCounted' /\ AdaptersCounted'
    BY <1>2 DEF IInv, BatteriesCounted, AdaptersCounted
  <2>3. SumInHull' /\ MixedTrue'
    BY <1>2 DEF IInv, SumInHull, InHull, MixedTrue
  <2>4. SaidOfSupplies' /\ CapacityInHull'
    BY <1>2 DEF SaidOfSupplies, CapacityInHull, Returned
  <2>5. QED
    BY <2>1, <2>2, <2>3, <2>4
<1>3. QED
  BY <1>1, <1>2

\* The world changes, and a call in progress sees it.
LEMMA OutsideStep ==
    ASSUME IInv, NEW p \in SUBSET Supply, NEW c \in [Meter -> Nat],
           NEW o \in [Ac -> BOOLEAN], Outside(p, c, o)
    PROVE  IInv'
<1> USE ConstantsAssumption
<1>1. /\ present' = p /\ charge' = c /\ online' = o
      /\ UNCHANGED <<phase, left, at, got, unit, sum, onAc, ret>>
  BY DEF Outside
<1>2. phase = "idle" => seen' = seen
  BY DEF Outside
<1>3. phase # "idle" =>
        /\ seen'.charge = seen.charge \cup {<<m, c[m]>> : m \in {m \in Meter : m[1] \in p}}
        /\ seen'.on = seen.on \cup {a \in Ac \cap p : o[a]}
        /\ seen'.off = seen.off \cup {s \in Supply : s \notin p \/ (s \in Ac /\ ~o[s])}
        /\ ~seen'.calm /\ seen'.mixed = seen.mixed
  BY DEF Outside, Glance
<1>4. Typed'
  <2>1. seen' \in SeenType
    <3>1. seen \in SeenType
      BY DEF IInv, Typed
    <3>2. {<<m, c[m]>> : m \in {m \in Meter : m[1] \in p}} \subseteq Meter \X Nat
      OBVIOUS
    <3>3. QED
      BY <3>1, <3>2 DEF Outside, Glance, SeenType
  <2>2. QED
    BY <1>1, <2>1 DEF IInv, Typed
<1>5. GlanceSeen'
  <2>1. CASE phase = "idle"
    BY <1>1, <2>1 DEF GlanceSeen
  <2>2. CASE phase # "idle"
    BY <1>1, <1>3, <2>2 DEF GlanceSeen, Supply
  <2>3. QED
    BY <2>1, <2>2
<1>6. FellBack'
  <2>1. CASE phase = "idle"
    BY <1>1, <1>2, <2>1 DEF IInv, FellBack
  <2>2. CASE phase # "idle"
    BY <1>1, <1>3, <2>2 DEF IInv, FellBack
  <2>3. QED
    BY <2>1, <2>2
<1>7. /\ ReadsTrue' /\ BatteriesCounted' /\ AdaptersCounted' /\ SumInHull' /\ MixedTrue'
      /\ SaidOfSupplies' /\ CapacityInHull'
  BY <1>1, <1>2, <1>3, MoreSeen
<1>8. QED
  BY <1>4, <1>5, <1>6, <1>7 DEF IInv

LEMMA WorldSteps ==
    ASSUME IInv,
           \/ \E s \in Supply : Connect(s) \/ Disconnect(s)
           \/ \E m \in Meter : \E n \in 0..Full[m] : SetCharge(m, n)
           \/ \E a \in Ac : Switch(a)
    PROVE  IInv'
<1> USE ConstantsAssumption
<1>1. present \subseteq Supply /\ charge \in [Meter -> Nat] /\ online \in [Ac -> BOOLEAN]
  BY DEF IInv, Typed
<1>2. ASSUME NEW s \in Supply, Connect(s) \/ Disconnect(s) PROVE IInv'
  BY <1>1, <1>2, OutsideStep DEF Connect, Disconnect
<1>3. ASSUME NEW m \in Meter, NEW n \in 0..Full[m], SetCharge(m, n) PROVE IInv'
  <2>1. [charge EXCEPT ![m] = n] \in [Meter -> Nat]
    BY <1>1
  <2>2. QED
    BY <1>1, <1>3, <2>1, OutsideStep DEF SetCharge
<1>4. ASSUME NEW a \in Ac, Switch(a) PROVE IInv'
  <2>1. [online EXCEPT ![a] = ~@] \in [Ac -> BOOLEAN]
    BY <1>1
  <2>2. QED
    BY <1>1, <1>4, <2>1, OutsideStep DEF Switch
<1>5. QED
  BY <1>2, <1>3, <1>4

\* A call begins: it has seen the present.
LEMMA CallSteps ==
    ASSUME IInv, (\E loop \in {"batteries", "ac"} : Call(loop)) \/ CallFails
    PROVE  IInv'
<1> USE ConstantsAssumption DEF world
<1>1. CASE CallFails
  <2>1. Typed' /\ GlanceSeen'
    BY <1>1 DEF CallFails, IInv, Typed, GlanceSeen
  <2>2. /\ ReadsTrue' /\ FellBack' /\ BatteriesCounted' /\ AdaptersCounted' /\ SumInHull'
        /\ MixedTrue'
    BY <1>1 DEF CallFails, IInv, ReadsTrue, FellBack, BatteriesCounted, AdaptersCounted, SumInHull,
                InHull, MixedTrue
  <2>3. SaidOfSupplies' /\ CapacityInHull'
    BY <1>1 DEF CallFails, SaidOfSupplies, CapacityInHull, Returned, Outcome
  <2>4. QED
    BY <2>1, <2>2, <2>3 DEF IInv
<1>2. ASSUME NEW loop \in {"batteries", "ac"}, Call(loop) PROVE IInv'
  <2>1. /\ phase = "idle" /\ phase' = loop /\ left' = present
        /\ UNCHANGED <<present, charge, online, at, got, unit, sum, onAc>>
    BY <1>2 DEF Call
  <2>2. /\ seen'.charge = {<<m, charge[m]>> : m \in {m \in Meter : m[1] \in present}}
        /\ ~seen'.mixed
        /\ seen'.on = {a \in Ac \cap present : online[a]}
        /\ seen'.off = {s \in Supply : s \notin present \/ (s \in Ac /\ ~online[s])}
    BY <1>2 DEF Call, Glance
  <2>3. at = None /\ ~onAc /\ got = << >> /\ sum.full = 0 /\ sum.now = 0
    BY <2>1 DEF IInv, SumInHull, ReadsTrue
  <2>4. Typed'
    <3>1. seen' \in SeenType
      <4>1. {<<m, charge[m]>> : m \in {m \in Meter : m[1] \in present}} \subseteq Meter \X Nat
        BY DEF IInv, Typed
      <4>2. QED
        BY <1>2, <4>1 DEF Call, Glance, SeenType
    <3>2. QED
      BY <2>1, <2>3, <3>1 DEF IInv, Typed
  <2>5. GlanceSeen'
    BY <2>1, <2>2 DEF GlanceSeen, Supply
  <2>6. /\ ReadsTrue' /\ FellBack' /\ BatteriesCounted' /\ AdaptersCounted' /\ SumInHull'
        /\ MixedTrue'
    BY <2>1, <2>2, <2>3
       DEF IInv, Typed, ReadsTrue, FellBack, BatteriesCounted, AdaptersCounted, SumInHull,
           MixedTrue, Supply, Complete
  <2>7. SaidOfSupplies' /\ CapacityInHull'
    BY <2>1 DEF SaidOfSupplies, CapacityInHull, Returned
  <2>8. QED
    BY <2>4, <2>5, <2>6, <2>7 DEF IInv
<1>3. QED
  BY <1>1, <1>2

\* A supply counts as off from now on.
LEMMA BlurSees ==
    ASSUME IInv, NEW s \in Supply, Blur(s)
    PROVE  /\ seen'.charge = seen.charge /\ seen'.on = seen.on
           /\ seen'.off = seen.off \cup {s}
           /\ ~seen'.calm /\ seen'.mixed = seen.mixed
           /\ seen' \in SeenType
<1>1. seen \in SeenType
  BY DEF IInv, Typed
<1>2. seen' = [charge |-> seen.charge, on |-> seen.on, off |-> seen.off \cup {s},
               calm |-> FALSE, mixed |-> seen.mixed]
  BY <1>1 DEF Blur, SeenType
<1>3. QED
  BY <1>1, <1>2 DEF SeenType

\* The next entry of the directory.
LEMMA EntrySteps ==
    ASSUME IInv, NEW s \in left, Visit(s) \/ Skip(s)
    PROVE  IInv'
<1> USE ConstantsAssumption DEF world
<1>1. s \in Supply /\ at = None
  BY DEF IInv, Typed, Visit, Skip
<1>2. phase # "idle" => (s \notin present => s \in seen.off)
  BY <1>1 DEF IInv, GlanceSeen
<1>3. CASE Visit(s)
  <2>1. /\ left' = left \ {s} /\ at' = s
        /\ s \in IF phase = "batteries" THEN Bat ELSE Ac
        /\ s \in present
        /\ UNCHANGED <<present, charge, online, phase, got, unit, sum, onAc, ret, seen>>
    BY <1>3 DEF Visit
  <2>2. got = << >> /\ phase # "idle" /\ unit = "energy"
    BY <1>1 DEF IInv, Typed, ReadsTrue, SumInHull
  <2>3. Typed'
    BY <2>1, <2>2 DEF IInv, Typed
  <2>4. GlanceSeen' /\ ReadsTrue' /\ FellBack'
    BY <2>1, <2>2 DEF IInv, GlanceSeen, ReadsTrue, FellBack
  <2>5. BatteriesCounted' /\ AdaptersCounted'
    BY <1>1, <2>1 DEF IInv, BatteriesCounted, AdaptersCounted, Complete
  <2>6. SumInHull' /\ MixedTrue'
    BY <2>1, <2>2 DEF IInv, SumInHull, InHull, MixedTrue
  <2>7. SaidOfSupplies' /\ CapacityInHull'
    BY <2>1, <2>2 DEF SaidOfSupplies, CapacityInHull, Returned
  <2>8. QED
    BY <2>3, <2>4, <2>5, <2>6, <2>7 DEF IInv
<1>4. CASE Skip(s)
  <2>1. /\ left' = left \ {s} /\ at = None
        /\ UNCHANGED <<present, charge, online, phase, at, got, unit, sum, onAc, ret>>
    BY <1>4 DEF Skip
  <2>2. /\ seen'.charge = seen.charge /\ seen'.on = seen.on
        /\ seen.off \subseteq seen'.off /\ seen'.off \subseteq seen.off \cup {s}
        /\ s \in present /\ s \in (IF phase = "batteries" THEN Bat ELSE Ac) => s \in seen'.off
        /\ seen'.calm => seen.calm
        /\ seen'.mixed = seen.mixed
        /\ seen' \in SeenType
    <3> DEFINE hit == s \in present /\ s \in (IF phase = "batteries" THEN Bat ELSE Ac)
    <3>1. CASE hit
      <4>1. Blur(s)
        BY <1>4, <3>1 DEF Skip
      <4>2. QED
        BY <1>1, <4>1, BlurSees
    <3>2. CASE ~hit
      <4>1. seen' = seen
        BY <1>4, <3>2 DEF Skip
      <4>2. QED
        BY <3>2, <4>1 DEF IInv, Typed
    <3>3. QED
      BY <3>1, <3>2
  <2>3. phase # "idle"
    BY <1>1 DEF IInv, SumInHull
  <2>4. s \in (IF phase = "batteries" THEN Bat ELSE Ac) => s \in seen'.off
    BY <1>2, <2>2, <2>3
  <2>5. Typed'
    BY <1>1, <2>1, <2>2 DEF IInv, Typed
  <2>6. GlanceSeen' /\ ReadsTrue' /\ FellBack'
    BY <2>1, <2>2 DEF IInv, GlanceSeen, ReadsTrue, FellBack
  <2>7. BatteriesCounted' /\ AdaptersCounted'
    BY <2>1, <2>2, <2>4 DEF IInv, BatteriesCounted, AdaptersCounted, Complete
  <2>8. SumInHull' /\ MixedTrue'
    BY <2>1, <2>2, <2>3 DEF IInv, SumInHull, InHull, MixedTrue
  <2>9. SaidOfSupplies' /\ CapacityInHull'
    BY <2>1, <2>3 DEF SaidOfSupplies, CapacityInHull, Returned
  <2>10. QED
    BY <2>5, <2>6, <2>7, <2>8, <2>9 DEF IInv
<1>5. QED
  BY <1>3, <1>4

\* The values read so far and the next one are true.
LEMMA TakenTrue ==
    ASSUME IInv, at \in Bat, NEW value \in ReadType,
           seen'.charge = seen.charge, seen.off \subseteq seen'.off, seen'.calm => seen.calm,
           ReadTrue(seen', at, Len(got) + 1, value)
    PROVE  /\ got \in Seq(ReadType) /\ Len(got) \in 0..2
           /\ Append(got, value) \in Seq(ReadType) /\ Len(Append(got, value)) = Len(got) + 1
           /\ \A i \in 1..Len(got) : Append(got, value)[i] = got[i]
           /\ Append(got, value)[Len(got) + 1] = value
           /\ \A i \in 1..Len(got) + 1 : ReadTrue(seen', at, i, Append(got, value)[i])
<1>1. got \in Seq(ReadType) /\ Len(got) < 3
  BY DEF IInv, Typed
<1>2. Len(got) \in 0..2
  <2>1. Len(got) \in Nat
    BY <1>1
  <2>2. \A n \in Nat : n < 3 => n \in 0..2
    OBVIOUS
  <2>3. QED
    BY <1>1, <2>1, <2>2
<1> DEFINE values == Append(got, value)
<1>3. values \in Seq(ReadType) /\ Len(values) = Len(got) + 1
  BY <1>1
<1>4. /\ \A i \in 1..Len(got) : values[i] = got[i]
      /\ values[Len(got) + 1] = value
  BY <1>1
<1>5. 1..Len(got) + 1 = 1..Len(got) \cup {Len(got) + 1}
  BY <1>2
<1>6. ASSUME NEW i \in 1..Len(got) PROVE ReadTrue(seen', at, i, values[i])
  <2>1. ReadTrue(seen, at, i, got[i])
    BY DEF IInv, ReadsTrue
  <2>2. QED
    BY <1>4, <2>1, ReadMore
<1>7. QED
  BY <1>1, <1>2, <1>3, <1>4, <1>5, <1>6

\* A value of the battery at work, be it read or not.
LEMMA TakeStep ==
    ASSUME IInv, phase = "batteries", at \in Bat,
           NEW value \in ReadType, Take(value),
           seen' \in SeenType,
           seen'.charge = seen.charge, seen'.on = seen.on,
           seen.off \subseteq seen'.off, seen'.off \subseteq seen.off \cup {at},
           seen'.calm => seen.calm,
           seen'.mixed <=> seen.mixed \/ (~value.failed /\ Mixed),
           ReadTrue(seen', at, Len(got) + 1, value)
    PROVE  IInv'
<1> USE ConstantsAssumption DEF world
<1> DEFINE values == Append(got, value)
<1>0. /\ Len(values) < 3 => got' = values /\ UNCHANGED <<at, sum>>
      /\ ~(Len(values) < 3) => got' = << >> /\ at' = None /\ sum' = AddUp(values)
      /\ unit' = "energy"
  BY DEF Take
<1>1. /\ UNCHANGED <<present, charge, online, phase, left, onAc, ret>>
      /\ got \in Seq(ReadType) /\ Len(got) \in 0..2
      /\ values \in Seq(ReadType) /\ Len(values) = Len(got) + 1
      /\ \A i \in 1..Len(got) : values[i] = got[i]
      /\ values[Len(got) + 1] = value
  BY TakenTrue DEF Take
<1> HIDE DEF values
<1>2. at \in Supply /\ at # None /\ unit' \in Unit
  BY <1>0 DEF Supply, Unit
<1>3. GlanceSeen' /\ AdaptersCounted' /\ SaidOfSupplies' /\ CapacityInHull' /\ FellBack'
  BY <1>0, <1>1 DEF IInv, GlanceSeen, AdaptersCounted, SaidOfSupplies, CapacityInHull, Returned,
                    FellBack
<1>4. \A i \in 1..Len(values) : ReadTrue(seen', at, i, values[i])
  BY <1>1, TakenTrue DEF values
<1>5. seen.calm => at \in present
  BY <1>2 DEF IInv, ReadsTrue
<1>6. seen.mixed \in BOOLEAN /\ seen'.mixed \in BOOLEAN
  BY DEF IInv, Typed, SeenType
<1>7. CASE Len(values) < 3
  <2>1. got' = values /\ UNCHANGED <<at, sum>>
    BY <1>0, <1>7
  <2>2. Typed'
    BY <1>1, <1>2, <1>7, <2>1 DEF IInv, Typed
  <2>3. ReadsTrue'
    BY <1>1, <1>4, <1>5, <2>1 DEF ReadsTrue
  <2>4. seen'.mixed = seen.mixed
    <3>1. ~Mixed
      BY <1>1, <1>7 DEF Mixed
    <3>2. QED
      BY <1>6, <3>1
  <2>5. BatteriesCounted' /\ SumInHull' /\ MixedTrue'
    BY <1>1, <2>1, <2>4 DEF IInv, BatteriesCounted, SumInHull, InHull, MixedTrue
  <2>6. QED
    BY <1>3, <2>2, <2>3, <2>5 DEF IInv
<1>8. CASE Len(values) = 3
  <2>1. got' = << >> /\ at' = None /\ sum' = AddUp(values)
    BY <1>0, <1>8
  <2>2. ReadsTrue'
    BY <2>1 DEF ReadsTrue
  <2>3. /\ Len(got) = 2 /\ values[1] = got[1] /\ values[2] = got[2] /\ values[3] = value
        /\ values[3] \in ReadType
    <3>1. Len(got) = 2
      <4>1. \A n \in 0..2 : n + 1 = 3 => n = 2
        OBVIOUS
      <4>2. QED
        BY <1>1, <1>8, <4>1
    <3>2. 1 \in 1..Len(got) /\ 2 \in 1..Len(got) /\ Len(got) + 1 = 3
      BY <3>1
    <3>3. values[3] = value
      BY <1>1, <3>2
    <3>4. QED
      BY <1>1, <3>1, <3>2, <3>3
  <2>4. /\ ReadTrue(seen', at, 1, values[1]) /\ ReadTrue(seen', at, 2, values[2])
        /\ ReadTrue(seen', at, 3, values[3])
    BY <1>4, <1>8
  <2>5. CASE \E i \in 1..3 : values[i].failed
    <3>1. sum' = sum
      BY <2>1, <2>5 DEF AddUp
    <3>2. at \in Complete => at \in seen'.off
      BY <2>4, <2>5 DEF ReadTrue
    <3>3. Typed'
      <4>1. got' \in Seq(ReadType) /\ Len(got') < 3 /\ unit' = "energy"
        BY <1>0, <2>1
      <4>2. QED
        BY <1>1, <1>2, <2>1, <3>1, <4>1 DEF IInv, Typed
    <3>4. seen'.mixed = seen.mixed
      <4>1. ~(~value.failed /\ Mixed)
        BY <2>3, <2>5 DEF Mixed
      <4>2. QED
        BY <1>6, <4>1
    <3>5. BatteriesCounted' /\ SumInHull' /\ MixedTrue'
      BY <1>1, <2>1, <3>1, <3>2, <3>4
         DEF IInv, BatteriesCounted, SumInHull, InHull, MixedTrue
    <3>6. QED
      BY <1>3, <2>2, <3>3, <3>5 DEF IInv
  <2>6. CASE \A i \in 1..3 : ~values[i].failed
    <3>1. /\ ~values[1].failed /\ ~values[2].failed /\ ~values[3].failed
      BY <2>6
    <3> DEFINE u == values[1].unit
               w == values[2].unit
               full == values[1].value
               now == values[2].value
    <3>2. /\ u \in Unit /\ Has(at, u, "full") /\ full = Full[<<at, u>>]
          /\ w \in Unit /\ Has(at, w, "now") /\ <<<<at, w>>, now>> \in seen.charge
          /\ seen'.calm => u = Preferred(at, "full") /\ w = Preferred(at, "now")
      BY <2>4, <3>1 DEF ReadTrue, Q
    <3>3. /\ sum'.full = sum.full + full /\ sum'.now = sum.now + now
          /\ sum'.current = sum.current + values[3].value
      BY <2>1, <2>6 DEF AddUp
    <3>4. seen'.mixed <=> seen.mixed \/ u # w
      BY <2>3, <3>1 DEF Mixed
    <3>5. values[3].value \in Int
      BY <2>3 DEF ReadType
    <3> HIDE DEF u, w, full, now
    <3>6. /\ sum.full \in Nat /\ sum.now \in Nat /\ sum.current \in Int
          /\ seen.charge \subseteq Meter \X Nat
      BY DEF IInv, Typed, SeenType
    <3>7. full \in Nat \ {0} /\ now \in Nat
      <4>1. <<at, u>> \in Meter
        BY <3>2 DEF Meter
      <4>2. now \in Nat
        BY <3>2, <3>6
      <4>3. QED
        BY <3>2, <4>1, <4>2
    <3>8. sum'.full \in Nat \ {0} /\ sum'.now \in Nat /\ sum'.current \in Int
      <4>1. \A x \in Nat : x + full \in Nat \ {0} /\ x + now \in Nat
        BY <3>7
      <4>2. \A x, y \in Int : x + y \in Int
        OBVIOUS
      <4>3. QED
        BY <3>3, <3>5, <3>6, <4>1, <4>2
    <3>9. Typed'
      <4>1. got' \in Seq(ReadType) /\ Len(got') < 3 /\ unit' = "energy"
        BY <1>0, <2>1
      <4>2. QED
        BY <1>1, <1>2, <2>1, <3>8, <4>1 DEF IInv, Typed
    <3>10. BatteriesCounted'
      BY <1>1, <3>8 DEF IInv, BatteriesCounted
    <3>11. ~seen'.mixed => InHull(sum'.full, sum'.now)
      <4> SUFFICES ASSUME ~seen'.mixed PROVE InHull(sum'.full, sum'.now)
        OBVIOUS
      <4>1. u = w /\ ~seen.mixed
        BY <3>4
      <4>2. <<at, u>> \in Metered
        BY <3>2, <4>1 DEF Metered, Meter
      <4>3. <<<<at, u>>, now>> \in seen.charge
        BY <3>2, <4>1
      <4>4. (sum.full = 0 => sum.now = 0) /\ (sum.full # 0 => InHull(sum.full, sum.now))
        BY <4>1 DEF IInv, SumInHull
      <4>5. InHull(sum.full + Full[<<at, u>>], sum.now + now)
        BY <3>6, <3>7, <4>2, <4>3, <4>4, SumStaysInHull
      <4>6. QED
        BY <3>2, <3>3, <4>5
    <3>12. SumInHull'
      BY <1>1, <3>8, <3>11 DEF SumInHull, InHull
    <3>13. MixedTrue'
      <4> SUFFICES ASSUME seen'.mixed
                   PROVE  \E b \in Bat :
                            /\ \/ Has(b, "energy", "full") /\ Has(b, "charge", "now")
                               \/ Has(b, "charge", "full") /\ Has(b, "energy", "now")
                            /\ seen'.calm => Preferred(b, "full") # Preferred(b, "now")
        BY DEF MixedTrue
      <4>1. CASE seen.mixed
        BY <4>1 DEF IInv, MixedTrue
      <4>2. CASE u # w
        BY <3>2, <4>2 DEF Unit
      <4>3. QED
        BY <3>4, <4>1, <4>2
    <3>14. QED
      BY <1>3, <2>2, <3>9, <3>10, <3>12, <3>13 DEF IInv
  <2>7. QED
    BY <2>5, <2>6
<1>9. QED
  BY <1>1, <1>7, <1>8

\* A value is looked for in both units before it is given up.
LEMMA FallBackStep ==
    ASSUME IInv, FallBack
    PROVE  IInv'
<1> USE ConstantsAssumption DEF world
<1>1. /\ phase = "batteries" /\ at # None /\ unit = "energy" /\ unit' = "charge"
      /\ UNCHANGED <<present, charge, online, phase, left, at, got, sum, onAc, ret>>
  BY DEF FallBack
<1>2. at \in Bat /\ at \in Supply
  BY <1>1 DEF IInv, Typed, Supply
<1>3. /\ seen'.charge = seen.charge /\ seen'.on = seen.on
      /\ seen.off \subseteq seen'.off
      /\ seen'.calm => seen.calm
      /\ seen'.mixed = seen.mixed /\ seen' \in SeenType
      /\ Readable => at \in seen'.off /\ ~seen'.calm
  <2>1. CASE Readable
    BY <1>2, <2>1, BlurSees DEF FallBack
  <2>2. CASE ~Readable
    BY <2>2 DEF FallBack, IInv, Typed
  <2>3. QED
    BY <2>1, <2>2
<1>4. Typed' /\ GlanceSeen'
  BY <1>1, <1>2, <1>3 DEF IInv, Typed, Unit, GlanceSeen
<1>5. FellBack'
  <2> SUFFICES ASSUME Has(at, "energy", Q(Len(got) + 1))
               PROVE  at \in seen'.off /\ ~seen'.calm
    BY <1>1 DEF FellBack
  <2>1. CASE at \in present
    <3>1. Readable
      BY <1>1, <2>1 DEF Readable, Asked, Q
    <3>2. QED
      BY <1>3, <3>1
  <2>2. CASE at \notin present
    BY <1>1, <1>2, <1>3, <2>2 DEF IInv, GlanceSeen, ReadsTrue
  <2>3. QED
    BY <2>1, <2>2
<1>6. /\ ReadsTrue' /\ BatteriesCounted' /\ AdaptersCounted' /\ SumInHull' /\ MixedTrue'
      /\ SaidOfSupplies' /\ CapacityInHull'
  BY <1>1, <1>3, MoreSeen
<1>7. QED
  BY <1>4, <1>5, <1>6 DEF IInv

\* A value that could be read, or not, in either unit.
LEMMA ValueTaken ==
    ASSUME IInv, ReadValue \/ ValueFails
    PROVE  /\ phase = "batteries" /\ at \in Bat
           /\ \E value \in ReadType :
                /\ Take(value)
                /\ seen' \in SeenType
                /\ seen'.charge = seen.charge /\ seen'.on = seen.on
                /\ seen.off \subseteq seen'.off /\ seen'.off \subseteq seen.off \cup {at}
                /\ seen'.calm => seen.calm
                /\ seen'.mixed <=> seen.mixed \/ (~value.failed /\ Mixed)
                /\ ReadTrue(seen', at, Len(got) + 1, value)
<1> USE ConstantsAssumption
<1>1. phase = "batteries" /\ at \in Bat /\ at \in Supply /\ unit \in Unit /\ at # None
  BY DEF ReadValue, Readable, ValueFails, IInv, Typed, Supply
<1>2. seen \in SeenType /\ Len(got) \in 0..2
  <2>1. got \in Seq(ReadType) /\ Len(got) < 3
    BY DEF IInv, Typed
  <2>2. Len(got) \in Nat
    BY <2>1
  <2>3. \A n \in Nat : n < 3 => n \in 0..2
    OBVIOUS
  <2>4. QED
    BY <2>1, <2>2, <2>3 DEF IInv, Typed
<1>3. /\ Asked = Q(Len(got) + 1) /\ Asked \in Quantity
      /\ Len(got) + 1 = 1 <=> Asked = "full"
      /\ Len(got) + 1 = 2 <=> Asked = "now"
  <2>1. \A n \in 0..2 : /\ Q(n + 1) \in Quantity
                        /\ n + 1 = 1 <=> Q(n + 1) = "full"
                        /\ n + 1 = 2 <=> Q(n + 1) = "now"
    BY DEF Q, Quantity
  <2>2. QED
    BY <1>2, <2>1 DEF Asked, Q
<1>4. seen.calm => at \in present
  BY <1>1 DEF IInv, ReadsTrue
<1>5. at \notin present => at \in seen.off
  BY <1>1 DEF IInv, GlanceSeen
<1>6. unit = "charge" /\ Has(at, "energy", Asked) => at \in seen.off /\ ~seen.calm
  BY <1>1, <1>3 DEF IInv, FellBack
<1>7. CASE ValueFails
  <2>1. Failed \in ReadType /\ Failed.failed
    BY DEF Failed, ReadType
  <2>2. unit = "charge" /\ Take(Failed)
    BY <1>7 DEF ValueFails
  <2>3. /\ seen' \in SeenType /\ seen'.charge = seen.charge /\ seen'.on = seen.on
        /\ seen.off \subseteq seen'.off /\ seen'.off \subseteq seen.off \cup {at}
        /\ seen'.calm => seen.calm
        /\ seen'.mixed = seen.mixed
        /\ Readable => at \in seen'.off /\ ~seen'.calm
    <3>1. CASE Readable
      BY <1>1, <1>7, <3>1, BlurSees DEF ValueFails
    <3>2. CASE ~Readable
      BY <1>2, <1>7, <3>2 DEF ValueFails
    <3>3. QED
      BY <3>1, <3>2
  <2>4. ReadTrue(seen', at, Len(got) + 1, Failed)
    <3>1. at \in Complete => at \in seen'.off /\ ~seen'.calm
      <4> SUFFICES ASSUME at \in Complete PROVE at \in seen'.off /\ ~seen'.calm
        OBVIOUS
      <4>1. Has(at, "energy", Asked) \/ Has(at, "charge", Asked)
        BY <1>3 DEF Complete
      <4>2. CASE at \notin present
        BY <1>4, <1>5, <2>3, <4>2
      <4>3. CASE Has(at, "energy", Asked)
        BY <1>6, <2>2, <2>3, <4>3
      <4>4. CASE at \in present /\ Has(at, "charge", Asked)
        BY <2>2, <2>3, <4>4 DEF Readable
      <4>5. QED
        BY <4>1, <4>2, <4>3, <4>4
    <3>2. QED
      BY <2>1, <3>1 DEF ReadTrue
  <2>5. seen'.mixed <=> seen.mixed \/ (~Failed.failed /\ Mixed)
    BY <2>1, <2>3
  <2>6. QED
    BY <1>1, <2>1, <2>2, <2>3, <2>4, <2>5
<1>8. CASE ReadValue
  <2>1. at \in present /\ Has(at, unit, Asked)
    BY <1>8 DEF ReadValue, Readable
  <2>2. PICK v : /\ Take(Value(unit, v)) /\ v \in Int
                 /\ Asked = "full" => v = Full[<<at, unit>>]
                 /\ Asked = "now" => <<<<at, unit>>, v>> \in seen.charge
    <3>1. <<at, unit>> \in Meter /\ <<at, unit>>[1] = at
      BY <1>1 DEF Meter
    <3>2. Full[<<at, unit>>] \in Int /\ charge[<<at, unit>>] \in Int
      BY <3>1 DEF IInv, Typed
    <3>3. <<<<at, unit>>, charge[<<at, unit>>]>> \in seen.charge
      BY <1>1, <2>1, <3>1 DEF IInv, GlanceSeen
    <3>4. CASE Asked = "full"
      BY <1>8, <3>2, <3>4 DEF ReadValue
    <3>5. CASE Asked = "now"
      BY <1>8, <3>2, <3>3, <3>5 DEF ReadValue
    <3>6. CASE Asked = "current"
      BY <1>8, <3>6 DEF ReadValue
    <3>7. QED
      BY <1>3, <3>4, <3>5, <3>6 DEF Quantity
  <2> DEFINE value == Value(unit, v)
  <2>3. value \in ReadType /\ ~value.failed /\ value.value = v /\ value.unit = unit
    BY <1>1, <2>2 DEF Value, ReadType
  <2>4. seen' = [seen EXCEPT !.mixed = @ \/ Mixed]
    BY <1>8 DEF ReadValue
  <2>5. seen' = [charge |-> seen.charge, on |-> seen.on, off |-> seen.off, calm |-> seen.calm,
                 mixed |-> seen.mixed \/ Mixed]
    BY <1>2, <2>4 DEF SeenType
  <2>6. (seen.mixed \/ Mixed) \in BOOLEAN
    OBVIOUS
  <2>7. /\ seen' \in SeenType /\ seen'.charge = seen.charge /\ seen'.on = seen.on
        /\ seen'.off = seen.off /\ seen'.calm = seen.calm
    BY <1>2, <2>5, <2>6 DEF SeenType
  <2>8. seen'.mixed <=> seen.mixed \/ (~value.failed /\ Mixed)
    BY <2>3, <2>5
  <2>9. ReadTrue(seen', at, Len(got) + 1, value)
    <3>1. seen.calm => unit = Preferred(at, Asked)
      BY <1>1, <1>6, <2>1 DEF Preferred, Unit
    <3>2. QED
      BY <1>1, <1>3, <2>1, <2>2, <2>3, <2>7, <3>1 DEF ReadTrue
  <2> HIDE DEF value
  <2>10. Take(value)
    BY <2>2 DEF value
  <2>11. QED
    BY <1>1, <2>3, <2>7, <2>8, <2>9, <2>10
<1>9. QED
  BY <1>7, <1>8

LEMMA ValueSteps ==
    ASSUME IInv, ReadValue \/ ValueFails
    PROVE  IInv'
BY ValueTaken, TakeStep

\* The end of the first loop.
LEMMA LoopSteps ==
    ASSUME IInv, NoBattery \/ ThenAc
    PROVE  IInv'
<1> USE ConstantsAssumption DEF world
<1>1. /\ phase = "batteries" /\ at = None /\ left = {}
      /\ UNCHANGED <<present, charge, online, at, got, unit, onAc, seen>>
  BY DEF NoBattery, ThenAc
<1>2. ~onAc /\ (sum.full = 0 => Complete \subseteq seen.off)
  BY <1>1 DEF IInv, BatteriesCounted, Complete
<1>3. CASE NoBattery
  <2>1. /\ phase' = "idle" /\ sum' = NoSum /\ ret' = Outcome("missing") /\ left' = left
        /\ sum.full = 0
    BY <1>3 DEF NoBattery
  <2>2. Typed' /\ GlanceSeen' /\ ReadsTrue' /\ FellBack'
    BY <1>1, <2>1 DEF IInv, Typed, GlanceSeen, ReadsTrue, FellBack, NoSum
  <2>3. BatteriesCounted' /\ AdaptersCounted' /\ SumInHull' /\ MixedTrue'
    BY <1>1, <1>2, <2>1 DEF IInv, BatteriesCounted, AdaptersCounted, SumInHull, MixedTrue, NoSum
  <2>4. SaidOfSupplies' /\ CapacityInHull'
    BY <1>1, <1>2, <2>1 DEF SaidOfSupplies, CapacityInHull, Returned, Outcome
  <2>5. QED
    BY <2>2, <2>3, <2>4 DEF IInv
<1>4. CASE ThenAc
  <2>1. /\ phase' = "then_ac" /\ left' = present /\ sum' = sum /\ ret' = ret
        /\ sum.full # 0
    BY <1>4 DEF ThenAc
  <2>2. Typed' /\ GlanceSeen' /\ ReadsTrue' /\ FellBack'
    BY <1>1, <2>1 DEF IInv, Typed, GlanceSeen, ReadsTrue, FellBack
  <2>3. BatteriesCounted' /\ AdaptersCounted' /\ SumInHull' /\ MixedTrue'
    BY <1>1, <1>2, <2>1
       DEF IInv, GlanceSeen, BatteriesCounted, AdaptersCounted, SumInHull, InHull, MixedTrue, Supply
  <2>4. SaidOfSupplies' /\ CapacityInHull'
    BY <2>1 DEF SaidOfSupplies, CapacityInHull, Returned
  <2>5. QED
    BY <2>2, <2>3, <2>4 DEF IInv
<1>5. QED
  BY <1>3, <1>4

\* The call returns what it knows of the adapters and, if it is battery_life(),
\* the sums.
LEMMA ReturnStep ==
    ASSUME IInv, NEW on \in BOOLEAN, NEW failed \in BOOLEAN, Return(on, failed),
           phase \in {"ac", "then_ac"} \/ (phase = "batteries" /\ sum.full # 0),
           at \notin Bat,
           seen'.charge = seen.charge, seen'.calm => seen.calm, seen'.mixed = seen.mixed,
           seen' \in SeenType,
           IF on THEN seen'.on # {} ELSE Ac \subseteq seen'.off
    PROVE  IInv'
<1> USE ConstantsAssumption DEF world
<1>1. /\ phase' = "idle" /\ left' = {} /\ at' = None /\ sum' = NoSum /\ onAc' = FALSE
      /\ got = << >> /\ UNCHANGED <<present, charge, online, got, unit>>
  BY DEF Return, IInv, ReadsTrue
<1>2. Typed' /\ GlanceSeen' /\ ReadsTrue' /\ FellBack'
  <2>1. sum'.full \in Nat /\ sum'.now \in Nat /\ sum'.current \in Int
    BY <1>1 DEF NoSum
  <2>2. unit = "energy"
    BY DEF IInv, Typed
  <2>3. Typed'
    BY <1>1, <2>1, <2>2 DEF IInv, Typed
  <2>4. QED
    BY <1>1, <2>3 DEF GlanceSeen, ReadsTrue, FellBack
<1>3. BatteriesCounted' /\ AdaptersCounted' /\ SumInHull' /\ MixedTrue'
  BY <1>1 DEF IInv, BatteriesCounted, AdaptersCounted, SumInHull, MixedTrue, NoSum
<1>4. CASE phase = "ac"
  <2>1. ret' = [Outcome(IF failed THEN "err" ELSE "ac") EXCEPT !.onAc = on]
    BY <1>4 DEF Return
  <2>2. ret'.tag \in {"err", "ac"} /\ ret'.onAc = on
    BY <2>1 DEF Outcome
  <2>3. SaidOfSupplies' /\ CapacityInHull'
    BY <2>2 DEF SaidOfSupplies, CapacityInHull, Returned
  <2>4. QED
    BY <1>2, <1>3, <2>3 DEF IInv
<1>5. CASE phase # "ac"
  <2>1. ret'.tag = "life" /\ ret'.onAc = on /\ ret'.full = sum.full /\ ret'.now = sum.now
    BY <1>5 DEF Return
  <2>2. /\ sum.full \in Nat /\ sum.full # 0
        /\ ~seen.mixed => InHull(sum.full, sum.now)
    BY <1>5 DEF IInv, Typed, SumInHull
  <2>3. CapacityInHull'
    <3>1. ret'.full > 0
      BY <2>1, <2>2
    <3>2. QED
      BY <1>3, <2>1, <2>2, <3>1 DEF CapacityInHull, Returned, InHull, MixedTrue
  <2>4. SaidOfSupplies'
    BY <2>1 DEF SaidOfSupplies, Returned
  <2>5. QED
    BY <1>2, <1>3, <2>3, <2>4 DEF IInv
<1>6. QED
  BY <1>4, <1>5

LEMMA AcSteps ==
    ASSUME IInv, ReadOnline \/ OnlineFails \/ ThenAcFails \/ ReturnAc
    PROVE  IInv'
<1> USE ConstantsAssumption
<1>1. /\ seen \in SeenType
      /\ onAc \in BOOLEAN
  BY DEF IInv, Typed
<1>2. CASE ReadOnline
  <2>1. /\ phase \in {"ac", "then_ac"} /\ at \in present /\ at \in Ac
        /\ onAc' = (onAc \/ online[at])
        /\ at' = None
        /\ UNCHANGED <<present, charge, online, phase, left, got, unit, sum, ret, seen>>
    BY <1>2 DEF ReadOnline, Or, world, IInv, Typed, Supply
  <2>2. online[at] \in BOOLEAN
    BY <2>1 DEF IInv, Typed
  <2>3. (online[at] => at \in seen.on) /\ (~online[at] => at \in seen.off)
    BY <2>1 DEF IInv, GlanceSeen
  <2>4. Typed' /\ GlanceSeen' /\ ReadsTrue' /\ FellBack'
    BY <1>1, <2>1, <2>2 DEF IInv, Typed, GlanceSeen, ReadsTrue, FellBack
  <2>5. AdaptersCounted'
    BY <2>1, <2>3 DEF IInv, AdaptersCounted
  <2>6. BatteriesCounted' /\ SumInHull' /\ MixedTrue' /\ SaidOfSupplies' /\ CapacityInHull'
    BY <2>1 DEF IInv, BatteriesCounted, SumInHull, InHull, MixedTrue, SaidOfSupplies,
                CapacityInHull, Returned
  <2>7. QED
    BY <2>4, <2>5, <2>6 DEF IInv
<1>3. CASE OnlineFails \/ ThenAcFails
  <2>1. seen' = [charge |-> seen.charge, on |-> seen.on, off |-> Supply, calm |-> FALSE,
                 mixed |-> seen.mixed]
    BY <1>1, <1>3 DEF OnlineFails, ThenAcFails, SeenType
  <2>2. /\ Return(FALSE, TRUE) /\ at \notin Bat
        /\ phase \in {"ac", "then_ac"} \/ (phase = "batteries" /\ sum.full # 0)
    BY <1>3 DEF OnlineFails, ThenAcFails, IInv, Typed
  <2>3. /\ seen'.charge = seen.charge /\ Ac \subseteq seen'.off
        /\ ~seen'.calm /\ seen'.mixed = seen.mixed
        /\ seen' \in SeenType
    BY <1>1, <2>1 DEF Supply, SeenType
  <2>4. QED
    BY <2>2, <2>3, ReturnStep
<1>4. CASE ReturnAc
  <2>1. /\ Return(onAc, FALSE) /\ at \notin Bat /\ phase \in {"ac", "then_ac"} /\ seen' = seen
        /\ at = None /\ left = {}
    BY <1>4 DEF ReturnAc, IInv, Typed
  <2>2. IF onAc THEN seen.on # {} ELSE Ac \subseteq seen.off
    BY <2>1 DEF IInv, AdaptersCounted
  <2>3. QED
    BY <1>1, <2>1, <2>2, ReturnStep
<1>5. QED
  BY <1>2, <1>3, <1>4

LEMMA InvPreserved == IInv /\ [Next]_vars => IInv'
<1> SUFFICES ASSUME IInv, [Next]_vars PROVE IInv'
  OBVIOUS
<1>1. CASE UNCHANGED vars
  <2>1. Typed' /\ GlanceSeen' /\ FellBack'
    BY <1>1 DEF vars, world, IInv, Typed, GlanceSeen, FellBack
  <2>2. QED
    BY <1>1, <2>1, MoreSeen DEF vars, world, IInv
<1>2. ASSUME NEW s \in left, Visit(s) \/ Skip(s) PROVE IInv'
  BY <1>2, EntrySteps
<1>3. QED
  BY <1>1, <1>2, WorldSteps, CallSteps, ValueSteps, FallBackStep, LoopSteps, AcSteps DEF Next

LEMMA InvAlways == Spec => []IInv
BY InvInit, InvPreserved, PTL DEF Spec

\* What is reported missing was off, and AC power is on only if an adapter was,
\* off only if none was on all the time.
THEOREM SaidIsTrue == Spec => []SaidOfSupplies
<1>1. IInv => SaidOfSupplies
  BY DEF IInv
<1>2. QED
  BY <1>1, InvAlways, PTL

\* The capacity is between the shares of charge of two batteries during the call.
THEOREM CapacityBounded == Spec => []CapacityInHull
<1>1. IInv => CapacityInHull
  BY DEF IInv
<1>2. QED
  BY <1>1, InvAlways, PTL

-----------------------------------------------------------------------------
(* Sums over a finite set, as MapThenSumSet makes them.                   *)

First(S) == CHOOSE x \in S : TRUE

\* h has the sums of f over the subsets of S, one element at a time.
IsSums(h, f, S) ==
    h = [T \in SUBSET S |-> IF T = {} THEN 0 ELSE f[First(T)] + h[T \ {First(T)}]]

\* What MapThenSumSet makes of a function.
Total(f, S) == MapThenSumSet(LAMBDA b : f[b], S)

LEMMA SubsetsCounted ==
    ASSUME NEW U, IsFiniteSet(U), NEW T \in SUBSET U
    PROVE  /\ Cardinality(T) \in Nat /\ Cardinality(T) <= Cardinality(U)
           /\ Cardinality(U) \in Nat
           /\ Cardinality(T) = 0 <=> T = {}
           /\ \A x \in T : Cardinality(T \ {x}) = Cardinality(T) - 1
           /\ T # {} => First(T) \in T
<1>1. IsFiniteSet(T) /\ Cardinality(T) <= Cardinality(U)
  BY FS_Subset
<1>2. Cardinality(T) \in Nat /\ Cardinality(U) \in Nat
  BY <1>1, FS_CardinalityType
<1>3. Cardinality(T) = 0 <=> T = {}
  BY <1>1, FS_EmptySet
<1>4. \A x \in T : Cardinality(T \ {x}) = Cardinality(T) - 1
  BY <1>1, FS_RemoveElement
<1>5. T # {} => First(T) \in T
  BY DEF First
<1>6. QED
  BY <1>1, <1>2, <1>3, <1>4, <1>5

LEMMA SumsExist ==
    ASSUME NEW U, IsFiniteSet(U), NEW f \in [U -> Nat]
    PROVE  \E h \in [SUBSET U -> Nat] : IsSums(h, f, U)
<1> DEFINE next(h, T) == IF T = {} THEN 0 ELSE f[First(T)] + h[T \ {First(T)}]
           Good(h, n) == \A T \in SUBSET U : Cardinality(T) <= n => h[T] = next(h, T)
           K == {n \in Nat : \E h \in [SUBSET U -> Nat] : Good(h, n)}
<1>1. \A T \in SUBSET U :
        /\ Cardinality(T) \in Nat /\ Cardinality(T) <= Cardinality(U)
        /\ Cardinality(T) = 0 <=> T = {}
        /\ T # {} => /\ First(T) \in U
                     /\ T \ {First(T)} \in SUBSET U
                     /\ Cardinality(T \ {First(T)}) = Cardinality(T) - 1
  BY SubsetsCounted
<1>2. \A h \in [SUBSET U -> Nat] : \A T \in SUBSET U : next(h, T) \in Nat
  <2> SUFFICES ASSUME NEW h \in [SUBSET U -> Nat], NEW T \in SUBSET U
               PROVE  next(h, T) \in Nat
    OBVIOUS
  <2>1. CASE T = {}
    BY <2>1
  <2>2. CASE T # {}
    <3>1. f[First(T)] \in Nat /\ h[T \ {First(T)}] \in Nat
      BY <1>1, <2>2
    <3>2. QED
      BY <2>2, <3>1
  <2>3. QED
    BY <2>1, <2>2
<1>3. 0 \in K
  <2> DEFINE h == [T \in SUBSET U |-> 0]
  <2>1. h \in [SUBSET U -> Nat]
    OBVIOUS
  <2>2. Good(h, 0)
    <3> SUFFICES ASSUME NEW T \in SUBSET U, Cardinality(T) <= 0
                 PROVE  h[T] = next(h, T)
      OBVIOUS
    <3>1. Cardinality(T) = 0
      <4>1. Cardinality(T) \in Nat
        BY <1>1
      <4>2. QED
        BY <4>1
    <3>2. T = {}
      BY <1>1, <3>1
    <3>3. QED
      BY <3>2
  <2> HIDE DEF h, Good
  <2>3. QED
    BY <2>1, <2>2
<1>4. ASSUME NEW n \in Nat, n \in K
      PROVE  n + 1 \in K
  <2>1. PICK h \in [SUBSET U -> Nat] : Good(h, n)
    BY <1>4
  <2> DEFINE g == [T \in SUBSET U |-> IF Cardinality(T) <= n THEN h[T] ELSE next(h, T)]
  <2>2. g \in [SUBSET U -> Nat]
    <3> HIDE DEF next
    <3>1. QED
      BY <1>2
  <2>3. Good(g, n + 1)
    <3> SUFFICES ASSUME NEW T \in SUBSET U, Cardinality(T) <= n + 1
                 PROVE  g[T] = next(g, T)
      OBVIOUS
    <3>1. g[T] = next(h, T)
      <4> HIDE DEF next
      <4>1. QED
        BY <2>1
    <3>2. CASE T = {}
      BY <3>1, <3>2
    <3>3. CASE T # {}
      <4> DEFINE R == T \ {First(T)}
      <4>1. R \in SUBSET U /\ Cardinality(R) = Cardinality(T) - 1
        BY <1>1, <3>3
      <4>2. Cardinality(R) <= n
        <5> HIDE DEF R
        <5>1. Cardinality(T) \in Nat
          BY <1>1
        <5>2. QED
          BY <4>1, <5>1
      <4>3. g[R] = h[R]
        <5> HIDE DEF R, next
        <5>1. QED
          BY <4>1, <4>2
      <4>4. next(g, T) = f[First(T)] + g[R] /\ next(h, T) = f[First(T)] + h[R]
        <5> HIDE DEF g
        <5>1. QED
          BY <3>3
      <4>5. QED
        <5> HIDE DEF g, R, next
        <5>1. QED
          BY <3>1, <4>3, <4>4
    <3>4. QED
      BY <3>2, <3>3
  <2> HIDE DEF g, Good
  <2>4. QED
    BY <2>2, <2>3
<1>5. Cardinality(U) \in Nat
  BY FS_CardinalityType
<1>6. Cardinality(U) \in K
  <2> HIDE DEF K
  <2>1. QED
    BY <1>3, <1>4, <1>5, Induction
<1>7. PICK h \in [SUBSET U -> Nat] : Good(h, Cardinality(U))
  BY <1>6
<1>8. \A T \in SUBSET U : h[T] = next(h, T)
  <2> HIDE DEF next
  <2>1. QED
    BY <1>1, <1>7
<1>9. h = [T \in SUBSET U |-> next(h, T)]
  <2> HIDE DEF next
  <2>1. QED
    BY <1>8
<1>10. IsSums(h, f, U)
  BY <1>9 DEF IsSums
<1>11. QED
  BY <1>10

\* Any element may be taken first.
LEMMA SumsRemove ==
    ASSUME NEW U, IsFiniteSet(U), NEW f \in [U -> Nat], NEW h \in [SUBSET U -> Nat],
           IsSums(h, f, U)
    PROVE  \A T \in SUBSET U : \A x \in T : h[T] = f[x] + h[T \ {x}]
<1> DEFINE P(T) == \A x \in T : h[T] = f[x] + h[T \ {x}]
           K == {n \in Nat : \A T \in SUBSET U : Cardinality(T) = n => P(T)}
<1>1. \A T \in SUBSET U : T # {} => First(T) \in T /\ h[T] = f[First(T)] + h[T \ {First(T)}]
  BY SubsetsCounted DEF IsSums
<1>2. \A T \in SUBSET U :
        /\ Cardinality(T) \in Nat
        /\ Cardinality(T) = 0 <=> T = {}
        /\ \A x \in T : Cardinality(T \ {x}) = Cardinality(T) - 1
  BY SubsetsCounted
<1>3. 0 \in K
  BY <1>2
<1>4. ASSUME NEW n \in Nat, n \in K
      PROVE  n + 1 \in K
  <2> SUFFICES ASSUME NEW T \in SUBSET U, Cardinality(T) = n + 1, NEW x \in T
               PROVE  h[T] = f[x] + h[T \ {x}]
    OBVIOUS
  <2> DEFINE y == First(T)
  <2>1. y \in T /\ h[T] = f[y] + h[T \ {y}]
    BY <1>1
  <2> HIDE DEF y
  <2>2. CASE x = y
    BY <2>1, <2>2
  <2>3. CASE x # y
    <3> DEFINE A == T \ {x}
               B == T \ {y}
               C == T \ {x, y}
    <3>1. A \in SUBSET U /\ B \in SUBSET U /\ C \in SUBSET U /\ y \in A /\ x \in B
      BY <2>1, <2>3
    <3>2. C = A \ {y} /\ C = B \ {x}
      OBVIOUS
    <3>3. Cardinality(A) = n /\ Cardinality(B) = n
      <4>1. Cardinality(A) = Cardinality(T) - 1 /\ Cardinality(B) = Cardinality(T) - 1
        BY <1>2, <2>1
      <4> HIDE DEF A, B
      <4>2. QED
        BY <4>1
    <3> HIDE DEF A, B, C
    <3>4. h[A] = f[y] + h[C] /\ h[B] = f[x] + h[C]
      BY <1>4, <3>1, <3>2, <3>3
    <3>5. h[C] \in Nat /\ f[x] \in Nat /\ f[y] \in Nat
      BY <2>1, <3>1
    <3>6. h[T] = f[y] + h[B]
      BY <2>1 DEF B
    <3>7. h[T] = f[x] + h[A]
      BY <3>4, <3>5, <3>6
    <3>8. QED
      BY <3>7 DEF A
  <2>4. QED
    BY <2>2, <2>3
<1>5. \A n \in Nat : n \in K
  <2> HIDE DEF K
  <2>1. QED
    BY <1>3, <1>4, Induction
<1>6. QED
  BY <1>2, <1>5

\* The sums do not depend on the set they were defined over.
LEMMA SumsAgree ==
    ASSUME NEW U, IsFiniteSet(U), NEW f \in [U -> Nat], NEW h \in [SUBSET U -> Nat],
           IsSums(h, f, U), NEW S \in SUBSET U, NEW g, IsSums(g, f, S)
    PROVE  g[S] = h[S]
<1> DEFINE K == {n \in Nat : \A T \in SUBSET S : Cardinality(T) = n => g[T] = h[T]}
<1>1. \A T \in SUBSET S :
        /\ Cardinality(T) \in Nat
        /\ Cardinality(T) = 0 <=> T = {}
        /\ T # {} => /\ First(T) \in T
                     /\ Cardinality(T \ {First(T)}) = Cardinality(T) - 1
  BY SubsetsCounted
<1>2. /\ \A T \in SUBSET S :
            g[T] = IF T = {} THEN 0 ELSE f[First(T)] + g[T \ {First(T)}]
      /\ \A T \in SUBSET S :
            h[T] = IF T = {} THEN 0 ELSE f[First(T)] + h[T \ {First(T)}]
  BY DEF IsSums
<1>3. 0 \in K
  BY <1>1, <1>2
<1>4. ASSUME NEW n \in Nat, n \in K
      PROVE  n + 1 \in K
  <2> SUFFICES ASSUME NEW T \in SUBSET S, Cardinality(T) = n + 1
               PROVE  g[T] = h[T]
    OBVIOUS
  <2> DEFINE R == T \ {First(T)}
  <2>1. T # {}
    <3>1. Cardinality(T) # 0
      OBVIOUS
    <3>2. QED
      BY <1>1, <3>1
  <2>2. R \in SUBSET S /\ Cardinality(R) = n
    <3>1. R \in SUBSET S /\ Cardinality(R) = Cardinality(T) - 1
      BY <1>1, <2>1
    <3> HIDE DEF R
    <3>2. QED
      BY <3>1
  <2>3. g[T] = f[First(T)] + g[R] /\ h[T] = f[First(T)] + h[R]
    BY <1>2, <2>1
  <2> HIDE DEF R
  <2>4. g[R] = h[R]
    BY <1>4, <2>2
  <2>5. QED
    BY <2>3, <2>4
<1>5. \A n \in Nat : n \in K
  <2> HIDE DEF K
  <2>1. QED
    BY <1>3, <1>4, Induction
<1>6. QED
  BY <1>1, <1>5

\* Sums of a part.
Part(h, S) == [T \in SUBSET S |-> h[T]]

LEMMA SumsOfPart ==
    ASSUME NEW U, NEW f, NEW h, IsSums(h, f, U), NEW S \in SUBSET U
    PROVE  IsSums(Part(h, S), f, S)
<1> DEFINE g == Part(h, S)
<1>1. \A T \in SUBSET S :
        g[T] = IF T = {} THEN 0 ELSE f[First(T)] + g[T \ {First(T)}]
  BY DEF IsSums, Part
<1>2. g = [T \in SUBSET S |-> IF T = {} THEN 0 ELSE f[First(T)] + g[T \ {First(T)}]]
  BY <1>1 DEF Part
<1>3. QED
  BY <1>2 DEF IsSums

LEMMA TotalIs ==
    ASSUME NEW U, IsFiniteSet(U), NEW f \in [U -> Nat], NEW h \in [SUBSET U -> Nat],
           IsSums(h, f, U), NEW S \in SUBSET U
    PROVE  Total(f, S) = h[S]
<1>1. Total(f, S) = (CHOOSE g : IsSums(g, f, S))[S]
  BY DEF Total, MapThenSumSet, MapThenFoldSet, IsSums, First
<1>2. \E g : IsSums(g, f, S)
  BY SumsOfPart
<1>3. IsSums(CHOOSE g : IsSums(g, f, S), f, S)
  BY <1>2
<1>4. QED
  BY <1>1, <1>3, SumsAgree

\* The sum over a set with one element more.
LEMMA TotalSteps ==
    ASSUME NEW U, IsFiniteSet(U), NEW f \in [U -> Nat]
    PROVE  /\ Total(f, {}) = 0
           /\ \A S \in SUBSET U :
                /\ Total(f, S) \in Nat
                /\ \A b \in U \ S : Total(f, S \cup {b}) = Total(f, S) + f[b]
<1>1. PICK h \in [SUBSET U -> Nat] : IsSums(h, f, U)
  BY SumsExist
<1>2. \A S \in SUBSET U : Total(f, S) = h[S]
  BY <1>1, TotalIs
<1>3. h[{}] = 0
  BY <1>1 DEF IsSums
<1>4. ASSUME NEW S \in SUBSET U, NEW b \in U \ S
      PROVE  h[S \cup {b}] = f[b] + h[S]
  <2>1. S \cup {b} \in SUBSET U /\ b \in S \cup {b} /\ (S \cup {b}) \ {b} = S
    OBVIOUS
  <2>2. QED
    BY <1>1, <2>1, SumsRemove
<1>5. ASSUME NEW S \in SUBSET U
      PROVE  /\ Total(f, S) \in Nat
             /\ \A b \in U \ S : Total(f, S \cup {b}) = Total(f, S) + f[b]
  <2>1. Total(f, S) = h[S] /\ h[S] \in Nat
    BY <1>2
  <2>2. ASSUME NEW b \in U \ S
        PROVE  Total(f, S \cup {b}) = Total(f, S) + f[b]
    <3>1. Total(f, S \cup {b}) = h[S \cup {b}] /\ f[b] \in Nat
      BY <1>2
    <3>2. QED
      BY <1>4, <2>1, <3>1
  <2>3. QED
    BY <2>1, <2>2
<1>6. QED
  BY <1>2, <1>3, <1>5

-----------------------------------------------------------------------------
(* A calm call of Linux: what it adds up is the sum over all batteries.    *)

\* What a battery counts in the unit that is looked for first, when its meters
\* show c.
FullIn == [b \in Bat |-> Full[<<b, Preferred(b, "full")>>]]
NowIn(c) == [b \in Bat |-> c[<<b, Preferred(b, "now")>>]]

\* The meters of the batteries in P.
MetersOf(P) == {m \in Meter : m[1] \in P}

\* The time left is at most an hour of every unit there is to charge, or to drain.
InTime(r) == r.time <= 3600 * IF r.onAc THEN Abs(r.full - r.now) ELSE r.now

\* The sums over the complete batteries seen, whatever has become of them since.
ResultSums ==
    \E c \in [Meter -> Nat], P \in SUBSET Bat :
        /\ seen.charge = {<<m, c[m]>> : m \in MetersOf(P)}
        /\ ret.full = Total(FullIn, P \cap Complete)
        /\ ret.now = Total(NowIn(c), P \cap Complete)
        /\ ret.onAc = (seen.on # {})
        /\ InTime(ret)

\* The batteries, or the adapters, that the loop has done with.
Done(kind) == (kind \cap present) \ (left \cup {at})

SumsOver(S) ==
    /\ sum.full = Total(FullIn, S \cap Complete)
    /\ sum.now = Total(NowIn(charge), S \cap Complete)

\* As long as nothing happens, the call has seen the present, and the sums are
\* those of the complete batteries it has done with.
CalmSeen ==
    seen.calm /\ phase # "idle" =>
        /\ seen.charge = {<<m, charge[m]>> : m \in MetersOf(Bat \cap present)}
        /\ seen.on = {a \in Ac \cap present : online[a]}
        /\ at # None => at \in present /\ at \notin left

CalmSums ==
    seen.calm =>
        /\ phase = "batteries" => SumsOver(Done(Bat))
        /\ phase = "then_ac" => SumsOver(Bat \cap present)

CalmAc == seen.calm /\ phase = "then_ac" => (onAc <=> \E a \in Done(Ac) : online[a])

CalmResult == seen.calm /\ Returned("life") => ResultSums

CalmInv == CalmSeen /\ CalmSums /\ CalmAc /\ CalmResult

LEMMA ChargesNat ==
    IInv => /\ FullIn \in [Bat -> Nat] /\ NowIn(charge) \in [Bat -> Nat]
            /\ IsFiniteSet(Bat) /\ Complete \subseteq Bat
<1> SUFFICES ASSUME IInv
             PROVE  /\ FullIn \in [Bat -> Nat] /\ NowIn(charge) \in [Bat -> Nat]
                    /\ IsFiniteSet(Bat) /\ Complete \subseteq Bat
  OBVIOUS
<1>1. \A b \in Bat, q \in Quantity : <<b, Preferred(b, q)>> \in Meter
  BY DEF Meter, Preferred, Unit
<1>2. Full \in [Meter -> Nat] /\ charge \in [Meter -> Nat]
  BY ConstantsAssumption DEF IInv, Typed
<1>3. QED
  BY <1>1, <1>2, ConstantsAssumption DEF FullIn, NowIn, Complete, Quantity

LEMMA SumsOverNone ==
    ASSUME IInv, sum.full = 0, sum.now = 0
    PROVE  SumsOver({})
<1>1. {} \cap Complete = {}
  OBVIOUS
<1>2. Total(FullIn, {}) = 0 /\ Total(NowIn(charge), {}) = 0
  BY ChargesNat, TotalSteps
<1>3. QED
  BY <1>1, <1>2 DEF SumsOver

LEMMA CalmInit == Init => CalmInv
BY DEF Init, Outcome, Returned, CalmInv, CalmSeen, CalmSums, CalmAc, CalmResult

\* A call that something happened to promises nothing more.
LEMMA NotCalm ==
    ASSUME ~seen'.calm
    PROVE  CalmInv'
BY DEF CalmInv, CalmSeen, CalmSums, CalmAc, CalmResult

\* What happens between two calls does not change what was returned.
LEMMA CalmIdle ==
    ASSUME CalmInv, phase = "idle", UNCHANGED <<phase, ret, seen>>
    PROVE  CalmInv'
<1>1. ResultSums => ResultSums'
  BY DEF ResultSums
<1>2. CalmResult'
  BY <1>1 DEF CalmInv, CalmResult, Returned
<1>3. QED
  BY <1>2 DEF CalmInv, CalmSeen, CalmSums, CalmAc

\* Nor does a step that changes only which unit is asked for.
LEMMA CalmStays ==
    ASSUME CalmInv,
           UNCHANGED <<present, charge, online, phase, left, at, sum, onAc, ret, seen>>
    PROVE  CalmInv'
<1>1. CalmSeen'
  BY DEF CalmInv, CalmSeen
<1>2. CalmSums' /\ CalmAc' /\ CalmResult'
  BY DEF Done, SumsOver, ResultSums, Returned, CalmInv, CalmSums, CalmAc, CalmResult
<1>3. QED
  BY <1>1, <1>2 DEF CalmInv

LEMMA CalmWorld ==
    ASSUME CalmInv, NEW p, NEW c, NEW o, Outside(p, c, o)
    PROVE  CalmInv'
<1>1. CASE phase = "idle"
  BY <1>1, CalmIdle DEF Outside
<1>2. CASE phase # "idle"
  <2>1. ~seen'.calm
    BY <1>2 DEF Outside
  <2>2. QED
    BY <2>1, NotCalm
<1>3. QED
  BY <1>1, <1>2

LEMMA CalmCall ==
    ASSUME IInv, NEW loop \in {"batteries", "ac"}, Call(loop)
    PROVE  CalmInv'
<1> USE DEF world
<1>1. /\ phase = "idle" /\ phase' = loop /\ left' = present /\ ret' = Outcome("nothing")
      /\ UNCHANGED <<present, charge, online, at, got, sum, onAc>>
  BY DEF Call
<1>2. /\ seen'.charge = {<<m, charge[m]>> : m \in MetersOf(Bat \cap present)}
      /\ seen'.on = {a \in Ac \cap present : online[a]}
  <2>1. {m \in Meter : m[1] \in present} = MetersOf(Bat \cap present)
    BY DEF MetersOf, Meter
  <2>2. QED
    BY <2>1 DEF Call, Glance
<1>3. at = None /\ got = << >> /\ sum.full = 0 /\ sum.now = 0
  BY <1>1, ConstantsAssumption DEF IInv, SumInHull, ReadsTrue
<1>4. CalmSeen'
  BY <1>1, <1>2, <1>3 DEF CalmSeen
<1>5. CalmSums'
  <2>1. Done(Bat)' = {}
    BY <1>1 DEF Done
  <2>2. SumsOver({})'
    BY <1>1, <1>3, SumsOverNone DEF SumsOver
  <2>3. SumsOver(Done(Bat))'
    BY <2>1, <2>2 DEF SumsOver
  <2>4. QED
    BY <1>1, <2>3 DEF CalmSums
<1>6. CalmAc' /\ CalmResult'
  BY <1>1, <1>3 DEF CalmAc, CalmResult, Returned
<1>7. QED
  BY <1>4, <1>5, <1>6 DEF CalmInv

LEMMA CalmEntry ==
    ASSUME IInv, CalmInv, NEW s \in left, Visit(s) \/ Skip(s)
    PROVE  CalmInv'
<1> USE DEF world
<1> DEFINE kind == IF phase = "batteries" THEN Bat ELSE Ac
<1>1. /\ at = None /\ phase # "idle" /\ left' = left \ {s}
      /\ UNCHANGED <<present, charge, online, phase, got, sum, onAc, ret>>
  BY DEF Visit, Skip, IInv, SumInHull
<1>2. s \in Supply /\ s # None /\ seen \in SeenType
  BY ConstantsAssumption DEF IInv, Typed, Supply
<1>3. CASE Skip(s) /\ s \in present /\ s \in kind
  <2>1. ~seen'.calm
    BY <1>2, <1>3, BlurSees DEF Skip
  <2>2. QED
    BY <2>1, NotCalm
<1>4. CASE Visit(s) \/ ~(s \in present /\ s \in kind)
  <2>1. /\ seen' = seen
        /\ at' = None \/ (at' = s /\ s \in present /\ s \in kind)
        /\ at' = s \/ ~(s \in present /\ s \in kind)
    BY <1>1, <1>4 DEF Visit, Skip
  <2>2. Done(kind)' = Done(kind) /\ kind' = kind
    <3>1. kind' = kind /\ None \notin kind
      BY <1>1, ConstantsAssumption
    <3> DEFINE k == kind
    <3>2. k' = k /\ None \notin k
      BY <3>1
    <3>3. Done(k)' = (k \cap present) \ ((left \ {s}) \cup {at'})
      BY <1>1, <3>2 DEF Done
    <3>4. Done(k) = (k \cap present) \ (left \cup {None})
      BY <1>1 DEF Done
    <3>5. at' = None \/ (at' = s /\ s \in present /\ s \in k)
      BY <2>1
    <3>6. at' = s \/ ~(s \in present /\ s \in k)
      BY <2>1
    <3> HIDE DEF k
    <3>7. (k \cap present) \ ((left \ {s}) \cup {at'}) = (k \cap present) \ (left \cup {None})
      BY <3>2, <3>5, <3>6
    <3>8. Done(k)' = Done(k)
      BY <3>3, <3>4, <3>7
    <3>9. QED
      BY <3>1, <3>8 DEF k
  <2>3. CalmSeen'
    BY <1>1, <2>1 DEF CalmInv, CalmSeen
  <2>4. CalmSums'
    <3>1. phase = "batteries" => Done(Bat)' = Done(Bat)
      BY <2>2
    <3>2. QED
      BY <1>1, <2>1, <3>1 DEF CalmInv, CalmSums, SumsOver
  <2>5. CalmAc'
    <3>1. phase = "then_ac" => Done(Ac)' = Done(Ac)
      BY <2>2
    <3>2. QED
      BY <1>1, <2>1, <3>1 DEF CalmInv, CalmAc
  <2>6. CalmResult'
    BY <1>1 DEF CalmResult, Returned
  <2>7. QED
    BY <2>3, <2>4, <2>5, <2>6 DEF CalmInv
<1>5. QED
  BY <1>3, <1>4

\* The sums over the batteries done with and one more, if it is complete.
LEMMA SumsOverMore ==
    ASSUME IInv, NEW S \in SUBSET Bat, NEW b \in Bat \ S, SumsOver(S), charge' = charge,
           IF b \in Complete
           THEN /\ sum'.full = sum.full + FullIn[b]
                /\ sum'.now = sum.now + NowIn(charge)[b]
           ELSE sum' = sum
    PROVE  /\ sum'.full = Total(FullIn, (S \cup {b}) \cap Complete)
           /\ sum'.now = Total(NowIn(charge'), (S \cup {b}) \cap Complete)
<1> DEFINE K == S \cap Complete
<1>1. K \in SUBSET Bat
  BY ChargesNat
<1>2. sum.full = Total(FullIn, K) /\ sum.now = Total(NowIn(charge), K)
  BY DEF SumsOver
<1>3. CASE b \in Complete
  <2>1. (S \cup {b}) \cap Complete = K \cup {b} /\ b \in Bat \ K
    BY <1>3
  <2> HIDE DEF K
  <2>2. /\ Total(FullIn, K \cup {b}) = Total(FullIn, K) + FullIn[b]
        /\ Total(NowIn(charge), K \cup {b}) = Total(NowIn(charge), K) + NowIn(charge)[b]
    BY <1>1, <2>1, ChargesNat, TotalSteps
  <2>3. /\ sum'.full = Total(FullIn, K \cup {b})
        /\ sum'.now = Total(NowIn(charge), K \cup {b})
    BY <1>2, <1>3, <2>2
  <2>4. QED
    BY <2>1, <2>3
<1>4. CASE b \notin Complete
  <2>1. (S \cup {b}) \cap Complete = K
    BY <1>4
  <2> HIDE DEF K
  <2>2. QED
    BY <1>2, <1>4, <2>1
<1>5. QED
  BY <1>3, <1>4

\* A value of the battery at work; the third adds it to the sums if it is complete.
LEMMA CalmValue ==
    ASSUME IInv, CalmInv, ReadValue \/ ValueFails
    PROVE  CalmInv'
<1> USE DEF world
<1>1. phase = "batteries" /\ at \in Bat /\ at # None
  BY ValueTaken, ConstantsAssumption DEF Supply
<1>2. PICK value \in ReadType :
        /\ Take(value)
        /\ seen'.charge = seen.charge /\ seen'.on = seen.on
        /\ seen.off \subseteq seen'.off
        /\ seen'.calm => seen.calm
        /\ ReadTrue(seen', at, Len(got) + 1, value)
  BY ValueTaken
<1> DEFINE values == Append(got, value)
<1>3. /\ UNCHANGED <<present, charge, online, phase, left, onAc, ret>>
      /\ Len(values) < 3 => UNCHANGED <<at, sum>>
      /\ ~(Len(values) < 3) => at' = None /\ sum' = AddUp(values)
  BY <1>2 DEF Take
<1>4. /\ Len(got) \in 0..2 /\ Len(values) = Len(got) + 1
      /\ \A i \in 1..Len(got) + 1 : ReadTrue(seen', at, i, values[i])
  BY <1>1, <1>2, TakenTrue
<1> HIDE DEF values
<1> SUFFICES ASSUME seen'.calm, seen.calm
             PROVE  CalmSeen' /\ CalmSums'
  <2>1. CalmAc' /\ CalmResult'
    BY <1>1, <1>3 DEF CalmAc, CalmResult, Returned
  <2>2. QED
    BY <1>2, <2>1, NotCalm DEF CalmInv
<1>5. at \in present /\ at \notin left /\ None \notin Bat
  BY <1>1, ConstantsAssumption DEF CalmInv, CalmSeen
<1>6. CalmSeen'
  <2>1. at' = at \/ at' = None
    BY <1>3
  <2>2. QED
    BY <1>1, <1>2, <1>3, <2>1 DEF CalmInv, CalmSeen
<1>7. SumsOver(Done(Bat))
  BY <1>1 DEF CalmInv, CalmSums
<1>8. CASE Len(values) < 3
  <2>1. Done(Bat)' = Done(Bat)
    BY <1>3, <1>8 DEF Done
  <2>2. CalmSums'
    BY <1>1, <1>3, <1>7, <1>8, <2>1 DEF CalmSums, SumsOver
  <2>3. QED
    BY <1>6, <2>2
<1>9. CASE ~(Len(values) < 3)
  <2>1. at' = None /\ sum' = AddUp(values)
    BY <1>3, <1>9
  <2>2. Done(Bat)' = Done(Bat) \cup {at} /\ at \in Bat \ Done(Bat) /\ Done(Bat) \in SUBSET Bat
    BY <1>1, <1>3, <1>5, <2>1 DEF Done
  <2>3. \A i \in 1..3 : ReadTrue(seen', at, i, values[i])
    <3>1. \A n \in 0..2 : ~(n + 1 < 3) => n + 1 = 3
      OBVIOUS
    <3>2. QED
      BY <1>4, <1>9, <3>1
  <2>4. IF at \in Complete
        THEN /\ sum'.full = sum.full + FullIn[at]
             /\ sum'.now = sum.now + NowIn(charge)[at]
        ELSE sum' = sum
    <3>1. CASE \E i \in 1..3 : values[i].failed
      <4>1. sum' = sum
        BY <2>1, <3>1 DEF AddUp
      <4>2. at \notin Complete
        BY <2>3, <3>1 DEF ReadTrue
      <4>3. QED
        BY <4>1, <4>2
    <3>2. CASE \A i \in 1..3 : ~values[i].failed
      <4>1. /\ sum'.full = sum.full + values[1].value
            /\ sum'.now = sum.now + values[2].value
        BY <2>1, <3>2 DEF AddUp
      <4>2. /\ values[1].unit \in Unit /\ Has(at, values[1].unit, "full")
            /\ values[1].value = Full[<<at, values[1].unit>>]
            /\ values[1].unit = Preferred(at, "full")
        BY <2>3, <3>2 DEF ReadTrue, Q
      <4>3. /\ values[2].unit \in Unit /\ Has(at, values[2].unit, "now")
            /\ values[2].unit = Preferred(at, "now")
            /\ <<<<at, values[2].unit>>, values[2].value>> \in seen.charge
        BY <1>2, <2>3, <3>2 DEF ReadTrue, Q
      <4>4. values[3].unit \in Unit /\ Has(at, values[3].unit, "current")
        BY <2>3, <3>2 DEF ReadTrue, Q
      <4>5. at \in Complete
        BY <1>1, <4>2, <4>3, <4>4 DEF Complete, Quantity, Unit
      <4>6. values[1].value = FullIn[at]
        BY <1>1, <4>2 DEF FullIn
      <4>7. values[2].value = NowIn(charge)[at]
        <5>1. seen.charge = {<<m, charge[m]>> : m \in MetersOf(Bat \cap present)}
          BY <1>1 DEF CalmInv, CalmSeen
        <5>2. values[2].value = charge[<<at, values[2].unit>>]
          BY <4>3, <5>1
        <5>3. QED
          BY <1>1, <4>3, <5>2 DEF NowIn
      <4>8. QED
        BY <4>1, <4>5, <4>6, <4>7
    <3>3. QED
      BY <3>1, <3>2
  <2>5. SumsOver(Done(Bat))'
    <3> DEFINE done == Done(Bat)
    <3>1. /\ SumsOver(done) /\ done \in SUBSET Bat /\ at \in Bat \ done /\ charge' = charge
          /\ Done(Bat)' = done \cup {at}
      BY <1>3, <1>7, <2>2
    <3> HIDE DEF done
    <3>2. /\ sum'.full = Total(FullIn, (done \cup {at}) \cap Complete)
          /\ sum'.now = Total(NowIn(charge'), (done \cup {at}) \cap Complete)
      BY <2>4, <3>1, SumsOverMore
    <3>3. QED
      BY <3>1, <3>2 DEF SumsOver
  <2>6. QED
    BY <1>1, <1>3, <1>6, <2>5 DEF CalmSums
<1>10. QED
  BY <1>8, <1>9

LEMMA CalmLoops ==
    ASSUME IInv, CalmInv, NoBattery \/ ThenAc
    PROVE  CalmInv'
<1> USE DEF world
<1>1. /\ phase = "batteries" /\ at = None /\ left = {}
      /\ UNCHANGED <<present, charge, online, at, got, onAc, seen>>
  BY DEF NoBattery, ThenAc
<1>2. CASE NoBattery
  BY <1>1, <1>2 DEF NoBattery, Outcome, Returned,
     CalmInv, CalmSeen, CalmSums, CalmAc, CalmResult
<1>3. CASE ThenAc
  <2>1. phase' = "then_ac" /\ left' = present /\ sum' = sum /\ ret' = ret
    BY <1>3 DEF ThenAc
  <2>2. CalmSeen' /\ CalmResult'
    BY <1>1, <2>1 DEF CalmInv, CalmSeen, CalmResult, Returned
  <2>3. CalmSums'
    <3>1. Done(Bat) = Bat \cap present
      BY <1>1, ConstantsAssumption DEF Done
    <3>2. QED
      BY <1>1, <2>1, <3>1 DEF CalmInv, CalmSums, SumsOver
  <2>4. CalmAc'
    <3>1. ~onAc
      BY <1>1 DEF IInv, BatteriesCounted
    <3>2. Done(Ac)' = {}
      BY <1>1, <2>1 DEF Done
    <3>3. QED
      BY <1>1, <3>1, <3>2 DEF CalmAc
  <2>5. QED
    BY <2>2, <2>3, <2>4 DEF CalmInv
<1>4. QED
  BY <1>2, <1>3

LEMMA CalmOnline ==
    ASSUME IInv, CalmInv, ReadOnline
    PROVE  CalmInv'
<1> USE DEF world
<1>1. /\ phase \in {"ac", "then_ac"} /\ at \in present /\ at \in Ac /\ at' = None
      /\ onAc' = (onAc \/ online[at])
      /\ UNCHANGED <<present, charge, online, phase, left, got, sum, ret, seen>>
  BY ConstantsAssumption DEF ReadOnline, Or, IInv, Typed, Supply
<1>2. CalmSeen' /\ CalmSums' /\ CalmResult'
  BY <1>1 DEF CalmInv, CalmSeen, CalmSums, SumsOver, CalmResult, Returned
<1>3. CalmAc'
  <2> SUFFICES ASSUME seen.calm, phase = "then_ac"
               PROVE  onAc' <=> \E a \in Done(Ac)' : online'[a]
    BY <1>1 DEF CalmAc
  <2>1. at \notin left /\ None \notin Ac
    BY <1>1, ConstantsAssumption DEF CalmInv, CalmSeen
  <2>2. Done(Ac)' = Done(Ac) \cup {at}
    BY <1>1, <2>1 DEF Done
  <2>3. onAc <=> \E a \in Done(Ac) : online[a]
    BY DEF CalmInv, CalmAc
  <2>4. QED
    BY <1>1, <2>2, <2>3
<1>4. QED
  BY <1>2, <1>3 DEF CalmInv

\* What time() divides bounds the quotient.
LEMMA QuotientBelow ==
    ASSUME NEW a \in Nat, NEW c \in Nat \ {0}
    PROVE  a \div c \in Nat /\ a \div c <= a
<1>1. /\ a \div c \in Int /\ c * (a \div c) <= a /\ a < c * (a \div c) + c
  BY SMT
<1> DEFINE q == a \div c
<1>2. q \in Int /\ c * q <= a /\ a < c * q + c
  BY <1>1
<1> HIDE DEF q
<1>3. q >= 0
  <2>1. CASE q <= -1
    <3>1. q * c <= (-1) * c
      BY <1>2, <2>1, TimesMonotone
    <3>2. q * c = c * q /\ (-1) * c = -c
      BY <1>2
    <3>3. QED
      BY <1>2, <3>1, <3>2
  <2>2. QED
    BY <1>2, <2>1
<1>4. q <= a
  <2>1. 1 * q <= c * q
    BY <1>2, <1>3, TimesMonotone
  <2>2. QED
    BY <1>2, <2>1
<1>5. QED
  BY <1>3, <1>4, <1>2 DEF q

LEMMA TimeBound ==
    ASSUME NEW on \in BOOLEAN, NEW full \in Nat, NEW now \in Nat, NEW current \in Int
    PROVE  Time(on, full, now, current) <= 3600 * (IF on THEN Abs(full - now) ELSE now)
<1> DEFINE amount == IF on THEN Abs(full - now) ELSE now
<1>1. amount \in Nat
  BY DEF Abs
<1>2. CASE current <= 0
  <2>1. Time(on, full, now, current) = 0
    BY <1>2 DEF Time
  <2> HIDE DEF amount
  <2>2. 0 <= 3600 * amount
    BY <1>1
  <2>3. QED
    BY <2>1, <2>2 DEF amount
<1>3. CASE current > 0
  <2>1. ~(current <= 0) /\ current \in Nat \ {0}
    BY <1>3
  <2>2. Time(on, full, now, current) = (amount * 3600) \div current
    BY <2>1 DEF Time
  <2> HIDE DEF amount
  <2>3. amount * 3600 \in Nat /\ amount * 3600 = 3600 * amount
    BY <1>1
  <2>4. (amount * 3600) \div current <= amount * 3600
    BY <2>1, <2>3, QuotientBelow
  <2>5. QED
    BY <2>2, <2>3, <2>4 DEF amount
<1>4. QED
  BY <1>2, <1>3

LEMMA CalmReturn ==
    ASSUME IInv, CalmInv, ReturnAc
    PROVE  CalmInv'
<1> USE DEF world
<1>1. /\ phase \in {"ac", "then_ac"} /\ at = None /\ left = {} /\ phase' = "idle"
      /\ UNCHANGED <<present, charge, online, seen>>
  BY DEF ReturnAc, Return
<1>2. CalmSeen' /\ CalmSums' /\ CalmAc'
  BY <1>1 DEF CalmSeen, CalmSums, CalmAc
<1>3. CASE phase = "ac"
  <2>1. ret' = [Outcome("ac") EXCEPT !.onAc = onAc]
    BY <1>3 DEF ReturnAc, Return
  <2>2. ret'.tag = "ac"
    BY <2>1 DEF Outcome
  <2>3. CalmResult'
    BY <2>2 DEF CalmResult, Returned
  <2>4. QED
    BY <1>2, <2>3 DEF CalmInv
<1>4. CASE phase = "then_ac"
  <2> SUFFICES ASSUME seen.calm PROVE ResultSums'
    BY <1>1, <1>2 DEF CalmInv, CalmResult
  <2>1. /\ ret'.full = sum.full /\ ret'.now = sum.now /\ ret'.onAc = onAc
        /\ ret'.time = Time(onAc, sum.full, sum.now, sum.current)
    BY <1>4 DEF ReturnAc, Return
  <2> DEFINE P == Bat \cap present
  <2>2. SumsOver(P) /\ seen.charge = {<<m, charge[m]>> : m \in MetersOf(P)}
    BY <1>4 DEF CalmInv, CalmSums, CalmSeen
  <2>3. onAc = (seen.on # {})
    <3>1. Done(Ac) = Ac \cap present /\ seen.on = {a \in Ac \cap present : online[a]}
      BY <1>1, <1>4, ConstantsAssumption DEF Done, CalmInv, CalmSeen
    <3>2. onAc <=> \E a \in Ac \cap present : online[a]
      BY <1>4, <3>1 DEF CalmInv, CalmAc
    <3>3. onAc \in BOOLEAN
      BY DEF IInv, Typed
    <3>4. onAc <=> seen.on # {}
      BY <3>1, <3>2
    <3>5. QED
      BY <3>3, <3>4
  <2>4. /\ ret'.full = Total(FullIn, P \cap Complete)
        /\ ret'.now = Total(NowIn(charge), P \cap Complete)
        /\ ret'.onAc = (seen.on # {})
    BY <2>1, <2>2, <2>3 DEF SumsOver
  <2>5. charge \in [Meter -> Nat] /\ P \in SUBSET Bat
    BY DEF IInv, Typed
  <2>6. InTime(ret')
    <3>1. /\ onAc \in BOOLEAN /\ sum.full \in Nat /\ sum.now \in Nat
          /\ sum.current \in Int
      BY DEF IInv, Typed
    <3>2. QED
      BY <2>1, <3>1, TimeBound DEF InTime
  <2> HIDE DEF P
  <2>7. /\ seen'.charge = {<<m, charge[m]>> : m \in MetersOf(P)}
        /\ ret'.onAc = (seen'.on # {})
    BY <1>1, <2>2, <2>4
  <2>8. QED
    BY <2>4, <2>5, <2>6, <2>7, Zenon DEF ResultSums
<1>5. QED
  BY <1>1, <1>3, <1>4

LEMMA CalmPreserved == IInv /\ CalmInv /\ [Next]_vars => CalmInv'
<1> SUFFICES ASSUME IInv, CalmInv, [Next]_vars PROVE CalmInv'
  OBVIOUS
<1>1. CASE UNCHANGED vars
  BY <1>1, CalmStays DEF vars
<1>2. CASE \/ \E s \in Supply : Connect(s) \/ Disconnect(s)
           \/ \E m \in Meter : \E n \in 0..Full[m] : SetCharge(m, n)
           \/ \E a \in Ac : Switch(a)
  BY <1>2, CalmWorld DEF Connect, Disconnect, SetCharge, Switch
<1>3. CASE CallFails
  BY <1>3 DEF CallFails, world, Outcome, Returned,
              CalmInv, CalmSeen, CalmSums, CalmAc, CalmResult
<1>4. CASE OnlineFails \/ ThenAcFails
  <2>1. seen \in SeenType
    BY DEF IInv, Typed
  <2>2. seen' = [charge |-> seen.charge, on |-> seen.on, off |-> Supply, calm |-> FALSE,
                 mixed |-> seen.mixed]
    BY <1>4, <2>1 DEF OnlineFails, ThenAcFails, SeenType
  <2>3. QED
    BY <2>2, NotCalm
<1>5. CASE FallBack
  <2>1. CASE Readable
    <3>1. at \in Supply
      BY <1>5, ConstantsAssumption DEF FallBack, IInv, Typed, Supply
    <3>2. ~seen'.calm
      BY <1>5, <2>1, <3>1, BlurSees DEF FallBack
    <3>3. QED
      BY <3>2, NotCalm
  <2>2. CASE ~Readable
    BY <1>5, <2>2, CalmStays DEF FallBack, world
  <2>3. QED
    BY <2>1, <2>2
<1>6. ASSUME NEW s \in left, Visit(s) \/ Skip(s) PROVE CalmInv'
  BY <1>6, CalmEntry
<1>7. QED
  BY <1>1, <1>2, <1>3, <1>4, <1>5, <1>6, CalmCall, CalmValue, CalmLoops, CalmOnline, CalmReturn
     DEF Next

LEMMA CalmAlways == Spec => []CalmInv
BY CalmInit, CalmPreserved, InvAlways, PTL DEF Spec

\* The sum over a set depends on the function's values there only.
LEMMA TotalRestricts ==
    ASSUME NEW U, IsFiniteSet(U), NEW f \in [U -> Nat], NEW S \in SUBSET U
    PROVE  Total([b \in S |-> f[b]], S) = Total(f, S)
<1> DEFINE g == [b \in S |-> f[b]]
<1>1. PICK h \in [SUBSET U -> Nat] : IsSums(h, f, U)
  BY SumsExist
<1> DEFINE r == Part(h, S)
<1>2. IsSums(r, f, S) /\ r \in [SUBSET S -> Nat]
  <2>1. IsSums(r, f, S)
    BY <1>1, SumsOfPart
  <2>2. \A T \in SUBSET S : h[T] \in Nat
    OBVIOUS
  <2>3. QED
    BY <2>1, <2>2 DEF Part
<1>3. g \in [S -> Nat] /\ IsFiniteSet(S)
  BY FS_Subset
<1>4. IsSums(r, g, S)
  <2> HIDE DEF r
  <2>1. \A T \in SUBSET S : T # {} => g[First(T)] = f[First(T)]
    BY DEF First
  <2> HIDE DEF g
  <2>2. [T \in SUBSET S |-> IF T = {} THEN 0 ELSE g[First(T)] + r[T \ {First(T)}]]
        = [T \in SUBSET S |-> IF T = {} THEN 0 ELSE f[First(T)] + r[T \ {First(T)}]]
    BY <2>1
  <2>3. QED
    BY <1>2, <2>2 DEF IsSums
<1>5. r[S] = h[S]
  BY DEF Part
<1> HIDE DEF r, g
<1>6. Total(g, S) = r[S]
  BY <1>2, <1>3, <1>4, TotalIs
<1>7. Total(f, S) = h[S]
  BY <1>1, TotalIs
<1>8. QED
  BY <1>5, <1>6, <1>7 DEF g

\* A quiet call is exact, however many batteries and adapters there are: the result
\* is the sum over all complete batteries, AC is on if any adapter is, and no time
\* is left that there is nothing to charge, or to drain, for (linux.rs:584-622).
THEOREM CalmIsExact == Spec => []CalmExact
<1>1. IInv /\ CalmInv => CalmExact
  <2> SUFFICES ASSUME IInv, CalmInv, Returned("life"), seen.calm PROVE CalmExact
    BY DEF CalmExact
  <2>1. PICK c \in [Meter -> Nat], P \in SUBSET Bat :
          /\ seen.charge = {<<m, c[m]>> : m \in MetersOf(P)}
          /\ ret.full = Total(FullIn, P \cap Complete)
          /\ ret.now = Total(NowIn(c), P \cap Complete)
          /\ ret.onAc = (seen.on # {})
          /\ InTime(ret)
    BY DEF CalmInv, CalmResult, ResultSums
  <2> DEFINE counted == {b \in Complete : \E mn \in seen.charge : mn[1][1] = b}
             full == [b \in counted |-> Full[<<b, Preferred(b, "full")>>]]
             now == [b \in counted |->
                       (CHOOSE mn \in seen.charge : mn[1] = <<b, Preferred(b, "now")>>)[2]]
  <2>2. ASSUME NEW b \in Bat, NEW q \in Quantity, b \in P
        PROVE  <<<<b, Preferred(b, q)>>, c[<<b, Preferred(b, q)>>]>> \in seen.charge
    <3>1. <<b, Preferred(b, q)>> \in MetersOf(P)
      BY <2>2 DEF MetersOf, Meter, Preferred, Unit
    <3>2. QED
      BY <2>1, <3>1
  <2>3. counted = P \cap Complete
    <3>1. ASSUME NEW mn \in seen.charge PROVE mn[1][1] \in P
      <4>1. PICK m \in MetersOf(P) : mn = <<m, c[m]>>
        BY <2>1
      <4>2. QED
        BY <4>1 DEF MetersOf
    <3>2. ASSUME NEW b \in P PROVE \E mn \in seen.charge : mn[1][1] = b
      <4>1. "now" \in Quantity /\ b \in Bat
        BY DEF Quantity
      <4>2. <<<<b, Preferred(b, "now")>>, c[<<b, Preferred(b, "now")>>]>> \in seen.charge
        BY <2>2, <4>1
      <4>3. QED
        BY <4>2
    <3>3. QED
      BY <3>1, <3>2
  <2>4. counted \in SUBSET Bat /\ IsFiniteSet(Bat)
    BY <2>3, ChargesNat
  <2>5. full = [b \in counted |-> FullIn[b]]
    <3> HIDE DEF counted
    <3>1. QED
      BY <2>4 DEF FullIn
  <2>6. now = [b \in counted |-> NowIn(c)[b]]
    <3>1. ASSUME NEW b \in counted
          PROVE  (CHOOSE mn \in seen.charge : mn[1] = <<b, Preferred(b, "now")>>)[2]
                 = NowIn(c)[b]
      <4> DEFINE m == <<b, Preferred(b, "now")>>
      <4>1. b \in Bat /\ b \in P /\ "now" \in Quantity
        BY <2>3, <2>4 DEF Quantity
      <4>2. <<m, c[m]>> \in seen.charge
        BY <2>2, <4>1
      <4>3. \A mn \in seen.charge : mn = <<mn[1], c[mn[1]]>>
        BY <2>1
      <4>4. NowIn(c)[b] = c[m]
        BY <4>1 DEF NowIn
      <4> HIDE DEF m
      <4>5. \A mn \in seen.charge : mn[1] = m => mn = <<m, c[m]>>
        BY <4>3
      <4> DEFINE shown == CHOOSE mn \in seen.charge : mn[1] = m
      <4>6. shown = <<m, c[m]>>
        BY <4>2, <4>5
      <4> HIDE DEF shown
      <4>7. shown[2] = NowIn(c)[b]
        BY <4>4, <4>6
      <4>8. QED
        BY <4>7 DEF shown, m
    <3> HIDE DEF counted
    <3>2. QED
      BY <3>1
  <2>7. NowIn(c) \in [Bat -> Nat] /\ FullIn \in [Bat -> Nat]
    <3>1. \A b \in Bat : <<b, Preferred(b, "now")>> \in Meter
      BY DEF Meter, Preferred, Unit
    <3>2. QED
      BY <2>1, <3>1, ChargesNat DEF NowIn
  <2>8. Total(full, counted) = Total(FullIn, counted)
    <3> HIDE DEF counted, full
    <3>1. QED
      BY <2>4, <2>5, <2>7, TotalRestricts
  <2>9. Total(now, counted) = Total(NowIn(c), counted)
    <3> HIDE DEF counted, now
    <3> DEFINE f == NowIn(c)
    <3>1. f \in [Bat -> Nat] /\ now = [b \in counted |-> f[b]]
      BY <2>6, <2>7
    <3> HIDE DEF f
    <3>2. Total(now, counted) = Total(f, counted)
      BY <2>4, <3>1, TotalRestricts
    <3>3. QED
      BY <3>2 DEF f
  <2>10. ret.full = Total(full, counted) /\ ret.now = Total(now, counted)
    <3> HIDE DEF counted, full, now
    <3>1. QED
      BY <2>1, <2>3, <2>8, <2>9
  <2>11. QED
    BY <2>1, <2>10 DEF CalmExact, Total, InTime
<1>2. QED
  BY InvAlways, CalmAlways, <1>1, PTL

-----------------------------------------------------------------------------

\* The clocks.

Op == {"uptime", "boot_time"}

\* The calls in progress: that of the caller, and the override it is defined by.
StackShape ==
    \/ stack = << >> /\ held = << >>
    \/ \E op \in Op :
        \/ stack = <<op>> /\ held = << >>
        \/ /\ op \notin Clocks!Overrides[platform]
           /\ stack = <<op>> /\ \E v \in Int : held = <<v>>
        \/ /\ op \notin Clocks!Overrides[platform]
           /\ stack = <<Clocks!Other(op), op>> /\ held = << >>

\* What the inner call returned, seen from now.
HeldHonest ==
    held # << >> =>
        /\ stack[1] = "boot_time" => held[1] > began - Micro /\ held[1] <= up
        /\ stack[1] = "uptime" /\ reason = "none" =>
            held[1] > wall - up - Second /\ held[1] <= wall - up

ClockInv ==
    /\ platform \in DOMAIN Clocks!Overrides
    /\ wall \in Int /\ up \in Nat /\ began \in 0..up
    /\ StackShape
    /\ HeldHonest
    /\ ClockHonest

\* A time cut off to a unit, and one in seconds and microseconds.
LEMMA FloorNear ==
    ASSUME NEW t \in Int, NEW second \in Nat \ {0}
    PROVE  Clocks!Floor(t, second) \in t - second + 1..t
BY DEF Clocks!Floor

LEMMA TimevalNear ==
    ASSUME NEW t \in Int
    PROVE  Clocks!Timeval(t) \in t - Second + 1..t
BY ClockAssumption DEF Clocks!Timeval, Clocks!Floor, Clocks!ConstantsAssumption

LEMMA ClockInit == Clocks!Init => ClockInv
BY ClockAssumption
   DEF Clocks!Init, ClockInv, StackShape, HeldHonest, ClockHonest, Clocks!ClockHonest,
       Clocks!Answer,
       Clocks!ConstantsAssumption

\* Time passes, or the clock is set.
LEMMA TimeSteps ==
    ASSUME ClockInv, Clocks!Advance \/ \E d \in Steps : Clocks!SetClock(d)
    PROVE  ClockInv'
<1> USE ClockAssumption DEF Clocks!ConstantsAssumption, Clocks!program
<1>1. /\ UNCHANGED <<platform, stack, held, answer, began>>
      /\ wall' \in Int /\ up' \in Nat /\ up <= up'
      /\ \/ reason' = reason /\ wall' - up' = wall - up
         \/ stack = << >> /\ reason' = reason
         \/ reason' # "none"
  BY DEF Clocks!Advance, Clocks!SetClock, ClockInv
<1>2. StackShape' /\ (held # << >> => stack # << >>)
  BY <1>1 DEF ClockInv, StackShape
<1>3. HeldHonest'
  <2> SUFFICES ASSUME held # << >> PROVE HeldHonest'
    BY <1>1 DEF HeldHonest
  <2>1. held[1] \in Int /\ stack # << >> /\ wall \in Int /\ up \in Nat
    BY DEF ClockInv, StackShape
  <2>2. /\ stack[1] = "boot_time" => held[1] > began - Micro /\ held[1] <= up
        /\ stack[1] = "uptime" /\ reason = "none" =>
            held[1] > wall - up - Second /\ held[1] <= wall - up
    BY DEF ClockInv, HeldHonest
  <2>3. held'[1] = held[1] /\ stack'[1] = stack[1] /\ began' = began
    BY <1>1
  <2>4. stack'[1] = "boot_time" => held'[1] > began' - Micro /\ held'[1] <= up'
    BY <1>1, <2>1, <2>2, <2>3
  <2>5. stack'[1] = "uptime" /\ reason' = "none" =>
            held'[1] > wall' - up' - Second /\ held'[1] <= wall' - up'
    BY <1>1, <2>1, <2>2, <2>3
  <2>6. QED
    BY <2>4, <2>5 DEF HeldHonest
<1>4. ClockHonest'
  BY <1>1 DEF ClockInv, ClockHonest, Clocks!ClockHonest, Clocks!Idle, Clocks!Resolution
<1>5. QED
  BY <1>1, <1>2, <1>3, <1>4 DEF ClockInv

\* A call of the caller, and the call of a definition by default.
LEMMA CallOpSteps ==
    ASSUME ClockInv, (\E op \in Op : Clocks!CallOp(op)) \/ Clocks!Delegate
    PROVE  ClockInv'
<1> USE DEF Clocks!kernel, Op
<1>1. ASSUME NEW op \in Op, Clocks!CallOp(op) PROVE ClockInv'
  BY <1>1 DEF Clocks!CallOp, ClockInv, StackShape, HeldHonest, ClockHonest, Clocks!ClockHonest,
              Clocks!Idle
<1>2. CASE Clocks!Delegate
  <2>1. PICK op \in Op : stack = <<op>> /\ held = << >> /\ op \notin Clocks!Overrides[platform]
    BY <1>2 DEF Clocks!Delegate, ClockInv, StackShape, Clocks!Overrides, Clocks!Other
  <2>2. /\ stack' = <<Clocks!Other(op), op>> /\ held' = << >>
        /\ UNCHANGED <<platform, wall, up, answer, began, reason>>
    <3>1. Head(stack) = op /\ <<Clocks!Other(op)>> \o <<op>> = <<Clocks!Other(op), op>>
      <4>1. Head(<<op>>) = op
        OBVIOUS
      <4>2. ASSUME NEW a, NEW b PROVE <<a>> \o <<b>> = <<a, b>>
        <5> DEFINE ab == <<a>> \o <<b>>
        <5>1. ab \in Seq({a, b}) /\ Len(ab) = 2 /\ ab[1] = a /\ ab[2] = b
          OBVIOUS
        <5>2. <<a, b>> \in Seq({a, b}) /\ Len(<<a, b>>) = 2
          OBVIOUS
        <5>3. \A i \in 1..2 : ab[i] = <<a, b>>[i]
          BY <5>1
        <5> HIDE DEF ab
        <5>4. ab = <<a, b>>
          BY <5>1, <5>2, <5>3, SeqEqual
        <5>5. QED
          BY <5>4 DEF ab
      <4>3. QED
        BY <2>1, <4>1, <4>2
    <3>2. QED
      BY <1>2, <2>1, <3>1 DEF Clocks!Delegate
  <2>3. StackShape'
    BY <2>1, <2>2 DEF StackShape
  <2>4. HeldHonest' /\ ClockHonest'
    BY <2>2 DEF HeldHonest, ClockHonest, Clocks!ClockHonest, Clocks!Idle
  <2>5. QED
    BY <2>2, <2>3, <2>4 DEF ClockInv
<1>3. QED
  BY <1>1, <1>2

\* What a system says is near the truth.
LEMMA ReadingNear ==
    ASSUME ClockInv, Clocks!Supported, NEW op \in Clocks!Overrides[platform]
    PROVE  LET truth == IF op = "uptime" THEN up ELSE wall - up
           IN  Clocks!Reading(op) \in truth - Clocks!Resolution + 1..truth
<1> USE ClockAssumption DEF Clocks!ConstantsAssumption, Clocks!Resolution, Clocks!Boot
<1>1. /\ up \in Int /\ wall - up \in Int
      /\ platform \in {"linux", "bsd", "windows"} /\ op \in Op
  BY DEF ClockInv, Clocks!Supported, Clocks!Overrides, Op
<1>2. CASE platform = "linux"
  BY <1>1, <1>2, FloorNear DEF Clocks!Reading, Op
<1>3. CASE platform = "bsd"
  <2>1. op = "boot_time" /\ Clocks!Reading(op) = Clocks!Timeval(wall - up)
    BY <1>3 DEF Clocks!Reading, Clocks!Overrides
  <2>2. QED
    BY <1>1, <1>3, <2>1, TimevalNear
<1>4. CASE platform = "windows"
  <2>1. op = "uptime" /\ Clocks!Reading(op) = Clocks!Floor(up, Micro)
    BY <1>4 DEF Clocks!Reading, Clocks!Overrides
  <2>2. QED
    BY <1>1, <1>4, <2>1, FloorNear
<1>5. QED
  BY <1>1, <1>2, <1>3, <1>4

\* An override answers the caller, or the definition by default.
LEMMA ReadStep ==
    ASSUME ClockInv, Clocks!ReadSystem
    PROVE  ClockInv'
<1> USE ClockAssumption DEF Clocks!ConstantsAssumption, Clocks!kernel
<1> DEFINE v == Clocks!Reading(Head(stack))
<1>1. /\ stack # << >> /\ Head(stack) \in Clocks!Overrides[platform] /\ Clocks!Supported
      /\ UNCHANGED <<platform, wall, up, began, reason>>
  BY DEF Clocks!ReadSystem
<1>2. LET truth == IF Head(stack) = "uptime" THEN up ELSE wall - up
      IN  v \in truth - Clocks!Resolution + 1..truth
  BY <1>1, ReadingNear
<1>3. wall \in Int /\ up \in Nat /\ began \in 0..up /\ Clocks!Resolution \in Nat \ {0}
  BY DEF ClockInv, Clocks!Resolution
<1> HIDE DEF v
<1>4. CASE \E op \in Op : stack = <<op>>
  <2>1. PICK op \in Op : stack = <<op>>
    BY <1>4
  <2>2. stack' = << >> /\ held' = << >> /\ answer' = Clocks!Answer(op, "ok", v)
    BY <2>1 DEF Clocks!ReadSystem, Clocks!Done, v
  <2>3. /\ answer'.op = op /\ answer'.tag = "ok" /\ answer'.value = v
        /\ answer'.ended = up /\ answer'.boot = wall - up
    BY <2>2 DEF Clocks!Answer
  <2>4. ClockHonest'
    BY <1>1, <1>2, <1>3, <2>1, <2>3
       DEF ClockHonest, Clocks!ClockHonest, Clocks!Resolution, Op
  <2>5. QED
    BY <1>1, <2>2, <2>4 DEF ClockInv, StackShape, HeldHonest
<1>5. CASE ~\E op \in Op : stack = <<op>>
  <2>1. PICK op \in Op : /\ op \notin Clocks!Overrides[platform]
                         /\ stack = <<Clocks!Other(op), op>> /\ held = << >>
    BY <1>1, <1>5 DEF ClockInv, StackShape
  <2>2. stack' = <<op>> /\ held' = <<v>> /\ answer' = answer
    BY <2>1 DEF Clocks!ReadSystem, v
  <2>3. v \in Int
    BY <1>2, <1>3
  <2>4. StackShape'
    BY <1>1, <2>1, <2>2, <2>3 DEF StackShape
  <2>5. op = "boot_time" => platform = "windows"
    BY <1>1, <2>1 DEF Clocks!Overrides, Clocks!Supported, ClockInv
  <2>6. op = "uptime" => Clocks!Resolution = Second
    BY <2>1 DEF Clocks!Overrides, Clocks!Resolution
  <2>7. HeldHonest'
    BY <1>1, <1>2, <1>3, <2>1, <2>2, <2>3, <2>5, <2>6
       DEF HeldHonest, Clocks!Other, Op, Clocks!Resolution
  <2>8. ClockHonest'
    BY <2>2 DEF ClockHonest, Clocks!ClockHonest, Clocks!Idle
  <2>9. QED
    BY <1>1, <2>4, <2>7, <2>8 DEF ClockInv
<1>6. QED
  BY <1>4, <1>5

\* The definition by default subtracts from now.
LEMMA SubtractStep ==
    ASSUME ClockInv, Clocks!SubtractFromNow
    PROVE  ClockInv'
<1> USE ClockAssumption DEF Clocks!ConstantsAssumption, Clocks!kernel
<1>1. PICK op \in Op, v \in Int :
        stack = <<op>> /\ held = <<v>> /\ op \notin Clocks!Overrides[platform]
  BY DEF Clocks!SubtractFromNow, ClockInv, StackShape
<1>2. /\ stack' = << >> /\ held' = << >>
      /\ answer' = IF op = "uptime" /\ wall - v < 0 THEN Clocks!Answer(op, "err", 0)
                   ELSE Clocks!Answer(op, "ok", wall - v)
      /\ UNCHANGED <<platform, wall, up, began, reason>>
  BY <1>1 DEF Clocks!SubtractFromNow, Clocks!Done
<1>3. wall \in Int /\ up \in Nat /\ began \in 0..up /\ platform \in DOMAIN Clocks!Overrides
  BY DEF ClockInv
<1>4. /\ op = "boot_time" => v > began - Micro /\ v <= up
      /\ op = "uptime" /\ reason = "none" => v > wall - up - Second /\ v <= wall - up
  BY <1>1 DEF ClockInv, HeldHonest
<1>5. op = "boot_time" => Clocks!Resolution = Micro
  BY <1>1, <1>3 DEF Clocks!Overrides, Clocks!Resolution
<1>6. op = "uptime" => Clocks!Resolution = Second
  BY <1>1, <1>3 DEF Clocks!Overrides, Clocks!Resolution
<1>7. /\ answer'.op = op /\ answer'.ended = up /\ answer'.boot = wall - up
      /\ answer'.tag \in {"ok", "err"}
      /\ answer'.tag = "ok" => answer'.value = wall - v
      /\ answer'.tag = "err" => op = "uptime" /\ wall - v < 0
  BY <1>2 DEF Clocks!Answer
<1>8. Clocks!Resolution' = Clocks!Resolution
  BY <1>2 DEF Clocks!Resolution
<1>9. ClockHonest'
  BY <1>2, <1>3, <1>4, <1>5, <1>6, <1>7, <1>8 DEF ClockHonest, Clocks!ClockHonest, Op
<1>10. QED
  BY <1>2, <1>3, <1>9 DEF ClockInv, StackShape, HeldHonest

LEMMA ClockPreserved == ClockInv /\ [Clocks!Next]_clockState => ClockInv'
<1> SUFFICES ASSUME ClockInv, [Clocks!Next]_clockState PROVE ClockInv'
  OBVIOUS
<1>1. CASE UNCHANGED clockState
  BY <1>1 DEF clockState, ClockInv, StackShape, HeldHonest, ClockHonest, Clocks!ClockHonest,
              Clocks!Idle, Clocks!Resolution
<1>2. CASE Clocks!ReadFails
  <2>1. /\ stack' = << >> /\ held' = << >> /\ answer'.tag = "err" /\ reason' = "system"
        /\ UNCHANGED <<platform, wall, up, began>>
    BY <1>2 DEF Clocks!ReadFails, Clocks!Done, Clocks!Answer, Clocks!kernel
  <2>2. QED
    BY <2>1 DEF ClockInv, StackShape, HeldHonest, ClockHonest, Clocks!ClockHonest
<1>3. QED
  BY <1>1, <1>2, TimeSteps, CallOpSteps, ReadStep, SubtractStep DEF Clocks!Next, Op

\* Unless the clock is set meanwhile, uptime and boot time are right but for the
\* resolution of what the system says, and an error has a cause.
THEOREM ClockCorrect == Clocks!Spec => []ClockHonest
<1>1. ClockInv => ClockHonest
  BY DEF ClockInv
<1>2. ClockInv /\ [Clocks!Next]_Clocks!vars => ClockInv'
  BY ClockPreserved DEF clockState, Clocks!vars
<1>3. QED
  BY <1>1, <1>2, ClockInit, PTL DEF Clocks!Spec

-----------------------------------------------------------------------------

\* The batteries of FreeBSD, OpenBSD and Windows.

\* Between the two sysctls of FreeBSD: what was read was there, and what there
\* is has been seen.
BetweenSysctls ==
    life # Apm!NotRead =>
        /\ apmPlatform = "freebsd" /\ apmRet.op = "nothing"
        /\ battery \in glances
        /\ \E g \in glances : life[1] = Apm!AsUnsigned(g.percent)

BatteryInv ==
    /\ apmPlatform \in {"freebsd", "openbsd", "windows"}
    /\ battery \in Apm!Supply
    /\ glances \subseteq Apm!Supply
    /\ BetweenSysctls
    /\ BatteryHonest

\* An int has 16 bits at least.
LEMMA IntWidth == IntValues \in Nat /\ IntValues >= 65536
  BY ApmAssumption DEF Apm!ConstantsAssumption

\* What a battery can say of itself.
LEMMA SupplyFacts ==
    ASSUME NEW s \in Apm!Supply
    PROVE  /\ s.state \in {"known", "unknown", "absent"}
           /\ s.percent = -1 <=> s.state # "known"
           /\ s.state = "known" => s.percent \in 0..100
           /\ s.minutes \in Int /\ s.minutes >= -1 /\ 60 * s.minutes < IntValues
<1>1. /\ Percents \subseteq 0..100 /\ Minutes \subseteq Int
      /\ \A m \in Minutes : m >= -1 /\ 60 * m < IntValues
  BY ApmAssumption DEF Apm!ConstantsAssumption
<1>2. /\ s.state \in {"known", "unknown", "absent"}
      /\ s.percent \in Percents \cup {-1} /\ s.minutes \in Minutes
      /\ s.percent = -1 <=> s.state # "known"
  BY DEF Apm!Supply, Apm!Unknown
<1>3. QED
  BY <1>1, <1>2

\* A capacity and a time are those of a battery, but for what LifeHonest excepts.
CapacityTrue(capacity, s) ==
    capacity = (IF apmPlatform = "openbsd" THEN 100 ELSE 1) * s.percent

TimeTrue(seconds, s) ==
    IF s.minutes # -1
    THEN (IF apmPlatform = "windows" THEN 1 ELSE 60) * seconds = 60 * s.minutes
    ELSE seconds = IF apmPlatform = "freebsd" THEN 0 ELSE IntValues - 1

LEMMA HonestIs ==
    Apm!LifeHonest <=>
        /\ /\ apmRet.op = "life" /\ apmRet.tag = "ok" /\ ~broken
           /\ \A g \in glances : g.state = "known"
           => /\ \E g \in glances : CapacityTrue(apmRet.capacity, g)
              /\ \E g \in glances : TimeTrue(apmRet.time, g)
        /\ apmRet.op = "life" /\ apmRet.tag = "ok" /\ ~broken /\ apmPlatform # "freebsd" =>
                \E g \in glances : g.state = "known"
        /\ apmRet = Apm!LifeErr => broken \/ \E g \in glances : g.state # "known"
BY DEF Apm!LifeHonest, Apm!Clear, Apm!LifeOkNow, Apm!Share, Apm!Seconds, Apm!Unknown,
       CapacityTrue, TimeTrue

\* The numbers of a known battery that OpenBSD and Windows show.
LEMMA NumbersTrue ==
    ASSUME NEW s \in Apm!Supply, s.state = "known", apmPlatform \in {"openbsd", "windows"}
    PROVE  /\ CapacityTrue(Apm!Capacity(Apm!Percent(s)), s)
           /\ TimeTrue(Apm!Time(s), s)
<1>0. CapacityTrue(Apm!Capacity(Apm!Percent(s)), s)
  <2>1. Apm!Percent(s) = s.percent /\ s.percent \in Int
    BY SupplyFacts DEF Apm!Percent, Apm!Unknown
  <2>2. Apm!Capacity(s.percent) = (IF apmPlatform = "openbsd" THEN 100 ELSE 1) * s.percent
    BY <2>1 DEF Apm!Capacity
  <2>3. QED
    BY <2>1, <2>2 DEF CapacityTrue
<1>1. ASSUME s.minutes # -1 PROVE TimeTrue(Apm!Time(s), s)
  <2>1. s.minutes \in Nat /\ 60 * s.minutes < IntValues
    BY <1>1, SupplyFacts
  <2>2. 60 * s.minutes \in 0..IntValues - 1 /\ s.minutes \in 0..IntValues - 1
    BY <2>1, IntWidth
  <2>3. \A v \in 0..IntValues - 1 : v % IntValues = v
    BY IntWidth, SMTT(30)
  <2>4. CASE apmPlatform = "windows"
    <3>1. Apm!Time(s) = (60 * s.minutes) % IntValues
      BY <1>1, <2>4 DEF Apm!Time, Apm!AsUnsigned, Apm!Unknown
    <3>2. Apm!Time(s) = 60 * s.minutes
      BY <2>2, <2>3, <3>1
    <3>3. 1 * (60 * s.minutes) = 60 * s.minutes
      BY <2>1
    <3>4. QED
      BY <1>1, <2>4, <3>2, <3>3 DEF TimeTrue
  <2>5. CASE apmPlatform = "openbsd"
    <3>1. Apm!Time(s) = s.minutes % IntValues
      BY <2>5 DEF Apm!Time, Apm!AsUnsigned
    <3>2. Apm!Time(s) = s.minutes
      BY <2>2, <2>3, <3>1
    <3>3. QED
      BY <1>1, <2>5, <3>2 DEF TimeTrue
  <2>6. QED
    BY <2>4, <2>5
<1>2. ASSUME s.minutes = -1 PROVE TimeTrue(Apm!Time(s), s)
  <2>1. Apm!Time(s) = (-1) % IntValues
    BY <1>2 DEF Apm!Time, Apm!AsUnsigned, Apm!Unknown
  <2>2. (-1) % IntValues = IntValues - 1
    BY IntWidth, SMTT(30)
  <2>3. QED
    BY <1>2, <2>1, <2>2 DEF TimeTrue
<1>3. QED
  BY <1>0, <1>1, <1>2

\* A flag is refused exactly when the battery is not known.
LEMMA RefusalTrue ==
    ASSUME NEW s \in Apm!Supply, apmPlatform \in {"openbsd", "windows"}
    PROVE  Apm!Refused(Apm!Flag(s)) <=> s.state # "known"
BY SupplyFacts DEF Apm!Refused, Apm!Flag

LEMMA BatteryInit == Apm!Init => BatteryInv
BY HonestIs DEF Apm!Init, BatteryInv, BetweenSysctls, BatteryHonest, Apm!BatteryHonest,
                Apm!AcHonest, Apm!LifeErr

\* What is not a result is not wrong.
LEMMA NothingWrong ==
    apmRet.op = "nothing" => BatteryHonest
BY HonestIs DEF BatteryHonest, Apm!BatteryHonest, Apm!AcHonest, Apm!LifeErr

\* Nor does what was said become wrong by itself.
LEMMA BatteryStays ==
    ASSUME BatteryHonest, UNCHANGED <<apmPlatform, apmRet, broken, glances>>
    PROVE  BatteryHonest'
BY DEF BatteryHonest, Apm!BatteryHonest, Apm!LifeHonest, Apm!AcHonest, Apm!Clear, Apm!LifeOkNow,
       Apm!Share, Apm!Seconds, Apm!LifeErr

LEMMA BatteryChange ==
    ASSUME BatteryInv, NEW s \in Apm!Supply, Apm!Change(s)
    PROVE  BatteryInv'
<1>1. /\ battery' = s /\ UNCHANGED <<apmPlatform, life, apmRet, broken>>
      /\ glances' = IF life = Apm!NotRead THEN glances ELSE glances \cup {s}
  BY DEF Apm!Change
<1>2. BetweenSysctls' /\ glances' \subseteq Apm!Supply
  BY <1>1 DEF BatteryInv, BetweenSysctls
<1>3. CASE life = Apm!NotRead
  BY <1>1, <1>2, <1>3, BatteryStays DEF BatteryInv
<1>4. CASE life # Apm!NotRead
  <2>1. apmRet'.op = "nothing"
    BY <1>1, <1>4 DEF BatteryInv, BetweenSysctls
  <2>2. (apmRet.op = "nothing" => BatteryHonest)'
    BY NothingWrong, PTL
  <2>3. BatteryHonest'
    BY <2>1, <2>2
  <2>4. QED
    BY <1>1, <1>2, <2>3 DEF BatteryInv
<1>5. QED
  BY <1>3, <1>4

\* A call that is one look: enough to judge its result by the battery looked at.
LEMMA LookStep ==
    ASSUME BatteryInv, NEW result, NEW failed, Apm!Look(result, failed),
           result.op = "life" /\ result.tag = "ok" =>
                /\ ~failed => battery.state = "known"
                /\ ~failed => CapacityTrue(result.capacity, battery)
                /\ ~failed => TimeTrue(result.time, battery),
           result = Apm!LifeErr => failed \/ battery.state # "known",
           result.op = "ac" /\ result.tag = "ok" =>
                IF result.on THEN battery.ac = "on" ELSE failed \/ battery.ac # "on"
    PROVE  BatteryInv'
<1>1. /\ apmRet' = result /\ glances' = {battery} /\ broken' = failed /\ life = Apm!NotRead
      /\ UNCHANGED <<apmPlatform, battery, life>>
  BY DEF Apm!Look, Apm!kernel
<1>2. BetweenSysctls' /\ glances' \subseteq Apm!Supply
  BY <1>1 DEF BatteryInv, BetweenSysctls
<1>3. Apm!LifeHonest'
  BY <1>1 DEF Apm!LifeHonest, Apm!Clear, Apm!LifeOkNow, Apm!Share, Apm!Seconds, Apm!Unknown,
              Apm!LifeErr, CapacityTrue, TimeTrue
<1>4. Apm!AcHonest'
  BY <1>1 DEF Apm!AcHonest
<1>5. QED
  BY <1>1, <1>2, <1>3, <1>4 DEF BatteryInv, BatteryHonest, Apm!BatteryHonest

LEMMA LookSteps ==
    ASSUME BatteryInv,
           \/ Apm!LifeInOneLook
           \/ \E op \in {"life", "ac"} : Apm!CallFails(op)
           \/ Apm!LifeUnchecked \/ Apm!AcUnchecked \/ Apm!OnAcPower
    PROVE  BatteryInv'
<1>1. CASE Apm!LifeInOneLook
  <2>1. battery \in Apm!Supply /\ apmPlatform \in {"openbsd", "windows"}
    BY <1>1 DEF BatteryInv, Apm!LifeInOneLook
  <2>2. CASE battery.state = "known"
    <3> DEFINE result == Apm!LifeOk(Apm!Capacity(Apm!Percent(battery)), Apm!Time(battery))
    <3>1. Apm!Look(result, FALSE)
      BY <1>1, <2>1, <2>2, RefusalTrue DEF Apm!LifeInOneLook
    <3>2. /\ result.op = "life" /\ result.tag = "ok" /\ result # Apm!LifeErr
          /\ CapacityTrue(result.capacity, battery)
          /\ TimeTrue(result.time, battery)
      BY <2>1, <2>2, NumbersTrue DEF Apm!LifeOk, Apm!LifeErr
    <3> HIDE DEF result
    <3>3. QED
      BY <2>2, <3>1, <3>2, LookStep
  <2>3. CASE battery.state # "known"
    <3>1. Apm!Look(Apm!LifeErr, FALSE)
      BY <1>1, <2>1, <2>3, RefusalTrue DEF Apm!LifeInOneLook
    <3>2. Apm!LifeErr.op = "life" /\ Apm!LifeErr.tag = "err"
      BY DEF Apm!LifeErr
    <3>3. QED
      BY <2>3, <3>1, <3>2, LookStep
  <2>4. QED
    BY <2>2, <2>3
<1>2. ASSUME NEW op \in {"life", "ac"}, Apm!CallFails(op) PROVE BatteryInv'
  <2> DEFINE result == [op |-> op, tag |-> "err"]
  <2>1. Apm!Look(result, TRUE) /\ result.tag = "err"
    BY <1>2 DEF Apm!CallFails
  <2> HIDE DEF result
  <2>2. QED
    BY <2>1, LookStep
<1>3. CASE Apm!LifeUnchecked
  <2> DEFINE result == Apm!LifeOk(0, 0)
  <2>1. Apm!Look(result, TRUE) /\ result.op = "life"
    BY <1>3 DEF Apm!LifeUnchecked, Apm!LifeOk
  <2> HIDE DEF result
  <2>2. QED
    BY <2>1, LookStep
<1>4. CASE Apm!AcUnchecked
  <2> DEFINE result == [op |-> "ac", tag |-> "ok", on |-> FALSE]
  <2>1. Apm!Look(result, TRUE) /\ result.op = "ac" /\ ~result.on
    BY <1>4 DEF Apm!AcUnchecked
  <2> HIDE DEF result
  <2>2. QED
    BY <2>1, LookStep
<1>5. CASE Apm!OnAcPower
  <2> DEFINE result == [op |-> "ac", tag |-> "ok", on |-> battery.ac = "on"]
  <2>1. /\ Apm!Look(result, FALSE) /\ result.op = "ac" /\ result # Apm!LifeErr
        /\ result.on <=> battery.ac = "on"
    BY <1>5 DEF Apm!OnAcPower, Apm!LifeErr
  <2> HIDE DEF result
  <2>2. QED
    BY <2>1, LookStep
<1>6. QED
  BY <1>1, <1>2, <1>3, <1>4, <1>5

\* The two sysctls of FreeBSD, the battery changing between them.
LEMMA SysctlSteps ==
    ASSUME BatteryInv, Apm!ReadLife \/ Apm!ReadTime \/ Apm!ReadTimeFails
    PROVE  BatteryInv'
<1>1. CASE Apm!ReadLife
  <2>1. /\ life'[1] = Apm!AsUnsigned(battery.percent) /\ apmRet'.op = "nothing"
        /\ glances' = {battery} /\ UNCHANGED <<apmPlatform, battery>> /\ apmPlatform = "freebsd"
    BY <1>1 DEF Apm!ReadLife, Apm!kernel
  <2>2. BetweenSysctls'
    BY <2>1 DEF BetweenSysctls, Apm!AsUnsigned
  <2>3. (apmRet.op = "nothing" => BatteryHonest)'
    BY NothingWrong, PTL
  <2>4. BatteryHonest'
    BY <2>1, <2>3
  <2>5. QED
    BY <2>1, <2>2, <2>4 DEF BatteryInv
<1>2. CASE Apm!ReadTime
  <2> DEFINE time == IF battery.minutes < 0 THEN 0 ELSE battery.minutes
  <2>1. /\ apmPlatform = "freebsd" /\ battery \in glances /\ glances \subseteq Apm!Supply
        /\ battery \in Apm!Supply
    BY <1>2 DEF Apm!ReadTime, Apm!FreeBsdReturns, BatteryInv, BetweenSysctls
  <2>2. PICK g \in glances : life[1] = Apm!AsUnsigned(g.percent)
    BY <1>2 DEF Apm!ReadTime, Apm!FreeBsdReturns, BatteryInv, BetweenSysctls
  <2>3. /\ apmRet' = Apm!LifeOk(life[1], time) /\ life' = Apm!NotRead /\ broken' = FALSE
        /\ UNCHANGED <<apmPlatform, battery, glances>>
    BY <1>2 DEF Apm!ReadTime, Apm!FreeBsdReturns, Apm!kernel
  <2>4. g.state = "known" => CapacityTrue(life[1], g)
    <3>1. g.state = "known" => g.percent \in 0..3600
      BY <2>1, SupplyFacts
    <3>2. ASSUME g.state = "known" PROVE g.percent % IntValues = g.percent
      <4>1. PICK v \in 0..3600 : v = g.percent
        BY <3>1, <3>2
      <4>2. v % IntValues = v
        BY IntWidth, SMTT(30)
      <4>3. QED
        BY <4>1, <4>2
    <3>3. g.state = "known" => life[1] = g.percent
      BY <2>2, <3>2 DEF Apm!AsUnsigned
    <3>4. ASSUME g.state = "known" PROVE 1 * g.percent = g.percent
      <4>1. PICK v \in 0..3600 : v = g.percent
        BY <3>1, <3>4
      <4>2. 1 * v = v
        OBVIOUS
      <4>3. QED
        BY <4>1, <4>2
    <3>5. QED
      BY <2>1, <3>3, <3>4 DEF CapacityTrue
  <2>5. TimeTrue(time, battery)
    BY <2>1, SupplyFacts DEF TimeTrue
  <2>6. /\ apmRet'.op = "life" /\ apmRet'.tag = "ok" /\ apmRet'.capacity = life[1]
        /\ apmRet'.time = time /\ apmRet' # Apm!LifeErr
    BY <2>3 DEF Apm!LifeOk, Apm!LifeErr
  <2> HIDE DEF time
  <2>7. Apm!LifeHonest'
    BY <2>1, <2>3, <2>4, <2>5, <2>6
       DEF Apm!LifeHonest, Apm!Clear, Apm!LifeOkNow, Apm!Share, Apm!Seconds, Apm!Unknown,
           Apm!LifeErr, CapacityTrue, TimeTrue
  <2>8. Apm!AcHonest'
    BY <2>6 DEF Apm!AcHonest
  <2>9. QED
    BY <2>1, <2>3, <2>7, <2>8
       DEF BatteryInv, BetweenSysctls, BatteryHonest, Apm!BatteryHonest
<1>3. CASE Apm!ReadTimeFails
  <2>1. /\ apmRet' = Apm!LifeErr /\ life' = Apm!NotRead /\ broken' = TRUE
        /\ UNCHANGED <<apmPlatform, battery, glances>>
    BY <1>3 DEF Apm!ReadTimeFails, Apm!FreeBsdReturns, Apm!kernel
  <2>2. apmRet'.op = "life" /\ apmRet'.tag = "err"
    BY <2>1 DEF Apm!LifeErr
  <2>3. BatteryHonest'
    BY <2>1, <2>2 DEF BatteryHonest, Apm!BatteryHonest, Apm!LifeHonest, Apm!Clear, Apm!LifeOkNow,
                      Apm!AcHonest
  <2>4. QED
    BY <2>1, <2>3 DEF BatteryInv, BetweenSysctls
<1>4. QED
  BY <1>1, <1>2, <1>3

LEMMA BatteryPreserved == BatteryInv /\ [Apm!Next]_apmState => BatteryInv'
<1> SUFFICES ASSUME BatteryInv, [Apm!Next]_apmState PROVE BatteryInv'
  OBVIOUS
<1>1. CASE UNCHANGED apmState
  BY <1>1, BatteryStays DEF apmState, BatteryInv, BetweenSysctls
<1>2. QED
  BY <1>1, BatteryChange, LookSteps, SysctlSteps DEF Apm!Next

\* Battery life and AC power are true to what the system said during the call.
THEOREM BatteryCorrect == Apm!Spec => []BatteryHonest
<1>1. BatteryInv => BatteryHonest
  BY DEF BatteryInv
<1>2. BatteryInv /\ [Apm!Next]_Apm!vars => BatteryInv'
  BY BatteryPreserved DEF apmState, Apm!vars
<1>3. QED
  BY <1>1, <1>2, BatteryInit, PTL DEF Apm!Spec

\* A behaviour of the composition is one of each component, so that what is
\* proved of any of them holds of it.
THEOREM PowerComposes == PowerSpec => Spec /\ Apm!Spec /\ Clocks!Spec
<1>1. PowerInit => Init /\ Apm!Init /\ Clocks!Init
  BY DEF PowerInit
<1>2. [PowerNext]_<<component, vars, apmState, clockState>> => [Next]_vars
  BY DEF PowerNext
<1>3. [PowerNext]_<<component, vars, apmState, clockState>> => [Apm!Next]_Apm!vars
  BY DEF PowerNext, apmState, Apm!vars
<1>4. [PowerNext]_<<component, vars, apmState, clockState>> => [Clocks!Next]_Clocks!vars
  BY DEF PowerNext, clockState, Clocks!vars
<1>5. QED
  BY <1>1, <1>2, <1>3, <1>4, PTL DEF PowerSpec, Spec, Apm!Spec, Clocks!Spec
=============================================================================
