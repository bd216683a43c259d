----------------------------- MODULE LinuxPower -----------------------------
(***************************************************************************)
(* battery_life() and on_ac_power() of src/src/platform/linux.rs.  Both    *)
(* list /sys/class/power_supply and then read a file at a time: the type   *)
(* of every supply, three values of a battery, one of a power adapter.     *)
(* A battery may count energy, charge or both; each of the three values is *)
(* looked for as energy first, and as charge if that cannot be read.       *)
(* battery_life() adds up the batteries that gave all three values and     *)
(* then scans the directory once more to learn about AC.  Meanwhile the    *)
(* batteries charge or drain and supplies are connected and disconnected.  *)
(***************************************************************************)
EXTENDS Integers, Sequences, FiniteSetsExt

CONSTANTS
    Bat,        \* the batteries
    Ac,         \* the power adapters
    Files,      \* the values a battery has files for, see File
    Full,       \* [Meter -> Nat], energy_full and charge_full
    Currents,   \* the values power_now or current_now shows in a run
    None,       \* no supply
    MaxChanges  \* bound on what happens outside in a behaviour

Unit == {"energy", "charge"}
Quantity == {"full", "now", "current"}

\* What a battery counts in one unit.
Meter == Bat \X Unit

\* energy_full, energy_now and power_now, or charge_full, charge_now, current_now.
File == Bat \X Unit \X Quantity

ASSUME ConstantsAssumption ==
    /\ Bat \cap Ac = {} /\ None \notin Bat \cup Ac
    /\ IsFiniteSet(Bat)
    /\ Files \subseteq File
    /\ Full \in [Meter -> Nat \ {0}]
    /\ Currents \subseteq Int
    /\ MaxChanges \in Nat

Supply == Bat \cup Ac

Has(b, u, q) == <<b, u, q>> \in Files

\* The batteries with a file for each value; the unit a value of one is in.
Complete == {b \in Bat : \A q \in Quantity : Has(b, "energy", q) \/ Has(b, "charge", q)}

Preferred(b, q) == IF Has(b, "energy", q) THEN "energy" ELSE "charge"

VARIABLES
    present,    \* the supplies that are connected
    charge,     \* [Meter -> Nat], energy_now and charge_now, at most Full
    online,     \* [Ac -> BOOLEAN]
    changes,    \* outside events so far
    phase,      \* "idle", or the loop at work: "batteries", then "then_ac",
                \* in battery_life(), "ac" in on_ac_power()
    left,       \* the entries of the directory left to visit
    at,         \* the supply whose values are being read, or None
    got,        \* the values of at read so far
    unit,       \* the unit in which the next one is looked for
    sum,        \* the local variables full, now and current
    onAc,       \* the local variable on_ac
    ret,        \* what the last call returned, until the next one
    seen        \* history of the call: what there was to see, see Glance

world == <<present, charge, online, changes>>
vars == <<present, charge, online, changes, phase, left, at, got, unit, sum, onAc, ret, seen>>

Failed == [failed |-> TRUE, value |-> 0, unit |-> "none"]
Value(u, v) == [failed |-> FALSE, value |-> v, unit |-> u]

NoSum == [full |-> 0, now |-> 0, current |-> 0]

Outcome(tag) == [tag |-> tag, full |-> 0, now |-> 0, onAc |-> FALSE, time |-> 0]

\* What one moment shows: what each battery counts, the adapters that are on, and
\* the supplies that are off or not there; then, whether a battery has been
\* added of which full and now are in different units.
Glance(p, c, o) ==
    [charge |-> {<<m, c[m]>> : m \in {m \in Meter : m[1] \in p}},
     on     |-> {a \in Ac \cap p : o[a]},
     off    |-> {s \in Supply : s \notin p \/ (s \in Ac /\ ~o[s])},
     calm   |-> TRUE,
     mixed  |-> FALSE]

Init ==
    /\ present \in SUBSET Supply
    /\ charge = Full
    /\ online \in [Ac -> BOOLEAN]
    /\ changes = 0
    /\ phase = "idle"
    /\ left = {}
    /\ at = None
    /\ got = << >>
    /\ unit = "energy"
    /\ sum = NoSum
    /\ onAc = FALSE
    /\ ret = Outcome("nothing")
    /\ seen = Glance({}, charge, online)

Outside(p, c, o) ==
    LET glance == Glance(p, c, o) IN
    /\ changes < MaxChanges
    /\ changes' = changes + 1
    /\ present' = p /\ charge' = c /\ online' = o
    /\ seen' = IF phase = "idle"
               THEN seen
               ELSE [charge |-> seen.charge \cup glance.charge,
                     on |-> seen.on \cup glance.on,
                     off |-> seen.off \cup glance.off,
                     calm |-> FALSE,
                     mixed |-> seen.mixed]
    /\ UNCHANGED <<phase, left, at, got, unit, sum, onAc, ret>>

Connect(s) == s \notin present /\ Outside(present \cup {s}, charge, online)

Disconnect(s) == s \in present /\ Outside(present \ {s}, charge, online)

SetCharge(m, n) ==
    /\ Has(m[1], m[2], "now") /\ n # charge[m]
    /\ Outside(present, [charge EXCEPT ![m] = n], online)

Switch(a) == Outside(present, charge, [online EXCEPT ![a] = ~@])

\* battery_life() or on_ac_power() is called and lists the directory.
Call(loop) ==
    /\ phase = "idle"
    /\ phase' = loop
    /\ left' = present
    /\ ret' = Outcome("nothing")
    /\ seen' = Glance(present, charge, online)
    /\ UNCHANGED <<world, at, got, unit, sum, onAc>>

\* The directory cannot be read.
CallFails ==
    /\ phase = "idle"
    /\ ret' = Outcome("err")
    /\ UNCHANGED <<world, phase, left, at, got, unit, sum, onAc, seen>>

\* A read fails though the supply is there: it counts as off for the history.
Blur(s) == seen' = [seen EXCEPT !.off = @ \cup {s}, !.calm = FALSE]

\* The next entry: its type is the one the loop looks for.
Visit(s) ==
    /\ at = None
    /\ s \in left \cap present
    /\ s \in IF phase = "batteries" THEN Bat ELSE Ac
    /\ left' = left \ {s}
    /\ at' = s
    /\ UNCHANGED <<world, phase, got, unit, sum, onAc, ret, seen>>

\* The next entry has another type, or is gone, or its type cannot be read.
Skip(s) ==
    /\ at = None
    /\ s \in left
    /\ left' = left \ {s}
    /\ IF s \in present /\ s \in IF phase = "batteries" THEN Bat ELSE Ac
       THEN Blur(s)
       ELSE UNCHANGED seen
    /\ UNCHANGED <<world, phase, at, got, unit, sum, onAc, ret>>

\* Each value that could be read is added by itself.
AddUpSeparately(values) ==
    [full |-> sum.full + values[1].value,
     now |-> sum.now + values[2].value,
     current |-> sum.current + values[3].value]

\* if let (Ok(f), Ok(n), Ok(c)): all three or nothing.
AddUp(values) ==
    IF \E i \in 1..3 : values[i].failed
    THEN sum
    ELSE [full |-> sum.full + values[1].value,
          now |-> sum.now + values[2].value,
          current |-> sum.current + values[3].value]

\* A value of the battery at work, read or not; the third completes it.
Take(value) ==
    LET values == Append(got, value) IN
    /\ IF Len(values) < 3
       THEN got' = values /\ UNCHANGED <<at, sum>>
       ELSE got' = << >> /\ at' = None /\ sum' = AddUp(values)
    /\ unit' = "energy"
    /\ UNCHANGED <<world, phase, left, onAc, ret>>

\* The value that comes next, and whether there is a file for it in this unit.
Asked == <<"full", "now", "current">>[Len(got) + 1]

Readable == at \in present /\ Has(at, unit, Asked)

\* The battery that the next value completes is added, in two units.
Mixed ==
    /\ Len(got) = 2
    /\ ~got[1].failed /\ ~got[2].failed
    /\ got[1].unit # got[2].unit

ReadValue ==
    /\ phase = "batteries" /\ Readable
    /\ \E v \in CASE Asked = "full" -> {Full[<<at, unit>>]}
                 [] Asked = "now" -> {charge[<<at, unit>>]}
                 [] Asked = "current" -> Currents :
            Take(Value(unit, v))
    /\ seen' = [seen EXCEPT !.mixed = @ \/ Mixed]

\* or_else: the value cannot be had as energy.
FallBack ==
    /\ phase = "batteries" /\ at # None
    /\ unit = "energy"
    /\ unit' = "charge"
    /\ IF Readable THEN Blur(at) ELSE UNCHANGED seen
    /\ UNCHANGED <<world, phase, left, at, got, sum, onAc, ret>>

\* Nor as charge.
ValueFails ==
    /\ phase = "batteries" /\ at # None
    /\ unit = "charge"
    /\ Take(Failed)
    /\ IF Readable THEN Blur(at) ELSE UNCHANGED seen

\* now tested where full is meant: an empty battery passes for none.
NoBatteryIfEmpty ==
    /\ phase = "batteries" /\ at = None /\ left = {}
    /\ sum.now = 0
    /\ phase' = "idle"
    /\ sum' = NoSum
    /\ ret' = Outcome("missing")
    /\ UNCHANGED <<world, left, at, got, unit, onAc, seen>>

\* The end of the first loop: nothing found, or on to the second directory scan.
NoBattery ==
    /\ phase = "batteries" /\ at = None /\ left = {}
    /\ sum.full = 0
    /\ phase' = "idle"
    /\ sum' = NoSum
    /\ ret' = Outcome("missing")
    /\ UNCHANGED <<world, left, at, got, unit, onAc, seen>>

\* on_ac_power() called on the way to a BatteryLife.
ThenAc ==
    /\ phase = "batteries" /\ at = None /\ left = {}
    /\ sum.full # 0
    /\ phase' = "then_ac"
    /\ left' = present
    /\ UNCHANGED <<world, at, got, unit, sum, onAc, ret, seen>>

Abs(i) == IF i < 0 THEN -i ELSE i

\* on_ac tested the wrong way round.
TimeSwapped(on, full, now, current) ==
    IF current <= 0
    THEN 0
    ELSE ((IF on THEN now ELSE Abs(full - now)) * 3600) \div current

\* time(): seconds.  A negative current, cast to u64, exceeds every dividend.
Time(on, full, now, current) ==
    IF current <= 0
    THEN 0
    ELSE ((IF on THEN Abs(full - now) ELSE now) * 3600) \div current

\* The call returns; any error of the scan is "not on AC" to battery_life().
Return(on, failed) ==
    /\ phase' = "idle"
    /\ left' = {}
    /\ at' = None
    /\ sum' = NoSum
    /\ onAc' = FALSE
    /\ ret' = IF phase = "ac"
              THEN [Outcome(IF failed THEN "err" ELSE "ac") EXCEPT !.onAc = on]
              ELSE [tag |-> "life", full |-> sum.full, now |-> sum.now, onAc |-> on,
                    time |-> Time(on, sum.full, sum.now, sum.current)]
    /\ UNCHANGED <<world, got, unit>>

\* The last adapter decides.
OrElse(on, value) == value

\* on_ac |= value
Or(on, value) == on \/ value

ReadOnline ==
    /\ phase \in {"ac", "then_ac"} /\ at \in present
    /\ onAc' = Or(onAc, online[at])
    /\ at' = None
    /\ UNCHANGED <<world, phase, left, got, unit, sum, ret, seen>>

\* online cannot be read: the question mark ends the scan.
OnlineFails ==
    /\ phase \in {"ac", "then_ac"} /\ at # None
    /\ Return(FALSE, TRUE)
    /\ seen' = [seen EXCEPT !.off = Supply, !.calm = FALSE]

\* The directory cannot be read again.
ThenAcFails ==
    /\ phase = "batteries" /\ at = None /\ left = {}
    /\ sum.full # 0
    /\ Return(FALSE, TRUE)
    /\ seen' = [seen EXCEPT !.off = Supply, !.calm = FALSE]

\* All entries visited.
ReturnAc ==
    /\ phase \in {"ac", "then_ac"} /\ at = None /\ left = {}
    /\ Return(onAc, FALSE)
    /\ UNCHANGED seen

Next ==
    \/ \E s \in Supply : Connect(s) \/ Disconnect(s)
    \/ \E m \in Meter : \E n \in 0..Full[m] : SetCharge(m, n)
    \/ \E a \in Ac : Switch(a)
    \/ \E loop \in {"batteries", "ac"} : Call(loop)
    \/ CallFails
    \/ \E s \in left : Visit(s) \/ Skip(s)
    \/ ReadValue
    \/ FallBack
    \/ ValueFails
    \/ NoBattery
    \/ ThenAc
    \/ ThenAcFails
    \/ ReadOnline
    \/ OnlineFails
    \/ ReturnAc

Spec == Init /\ [][Next]_vars

-----------------------------------------------------------------------------

Returned(tag) == phase = "idle" /\ ret.tag = tag

\* The meters of which full and now can be read.
Metered == {m \in Meter : Has(m[1], m[2], "full") /\ Has(m[1], m[2], "now")}

\* There is something to divide by.  Whichever units the batteries count in and
\* whichever batteries drop out on the way, the capacity lies between the lowest
\* and the highest share of a battery during the call - as long as each battery
\* gave both of its values in one unit.  One that did not has files of both, and
\* a value was missing or could not be read (linux.rs:597-614).
CapacityInHull ==
    Returned("life") =>
        /\ ret.full > 0
        /\ ~seen.mixed =>
            /\ \E mn \in seen.charge :
                mn[1] \in Metered /\ mn[2] * ret.full <= ret.now * Full[mn[1]]
            /\ \E mn \in seen.charge :
                mn[1] \in Metered /\ mn[2] * ret.full >= ret.now * Full[mn[1]]
        /\ seen.mixed =>
            \E b \in Bat :
                /\ \/ Has(b, "energy", "full") /\ Has(b, "charge", "now")
                   \/ Has(b, "charge", "full") /\ Has(b, "energy", "now")
                /\ seen.calm => Preferred(b, "full") # Preferred(b, "now")

\* "Missing battery information" is the truth: there was no battery that stayed
\* connected and readable and has a file for each value; AC on means that some
\* adapter was on during the call, AC off that none was on throughout: of
\* adapters that are switched over, neither may be seen (linux.rs:610-621,
\* 624-639).
SaidOfSupplies ==
    /\ Returned("missing") => Complete \subseteq seen.off
    /\ Returned("ac") \/ Returned("life") =>
        IF ret.onAc THEN seen.on # {} ELSE Ac \subseteq seen.off

\* When nothing changes and every file there is can be read, the result is the
\* sum over all batteries with a file for each value, energy where there is one;
\* AC is on if any adapter is, two directory scans and a dozen files later; and
\* time is left only while the batteries can still be charged, or drained,
\* whichever of the two goes on (linux.rs:43-57, 584-622).
CalmExact ==
    Returned("life") /\ seen.calm =>
        LET counted == {b \in Complete : \E mn \in seen.charge : mn[1][1] = b}
            full == [b \in counted |-> Full[<<b, Preferred(b, "full")>>]]
            now == [b \in counted |->
                      (CHOOSE mn \in seen.charge : mn[1] = <<b, Preferred(b, "now")>>)[2]]
            SumOf(f) == MapThenSumSet(LAMBDA b : f[b], counted)
        IN  /\ ret.full = SumOf(full)
            /\ ret.now = SumOf(now)
            /\ ret.onAc = (seen.on # {})
            /\ ret.time <= 3600 * IF ret.onAc THEN Abs(ret.full - ret.now) ELSE ret.now
=============================================================================
