------------------------------ MODULE Battery ------------------------------
(***************************************************************************)
(* battery_life() and on_ac_power() of FreeBSD, OpenBSD and Windows.       *)
(* OpenBSD asks /dev/apm and Windows GetSystemPowerStatus, once each;      *)
(* FreeBSD needs two sysctls, between which the battery may change.        *)
(*                                                                         *)
(* What the system does not know it says in numbers: -1, 255 or all ones.  *)
(* Capacities are counted in hundredths of what remaining_capacity holds.  *)
(***************************************************************************)
EXTENDS Integers

CONSTANTS
    Percents,   \* the charges of a run
    Minutes,    \* the times left of a run, in seconds still an int; -1 is not known
    IntValues,  \* how many values an int has: 2 to its width of 16 bits or more
    MaxEvents   \* bound on the changes of a behaviour

ConstantsAssumption ==
    /\ Percents \subseteq 0..100
    /\ Minutes # {} /\ Minutes \subseteq Int
    /\ \A m \in Minutes : m >= -1 /\ 60 * m < IntValues
    /\ IntValues \in Nat /\ IntValues >= 65536
    /\ MaxEvents \in Nat

VARIABLES
    platform,   \* "freebsd", "openbsd" or "windows"
    battery,    \* the battery and the power supply, see Supply
    events,     \* changes so far
    life,       \* the local variable of FreeBSD, once it is read
    ret,        \* what the last call returned
    glances,    \* history: what there was to see during the last call
    broken      \* history: a system call of it failed

vars == <<platform, battery, events, life, ret, glances, broken>>

Unknown == -1

\* A percentage is known when the state is.
Supply ==
    {s \in [state : {"known", "unknown", "absent"}, percent : Percents \cup {Unknown},
            minutes : Minutes, ac : {"on", "off", "unknown"}] :
        /\ s.percent = Unknown <=> s.state # "known"
        /\ s.state # "known" => s.minutes = Unknown}

\* An int of -1 in an unsigned of its width.
AsUnsigned(v) == v % IntValues

NotRead == << >>

Init ==
    /\ platform \in {"freebsd", "openbsd", "windows"}
    /\ battery \in Supply
    /\ events = 0
    /\ life = NotRead
    /\ ret = [op |-> "nothing"]
    /\ glances = {}
    /\ broken = FALSE

Change(s) ==
    /\ events < MaxEvents
    /\ events' = events + 1
    /\ battery' = s
    /\ glances' = IF life = NotRead THEN glances ELSE glances \cup {s}
    /\ UNCHANGED <<platform, life, ret, broken>>

kernel == <<platform, battery, events>>

\* A call that is one look at the system.
Look(result, failed) ==
    /\ life = NotRead
    /\ ret' = result
    /\ glances' = {battery}
    /\ broken' = failed
    /\ UNCHANGED <<kernel, life>>

LifeErr == [op |-> "life", tag |-> "err"]
LifeOk(capacity, time) == [op |-> "life", tag |-> "ok", capacity |-> capacity, time |-> time]

\* The numbers of APM, and of SYSTEM_POWER_STATUS, where a time is in seconds.
Flag(s) ==
    CASE s.state = "known" -> 0
      [] s.state = "unknown" -> 255
      [] s.state = "absent" -> IF platform = "openbsd" THEN 4 ELSE 128

Percent(s) == IF s.percent = Unknown THEN 255 ELSE s.percent

Time(s) ==
    AsUnsigned(IF platform = "windows" /\ s.minutes # Unknown THEN 60 * s.minutes ELSE s.minutes)

\* Absence goes unnoticed.
RefusedIfUnknown(flag) == flag = 255

\* The two states that are errors; a failed GetSystemPowerStatus leaves a flag of 0.
Refused(flag) == flag \in {255, IF platform = "openbsd" THEN 4 ELSE 128}

\* OpenBSD's percentage is not divided.
Capacity(percent) == IF platform = "openbsd" THEN 100 * percent ELSE percent

LifeInOneLook ==
    /\ platform \in {"openbsd", "windows"}
    /\ Look(IF Refused(Flag(battery)) THEN LifeErr
            ELSE LifeOk(Capacity(Percent(battery)), Time(battery)), FALSE)

\* open, ioctl, or a sysctl: the failure is returned.
CallFails(op) ==
    /\ platform \in {"freebsd", "openbsd"}
    /\ Look([op |-> op, tag |-> "err"], TRUE)

\* The result of GetSystemPowerStatus is not looked at: what it did not fill in is 0.
LifeUnchecked ==
    /\ platform = "windows"
    /\ Look(LifeOk(0, 0), TRUE)

AcUnchecked ==
    /\ platform = "windows"
    /\ Look([op |-> "ac", tag |-> "ok", on |-> FALSE], TRUE)

OnAcPower == Look([op |-> "ac", tag |-> "ok", on |-> battery.ac = "on"], FALSE)

\* FreeBSD: hw.acpi.battery.life, an int, goes into a usize of zeros.
ReadLife ==
    /\ platform = "freebsd"
    /\ life = NotRead
    /\ life' = <<AsUnsigned(battery.percent)>>
    /\ ret' = [op |-> "nothing"]
    /\ glances' = {battery}
    /\ broken' = FALSE
    /\ UNCHANGED kernel

FreeBsdReturns(result, failed) ==
    /\ life # NotRead
    /\ ret' = result
    /\ life' = NotRead
    /\ broken' = failed
    /\ UNCHANGED <<kernel, glances>>

\* hw.acpi.battery.time, which is taken for 0 when negative.
ReadTime ==
    /\ life # NotRead
    /\ FreeBsdReturns(LifeOk(life[1], IF battery.minutes < 0 THEN 0 ELSE battery.minutes), FALSE)

ReadTimeFails == FreeBsdReturns(LifeErr, TRUE)

Next ==
    \/ \E s \in Supply : Change(s)
    \/ LifeInOneLook
    \/ \E op \in {"life", "ac"} : CallFails(op)
    \/ LifeUnchecked
    \/ AcUnchecked
    \/ OnAcPower
    \/ ReadLife
    \/ ReadTime
    \/ ReadTimeFails

Spec == Init /\ [][Next]_vars

-----------------------------------------------------------------------------

LifeOkNow == ret.op = "life" /\ ret.tag = "ok"

\* The battery was known throughout the call, and every system call succeeded.
Clear == LifeOkNow /\ ~broken /\ \A g \in glances : g.state = "known"

\* What a battery has left: hundredths of its capacity, and seconds.
Share(g) == g.percent
Seconds(g) == 60 * g.minutes

\* The result of a call with a clear view of the battery is the battery's of some
\* moments of the call, though not of the same one, but for this: OpenBSD's
\* capacity is a hundred times too large, the time of FreeBSD and OpenBSD is
\* short by a factor of 60, as minutes are handed over for seconds, and a time
\* that is not known is 0 on FreeBSD and the largest number elsewhere.  OpenBSD
\* and Windows have no battery life of a battery that is missing, but for a
\* failure that goes unnoticed, and an error has a cause (freebsd.rs:118-125,
\* openbsd.rs:88-103, windows/mod.rs:252-267).
LifeHonest ==
    /\ Clear =>
        /\ \E g \in glances :
            ret.capacity = (IF platform = "openbsd" THEN 100 ELSE 1) * Share(g)
        /\ \E g \in glances :
            IF g.minutes # Unknown
            THEN (IF platform = "windows" THEN 1 ELSE 60) * ret.time = Seconds(g)
            ELSE ret.time = IF platform = "freebsd" THEN 0 ELSE IntValues - 1
    /\ LifeOkNow /\ ~broken /\ platform # "freebsd" => \E g \in glances : g.state = "known"
    /\ ret = LifeErr => broken \/ \E g \in glances : g.state # "known"

\* examples/info.rs:61-64 prints the capacity times 100 as a percentage, and the
\* seconds over 3600 as hours: a result should be what a battery has left.
LifeAsPrinted ==
    Clear =>
        /\ \E g \in glances : ret.capacity = Share(g)
        /\ \E g \in glances : g.minutes # Unknown => ret.time = Seconds(g)

\* AC power is reported on only when it was, and off when it was not, or not
\* known, or on Windows the call failed (freebsd.rs:127-130, openbsd.rs:105-112,
\* windows/mod.rs:269-271).
AcHonest ==
    ret.op = "ac" /\ ret.tag = "ok" =>
        IF ret.on
        THEN \E g \in glances : g.ac = "on"
        ELSE broken \/ \E g \in glances : g.ac # "on"

\* Both calls are true to the system (freebsd.rs:118-130).
BatteryHonest == LifeHonest /\ AcHonest

\* platform/mod.rs:106 asserts of every battery life that the capacity is at
\* least 0.0 and at most 100.0.
CapacityInRange == LifeOkNow => ret.capacity \in 0..10000
=============================================================================
