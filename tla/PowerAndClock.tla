--------------------------- MODULE PowerAndClock ----------------------------
(***************************************************************************)
(* The power supplies of Linux, the batteries of the other systems, and    *)
(* the clocks of all.  They share no state, so a behaviour is one of one   *)
(* of them, and the other components stay where they are.                  *)
(***************************************************************************)
EXTENDS LinuxPower

CONSTANTS
    Percents, Minutes, IntValues, MaxEvents,            \* see Battery
    Micro, Second, Start, Steps, MaxUp, MaxSteps        \* see Clock

VARIABLES
    component,  \* the one that runs
    apmPlatform, battery, events, life, apmRet, glances, broken,
    platform, wall, up, steps, stack, held, answer, began, reason

Apm == INSTANCE Battery WITH platform <- apmPlatform, ret <- apmRet

apmState == <<apmPlatform, battery, events, life, apmRet, glances, broken>>

Clocks == INSTANCE Clock

clockState == <<platform, wall, up, steps, stack, held, answer, began, reason>>

ASSUME ApmAssumption == Apm!ConstantsAssumption
ASSUME ClockAssumption == Clocks!ConstantsAssumption

\* The components that do not run start in one state only.
PowerInit ==
    /\ component \in {"linux", "apm", "clock"}
    /\ Init /\ Apm!Init /\ Clocks!Init
    /\ component # "linux" => present = {} /\ online = [a \in Ac |-> FALSE]
    /\ component # "apm" =>
        /\ apmPlatform = "openbsd"
        /\ battery.state = "absent" /\ battery.ac = "on"
    /\ component # "clock" => platform = "linux"

PowerNext ==
    \/ component = "linux" /\ Next /\ UNCHANGED <<component, apmState, clockState>>
    \/ component = "apm" /\ Apm!Next /\ UNCHANGED <<component, vars, clockState>>
    \/ component = "clock" /\ Clocks!Next /\ UNCHANGED <<component, vars, apmState>>

PowerSpec == PowerInit /\ [][PowerNext]_<<component, vars, apmState, clockState>>

\* Battery life and AC power are the system's, see Battery (freebsd.rs:118-130).
BatteryHonest == Apm!BatteryHonest

\* The range a test asserts of the capacity, see Battery (platform/mod.rs:106).
CapacityInRange == Apm!CapacityInRange

\* What an example prints of a battery, see Battery (examples/info.rs:61-64).
LifeAsPrinted == Apm!LifeAsPrinted

\* Uptime and boot time but for the resolution, see Clock (common.rs:50-68).
ClockHonest == Clocks!ClockHonest
=============================================================================
