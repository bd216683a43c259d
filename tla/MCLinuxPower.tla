---------------------------- MODULE MCLinuxPower ----------------------------
(***************************************************************************)
(* Small values for the constants of PowerAndClock.                        *)
(***************************************************************************)
EXTENDS PowerAndClock, TLC

CONSTANTS b1, b2, a1, a2

\* A battery with files of both units, whose current is in one of them, and a
\* battery that counts charge only; two adapters.
Batteries == {b1, b2}
Adapters == {a1, a2}
BatteryFiles ==
    ({b1} \X {"energy", "charge"} \X {"full", "now"})
        \cup {<<b1, "charge", "current">>}
        \cup ({b2} \X {"charge"} \X {"full", "now", "current"})
FullCharge == <<b1, "energy">> :> 2 @@ <<b1, "charge">> :> 1
                @@ <<b2, "energy">> :> 1 @@ <<b2, "charge">> :> 1

\* Nothing tells one adapter from the other.
AdapterSymmetry == Permutations(Adapters)

SomeCurrents == {-1, 1}

SomeMinutes == {-1, 0, 59}
Settings == {-3, 2}
=============================================================================
