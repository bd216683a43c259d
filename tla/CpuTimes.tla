------------------------------ MODULE CpuTimes ------------------------------
(***************************************************************************)
(* The arithmetic of src/src/data.rs that every Unix cpu_load shares: a    *)
(* sample of one CPU's counters, the difference of two samples, the shares *)
(* made of a difference, and the pairing of two samples by position.       *)
(*                                                                         *)
(* A share is an f32 quotient in the code.  Here a CPULoad keeps the exact *)
(* fraction: field f is part[f] / whole.                                   *)
(***************************************************************************)
EXTENDS Integers, Sequences

\* The fields of CpuTime; "other" is what PlatformCpuLoad calls iowait.
Field == {"user", "nice", "system", "interrupt", "idle", "other"}

CpuTime == [Field -> Nat]

CpuLoad == [part : [Field -> Nat], whole : Nat \ {0}]

\* usize::saturating_sub
Monus(a, b) == IF a > b THEN a - b ELSE 0

\* The operands the wrong way round.
SubSwapped(now, prev) == [f \in Field |-> Monus(prev[f], now[f])]

\* impl Sub for CpuTime
Sub(now, prev) == [f \in Field |-> Monus(now[f], prev[f])]

Total(t) ==
    t["user"] + t["nice"] + t["system"] + t["interrupt"] + t["idle"] + t["other"]

ZeroLoad == [part |-> [f \in Field |-> 0], whole |-> 1]

\* The same without the test for an empty span.
ToCpuLoadUnguarded(t) == [part |-> t, whole |-> Total(t)]

\* CpuTime::to_cpuload
ToCpuLoad(t) ==
    IF Total(t) = 0 THEN ZeroLoad ELSE [part |-> t, whole |-> Total(t)]

\* Rust's zip stops at the shorter of the two vectors.
ZipLen(s, t) == IF Len(s) < Len(t) THEN Len(s) ELSE Len(t)

\* The closure every cpu_load returns: one load for each pair of samples.
Loads(now, prev) ==
    [i \in 1..ZipLen(now, prev) |-> ToCpuLoad(Sub(now[i], prev[i]))]

\* CPULoad::avg_add with the division by two forgotten.
AvgAddNoHalf(a, b) ==
    [part |-> [f \in Field |-> a.part[f] * b.whole + b.part[f] * a.whole],
     whole |-> a.whole * b.whole]

\* CPULoad::avg_add: the mean of two loads.
AvgAdd(a, b) ==
    [part |-> [f \in Field |-> a.part[f] * b.whole + b.part[f] * a.whole],
     whole |-> 2 * a.whole * b.whole]

-----------------------------------------------------------------------------

\* s <= t, field by field.
Before(s, t) == \A f \in Field : s[f] <= t[f]

\* The fields are shares of one whole (or there is nothing to share).
IsPartition(load) ==
    \/ \A f \in Field : load.part[f] = 0
    \/ Total(load.part) = load.whole
=============================================================================
