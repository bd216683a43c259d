---------------------------- MODULE CpuAggregate ----------------------------
(***************************************************************************)
(* Platform::cpu_load_aggregate (common.rs:20-28), the default every       *)
(* platform uses: the per-CPU loads folded into one by CPULoad::avg_add.   *)
(***************************************************************************)
EXTENDS CpuTimes, SequencesExt

\* What it.next().unwrap() comes to on an empty vector.
Panic == [part |-> [f \in Field |-> 0], whole |-> 0]

\* it.fold(first, |acc, l| acc.avg_add(&l)), after each of the loads.
Folded(ls) ==
    LET folded[n \in DOMAIN ls] ==
            IF n = 1 THEN ls[1] ELSE AvgAdd(folded[n - 1], ls[n])
    IN  folded

\* The closure of cpu_load_aggregate.
Aggregate(ls) == IF ls = << >> THEN Panic ELSE Folded(ls)[Len(ls)]

-----------------------------------------------------------------------------

\* a / b <= c / d for loads in field f.
ShareLeq(a, b, f) == a.part[f] * b.whole <= b.part[f] * a.whole

\* The load lies, field by field, between two of the loads in ls.
InHull(load, ls) ==
    \A f \in Field :
        /\ \E i \in DOMAIN ls : ShareLeq(ls[i], load, f)
        /\ \E i \in DOMAIN ls : ShareLeq(load, ls[i], f)

\* The sum of the loads in ls over one common whole.
CommonWhole(ls) == FoldLeft(LAMBDA p, l : p * l.whole, 1, ls)

SumOfParts(ls, f) ==
    FoldLeft(LAMBDA s, l : s + l.part[f] * (CommonWhole(ls) \div l.whole), 0, ls)

\* The load is the arithmetic mean of ls.
IsMean(load, ls) ==
    \A f \in Field :
        load.part[f] * CommonWhole(ls) * Len(ls) = SumOfParts(ls, f) * load.whole
=============================================================================
