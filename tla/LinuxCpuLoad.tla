---------------------------- MODULE LinuxCpuLoad ----------------------------
(***************************************************************************)
(* cpu_load and cpu_load_aggregate over src/src/platform/linux.rs.  A      *)
(* sample is one read of /proc/stat, which lists the CPUs that are online  *)
(* at that moment; the parser stops at the first line it cannot convert    *)
(* and drops the CPU numbers, so two samples are paired by position.       *)
(*                                                                         *)
(* Between the calls CPUs tick and are plugged in and out.                 *)
(***************************************************************************)
EXTENDS CpuAggregate

CONSTANTS
    N,          \* possible CPUs
    Ticking,    \* the fields that receive ticks in a run
    MaxTicks,   \* bound on the ticks of a behaviour
    MaxPlugs,   \* bound on the times a CPU goes offline or online
    MaxUsize    \* the largest value usize can parse

ConstantsAssumption ==
    /\ N \in Nat \ {0}
    /\ Ticking \subseteq Field
    /\ MaxTicks \in Nat /\ MaxPlugs \in Nat /\ MaxUsize \in Nat

Cpu == 1..N

VARIABLES
    time,       \* [Cpu -> CpuTime], the kernel's accounting
    clock,      \* ticks so far
    online,     \* the CPUs /proc/stat lists
    plugs,      \* hotplug events so far
    base,       \* the lines captured by the measurement, or NoBase
    kind,       \* the measurement: "per_cpu" or "aggregate"
    ret,        \* what a call has just returned: the kernel's next step clears it
    since,      \* history: each CPU's ticks since the measurement was created
    bornPlugs   \* history: plugs when the measurement was created

vars == <<time, clock, online, plugs, base, kind, ret, since, bornPlugs>>

NoBase == << >>

Zero == [f \in Field |-> 0]

Outcome(tag) == [tag |-> tag, loads |-> << >>, of |-> << >>, one |-> ZeroLoad]

\* The numbers of some CPUs in ascending order.
Listed(cpus) ==
    CHOOSE s \in UNION {[1..n -> cpus] : n \in 0..N} :
        /\ \A c \in cpus : \E i \in DOMAIN s : s[i] = c
        /\ \A i, j \in DOMAIN s : i < j => s[i] < s[j]

\* /proc/stat: a line per online CPU, in order.  The code never looks at cpu.
ProcStat ==
    LET nth == Listed(online)
    IN  [i \in DOMAIN nth |-> [cpu |-> nth[i], t |-> time[nth[i]]]]

\* usize_s converts every number of the line.
Parses(line) == \A f \in Field : line.t[f] <= MaxUsize

\* Lines that do not convert are skipped instead of ending the list.
ProcStatCpuTimesSkip(lines) == SelectSeq(lines, Parses)

\* proc_stat_cpu_times: many1 keeps the lines before the first that fails.
ProcStatCpuTimes(lines) ==
    LET bad == {i \in DOMAIN lines : ~Parses(lines[i])}
    IN  IF bad = {} THEN lines ELSE SubSeq(lines, 1, Min(bad) - 1)

\* many1 needs a line.
Readable(lines) == lines # << >>

Init ==
    /\ time = [c \in Cpu |-> Zero]
    /\ clock = 0
    /\ online \in (SUBSET Cpu) \ {{}}
    /\ plugs = 0
    /\ base = NoBase
    /\ kind = "per_cpu"
    /\ ret = Outcome("nothing")
    /\ since = time
    /\ bornPlugs = 0

Tick(c, f) ==
    /\ clock < MaxTicks
    /\ clock' = clock + 1
    /\ time' = [time EXCEPT ![c][f] = @ + 1]
    /\ since' = [since EXCEPT ![c][f] = @ + 1]
    /\ ret' = Outcome("nothing")
    /\ UNCHANGED <<online, plugs, base, kind, bornPlugs>>

\* A CPU goes offline or comes back; its counters stay.
Plug(c) ==
    /\ plugs < MaxPlugs
    /\ plugs' = plugs + 1
    /\ online' = IF c \in online THEN online \ {c} ELSE online \cup {c}
    /\ online' # {}
    /\ ret' = Outcome("nothing")
    /\ UNCHANGED <<time, clock, base, kind, since, bornPlugs>>

\* cpu_load() or cpu_load_aggregate(): read, parse, capture.
CpuLoadCall(k) ==
    LET lines == ProcStatCpuTimes(ProcStat) IN
    /\ Readable(lines)
    /\ base' = lines
    /\ kind' = k
    /\ ret' = Outcome("created")
    /\ since' = [c \in Cpu |-> Zero]
    /\ bornPlugs' = plugs
    /\ UNCHANGED <<time, clock, online, plugs>>

\* Either call, or done(), when /proc/stat cannot be read or parsed.
Fails ==
    /\ ret' = Outcome("err")
    /\ UNCHANGED <<time, clock, online, plugs, base, kind, since, bornPlugs>>

\* done(): the delayed sample zipped with the captured one, then folded if
\* the measurement is an aggregate.
Done ==
    LET lines == ProcStatCpuTimes(ProcStat)
        loads == Loads([i \in DOMAIN lines |-> lines[i].t],
                       [i \in DOMAIN base |-> base[i].t])
        one == IF kind = "aggregate" THEN Aggregate(loads) ELSE ZeroLoad
    IN
    /\ base # NoBase
    /\ Readable(lines)
    /\ ret' = [tag |-> IF one = Panic THEN "panic" ELSE kind,
               loads |-> loads,
               of |-> [i \in DOMAIN loads |-> <<lines[i].cpu, base[i].cpu>>],
               one |-> one]
    /\ UNCHANGED <<time, clock, online, plugs, base, kind, since, bornPlugs>>

Drop ==
    /\ base # NoBase
    /\ base' = NoBase
    /\ UNCHANGED <<time, clock, online, plugs, kind, ret, since, bornPlugs>>

Next ==
    \/ \E c \in online, f \in Ticking : Tick(c, f)
    \/ \E c \in Cpu : Plug(c)
    \/ \E k \in {"per_cpu", "aggregate"} : CpuLoadCall(k)
    \/ Fails
    \/ Done
    \/ Drop

Spec == Init /\ [][Next]_vars

-----------------------------------------------------------------------------

\* Shapes; every load is a fraction with a positive denominator even when a
\* counter went back or no tick fell into the span (data.rs:172-195).
TypeOK ==
    /\ time \in [Cpu -> CpuTime] /\ since \in [Cpu -> CpuTime]
    /\ online \in (SUBSET Cpu) \ {{}}
    /\ kind \in {"per_cpu", "aggregate"}
    /\ \A i \in DOMAIN base : base[i].cpu \in Cpu /\ base[i].t \in CpuTime
    /\ ret.tag \in {"nothing", "created", "err", "per_cpu", "aggregate", "panic"}
    /\ ret.loads \in Seq(CpuLoad)
    /\ \A i \in DOMAIN ret.loads : IsPartition(ret.loads[i])

\* A load made of two samples of the same CPU is that CPU's time since the
\* measurement was created, at every done(), whatever was plugged meanwhile
\* and however often done() was called (linux.rs:523-535).
AlignedLoadsExact ==
    ret.tag = "per_cpu" =>
        \A i \in DOMAIN ret.of :
            ret.of[i][1] = ret.of[i][2] =>
                ret.loads[i].part = since[ret.of[i][1]]

\* As long as no CPU is plugged after the measurement was created, no load
\* mixes two CPUs, even when a counter outgrows usize between the samples and
\* the list is cut short there (linux.rs:107-116 and 527-531).
NoPlugNoMix ==
    ret.tag \in {"per_cpu", "aggregate"} /\ plugs = bornPlugs =>
        \A i \in DOMAIN ret.of : ret.of[i][1] = ret.of[i][2]

\* The unwrap of cpu_load_aggregate never meets an empty vector: a sample
\* that exists has a line, before and after; and the aggregate stays between
\* the smallest and the largest share of the CPUs it stands for
\* (common.rs:23-27, linux.rs:110, data.rs:128-139).
AggregateSound ==
    /\ ret.tag # "panic"
    /\ ret.tag = "aggregate" => InHull(ret.one, ret.loads)

\* common.rs:16 calls the aggregate the average over all CPUs: when every CPU
\* has time to account for, it is the mean of their loads.
AggregateIsMean ==
    ret.tag = "aggregate" /\ (\A i \in DOMAIN ret.loads : Total(ret.loads[i].part) > 0)
        => IsMean(ret.one, ret.loads)

\* common.rs:10 promises one object per CPU: each load is one CPU's.
OneObjectPerCpu ==
    ret.tag = "per_cpu" => \A i \in DOMAIN ret.of : ret.of[i][1] = ret.of[i][2]
=============================================================================
