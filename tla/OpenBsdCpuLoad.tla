--------------------------- MODULE OpenBsdCpuLoad ---------------------------
(***************************************************************************)
(* cpu_load of src/src/platform/openbsd.rs.  A sample is one sysctl for    *)
(* the number of CPUs and then one sysctl per CPU, each at a moment of its *)
(* own: the kernel goes on accounting between them and any of them may     *)
(* fail, which abandons the sample.                                        *)
(*                                                                         *)
(* One thread drives one measurement: measurements share nothing but the   *)
(* kernel, so two of them are two copies of this module over one time.     *)
(***************************************************************************)
EXTENDS CpuTimes

CONSTANTS
    N,          \* CPUs, numbered 1..N here and 0..N-1 in the code
    Ticking,    \* the kernel's states that receive ticks in a run
    MaxTicks    \* bound on the ticks of a behaviour

\* The fields of openbsd.rs::sysctl_cpu.
KernelField == {"user", "nice", "system", "spin", "interrupt", "idle"}

ASSUME ConstantsAssumption ==
    /\ N \in Nat \ {0}
    /\ Ticking \subseteq KernelField
    /\ MaxTicks \in Nat

Cpu == 1..N

KernelTime == [KernelField -> Nat]

VARIABLES
    time,       \* [Cpu -> KernelTime], kern.cp_time2
    clock,      \* ticks so far
    phase,      \* "idle", or the call in progress: "create" or "done"
    data,       \* the samples this call has collected
    base,       \* the samples captured by the closure of the measurement
    ret,        \* what the last call returned
    began       \* history: time when the last call began

vars == <<time, clock, phase, data, base, ret, began>>

NoBase == << >>

Nothing == [tag |-> "nothing", loads |-> << >>]
Created == [tag |-> "created", loads |-> << >>]
Failure == [tag |-> "err", loads |-> << >>]

\* impl From<sysctl_cpu> for CpuTime: spin is dropped, other is 0.
FromSysctl(k) ==
    [f \in Field |-> IF f = "other" THEN 0 ELSE k[f]]

Init ==
    /\ time = [c \in Cpu |-> [f \in KernelField |-> 0]]
    /\ clock = 0
    /\ phase = "idle"
    /\ data = << >>
    /\ base = NoBase
    /\ ret = Nothing
    /\ began = time

\* The kernel charges a tick to a state of a CPU.
Tick(c, f) ==
    /\ clock < MaxTicks
    /\ clock' = clock + 1
    /\ time' = [time EXCEPT ![c][f] = @ + 1]
    /\ UNCHANGED <<phase, data, base, ret, began>>

\* cpu_load() or done() is called and reads HW_NCPU.
Call(op) ==
    /\ phase = "idle"
    /\ op = "done" => base # NoBase
    /\ phase' = op
    /\ data' = << >>
    /\ began' = time
    /\ UNCHANGED <<time, clock, base, ret>>

\* Every CPU answered with the counters of CPU 0: mib[2] never set.
SampleFirst ==
    /\ phase # "idle"
    /\ Len(data) < N
    /\ data' = Append(data, FromSysctl(time[1]))
    /\ UNCHANGED <<time, clock, phase, base, ret, began>>

\* One turn of the loop of measure_cpu: the sysctl of the next CPU.
Sample ==
    /\ phase # "idle"
    /\ Len(data) < N
    /\ data' = Append(data, FromSysctl(time[Len(data) + 1]))
    /\ UNCHANGED <<time, clock, phase, base, ret, began>>

\* HW_NCPU or the sysctl of the next CPU fails.
SysctlFails ==
    /\ phase # "idle"
    /\ Len(data) < N
    /\ phase' = "idle"
    /\ data' = << >>
    /\ ret' = Failure
    /\ UNCHANGED <<time, clock, base, began>>

\* cpu_load() moves the sample into the closure.
ReturnCreated ==
    /\ phase = "create"
    /\ Len(data) = N
    /\ phase' = "idle"
    /\ base' = data
    /\ data' = << >>
    /\ ret' = Created
    /\ UNCHANGED <<time, clock, began>>

\* A closure that keeps the newest sample for the next call.
ReturnLoadsRebase ==
    /\ phase = "done"
    /\ Len(data) = N
    /\ phase' = "idle"
    /\ ret' = [tag |-> "loads", loads |-> Loads(data, base)]
    /\ base' = data
    /\ data' = << >>
    /\ UNCHANGED <<time, clock, began>>

\* done() pairs the new sample with the captured one.
ReturnLoads ==
    /\ phase = "done"
    /\ Len(data) = N
    /\ phase' = "idle"
    /\ ret' = [tag |-> "loads", loads |-> Loads(data, base)]
    /\ data' = << >>
    /\ UNCHANGED <<time, clock, base, began>>

\* The caller drops the DelayedMeasurement.
Drop ==
    /\ phase = "idle"
    /\ base # NoBase
    /\ base' = NoBase
    /\ UNCHANGED <<time, clock, phase, data, ret, began>>

Next ==
    \/ \E c \in Cpu, f \in Ticking : Tick(c, f)
    \/ \E op \in {"create", "done"} : Call(op)
    \/ Sample
    \/ SysctlFails
    \/ ReturnCreated
    \/ ReturnLoads
    \/ Drop

Spec == Init /\ [][Next]_vars

-----------------------------------------------------------------------------

Sampled == [c \in Cpu |-> FromSysctl(time[c])]
SampledWhenBegan == [c \in Cpu |-> FromSysctl(began[c])]

\* Every variable keeps its shape: the vectors have one entry per CPU, a
\* call in progress holds a prefix of a sample (openbsd.rs:197-208).
TypeOK ==
    /\ time \in [Cpu -> KernelTime]
    /\ clock \in Nat
    /\ phase \in {"idle", "create", "done"}
    /\ data \in Seq(CpuTime) /\ Len(data) <= N
    /\ base \in Seq(CpuTime) /\ Len(base) \in {0, N}
    /\ phase = "done" => base # NoBase
    /\ ret \in [tag : {"nothing", "created", "err", "loads"}, loads : Seq(CpuLoad)]
    /\ began \in [Cpu -> KernelTime]

\* Each entry of a sample was true at some moment of the call that took it,
\* though no moment need make all of them true (the loop of measure_cpu).
SampleInsideCall ==
    /\ \A c \in Cpu : Before(SampledWhenBegan[c], Sampled[c])
    /\ \A c \in 1..Len(data) : /\ Before(SampledWhenBegan[c], data[c])
                               /\ Before(data[c], Sampled[c])

\* No counter of the baseline is ahead of the kernel, nor, while done() runs,
\* of what the kernel showed when done() began: the differences of
\* openbsd.rs:58 never saturate.
BaseBehind ==
    base # NoBase =>
        \A c \in Cpu : /\ Before(base[c], Sampled[c])
                       /\ phase = "done" => Before(base[c], SampledWhenBegan[c])

Window == INSTANCE CpuWindow WITH time <- Sampled, began <- SampledWhenBegan

\* The sampling loop implements the promise of a delayed measurement: each
\* CPU's load covers everything between the end of cpu_load() and the start
\* of done() and nothing outside the two calls, at every done() (openbsd.rs:53-60).
ImplementsWindow == Window!Spec
=============================================================================
