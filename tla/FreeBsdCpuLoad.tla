--------------------------- MODULE FreeBsdCpuLoad ---------------------------
(***************************************************************************)
(* cpu_load of src/src/platform/freebsd.rs.  One sysctl fills the counters *)
(* of all CPUs at one moment.  How large they are together is asked only   *)
(* once in the life of the process, by the first call (CP_TIMES_SIZE); the *)
(* answer is not checked, and a size of 0 makes data[0] panic.             *)
(*                                                                         *)
(* A caller may survive the panic (a thread of its own, catch_unwind), and *)
(* the process then goes on with the size it has.                          *)
(***************************************************************************)
EXTENDS CpuTimes

CONSTANTS
    N,          \* CPUs, numbered 1..N here and 0..N-1 in the code
    Ticking,    \* the kernel's states that receive ticks in a run
    MaxTicks    \* bound on the ticks of a behaviour

\* The fields of bsd.rs::sysctl_cpu.
KernelField == {"user", "nice", "system", "interrupt", "idle"}

ConstantsAssumption ==
    /\ N \in Nat \ {0}
    /\ Ticking \subseteq KernelField
    /\ MaxTicks \in Nat

Cpu == 1..N

KernelTime == [KernelField -> Nat]

VARIABLES
    time,       \* [Cpu -> KernelTime], kern.cp_times
    clock,      \* ticks so far
    cpus,       \* CP_TIMES_SIZE, counted in CPUs, or Unread
    phase,      \* "idle", or the call in progress: "create" or "done"
    base,       \* the samples captured by the closure of the measurement
    ret,        \* what the last call returned
    began,      \* history: time when the last call began
    told        \* history: the tags of all that was returned

vars == <<time, clock, cpus, phase, base, ret, began, told>>

Unread == -1

NoBase == << >>

Nothing == [tag |-> "nothing", loads |-> << >>]
Created == [tag |-> "created", loads |-> << >>]
Failure == [tag |-> "err", loads |-> << >>]
Panicked == [tag |-> "panic", loads |-> << >>]

\* impl From<sysctl_cpu> for CpuTime: other is 0.
FromSysctl(k) == [f \in Field |-> IF f = "other" THEN 0 ELSE k[f]]

Sampled == [c \in Cpu |-> FromSysctl(time[c])]

Init ==
    /\ time = [c \in Cpu |-> [f \in KernelField |-> 0]]
    /\ clock = 0
    /\ cpus = Unread
    /\ phase = "idle"
    /\ base = NoBase
    /\ ret = Nothing
    /\ began = time
    /\ told = {}

\* The kernel charges a tick to a state of a CPU.
Tick(c, f) ==
    /\ clock < MaxTicks
    /\ clock' = clock + 1
    /\ time' = [time EXCEPT ![c][f] = @ + 1]
    /\ UNCHANGED <<cpus, phase, base, ret, began, told>>

\* The size asked for anew by every call.
CallAfresh(op) ==
    /\ phase = "idle"
    /\ op = "done" => base # NoBase
    /\ phase' = op
    /\ began' = time
    /\ cpus' = Unread
    /\ UNCHANGED <<time, clock, base, ret, told>>

\* cpu_load() or done() is called.
Call(op) ==
    /\ phase = "idle"
    /\ op = "done" => base # NoBase
    /\ phase' = op
    /\ began' = time
    /\ UNCHANGED <<time, clock, cpus, base, ret, told>>

\* The first call asks for the size.  When the name or the size cannot be
\* looked up the size stays 0, and nobody looks at the error.
Probe ==
    /\ phase # "idle"
    /\ cpus = Unread
    /\ cpus' \in {0, N}
    /\ UNCHANGED <<time, clock, phase, base, ret, began, told>>

Return(outcome) ==
    /\ phase' = "idle"
    /\ ret' = outcome
    /\ told' = told \cup {outcome.tag}
    /\ UNCHANGED <<time, clock, cpus, began>>

\* data[0] of an empty vector.
Panic ==
    /\ phase # "idle"
    /\ cpus = 0
    /\ Return(Panicked)
    /\ UNCHANGED base

SysctlFails ==
    /\ phase # "idle"
    /\ cpus = N
    /\ Return(Failure)
    /\ UNCHANGED base

\* cpu_load() moves the sample into the closure.
ReturnCreated ==
    /\ phase = "create"
    /\ cpus = N
    /\ base' = Sampled
    /\ Return(Created)

\* A closure that keeps the newest sample for the next call.
ReturnLoadsRebase ==
    /\ phase = "done"
    /\ cpus = N
    /\ base' = Sampled
    /\ Return([tag |-> "loads", loads |-> Loads(Sampled, base)])

\* done() pairs the new sample with the captured one.
ReturnLoads ==
    /\ phase = "done"
    /\ cpus = N
    /\ Return([tag |-> "loads", loads |-> Loads(Sampled, base)])
    /\ UNCHANGED base

\* The caller drops the DelayedMeasurement.
Drop ==
    /\ phase = "idle"
    /\ base # NoBase
    /\ base' = NoBase
    /\ UNCHANGED <<time, clock, cpus, phase, ret, began, told>>

Next ==
    \/ \E c \in Cpu, f \in Ticking : Tick(c, f)
    \/ \E op \in {"create", "done"} : Call(op)
    \/ Probe
    \/ Panic
    \/ SysctlFails
    \/ ReturnCreated
    \/ ReturnLoads
    \/ Drop

Spec == Init /\ [][Next]_vars

-----------------------------------------------------------------------------

SampledWhenBegan == [c \in Cpu |-> FromSysctl(began[c])]

\* Shapes; a baseline has an entry for every CPU and exists only once the size
\* is known (freebsd.rs:72-79).
TypeOK ==
    /\ time \in [Cpu -> KernelTime]
    /\ clock \in Nat
    /\ cpus \in {Unread, 0, N}
    /\ phase \in {"idle", "create", "done"}
    /\ base \in Seq(CpuTime) /\ Len(base) \in {0, N}
    /\ base # NoBase => cpus = N
    /\ phase = "done" => base # NoBase
    /\ ret \in [tag : {"nothing", "created", "err", "panic", "loads"}, loads : Seq(CpuLoad)]
    /\ began \in [Cpu -> KernelTime]
    /\ told \subseteq {"created", "err", "panic", "loads"}

\* No counter of the baseline is ahead of the kernel, nor, while done() runs, of
\* what the kernel showed when done() began (freebsd.rs:76).
BaseBehind ==
    base # NoBase =>
        \A c \in Cpu : /\ Before(base[c], Sampled[c])
                       /\ phase = "done" => Before(base[c], SampledWhenBegan[c])

\* The first call decides for the whole life of the process: either every call
\* panics or none does, so that done() never panics and a caller that has got one
\* measurement need not fear for the next (freebsd.rs:56-61, 177-181).
AllOrNothing == "panic" \in told => told = {"panic"}

\* A panic is to the caller who survives it one more way to fail.
Answer == IF ret.tag = "panic" THEN Failure ELSE ret

Window == INSTANCE CpuWindow WITH time <- Sampled, began <- SampledWhenBegan, ret <- Answer

\* One sysctl for all CPUs implements the same promise as the loop of OpenBSD:
\* each load covers the time from the end of cpu_load() to the start of done() and
\* nothing outside the two calls (freebsd.rs:72-79).
SamplerImplementsWindow == Window!Spec
=============================================================================
