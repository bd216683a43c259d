----------------------------- MODULE CpuWindow -----------------------------
(***************************************************************************)
(* What a delayed CPU measurement promises, whatever the number of system  *)
(* calls a sample takes (common.rs:10-14, data.rs:22-39).                  *)
(*                                                                         *)
(* cpu_load() fixes a baseline for every CPU at some moment of the call;   *)
(* every done() reports, for every CPU, the time that passed between that  *)
(* baseline and some moment of the done() call.  done() takes &self: it    *)
(* may be called again, and each time measures from the same baseline.     *)
(***************************************************************************)
EXTENDS CpuTimes

CONSTANT Cpu            \* the CPUs, in the order the kernel numbers them

VARIABLES
    time,       \* [Cpu -> CpuTime], the accounting of the kernel
    phase,      \* the call in progress: "idle", "create" (cpu_load) or "done"
    began,      \* time when the last call began
    base,       \* the baseline of the live measurement, or NoBase
    ret         \* what the last call returned

wvars == <<time, phase, began, base, ret>>

NoBase == << >>

Nothing == [tag |-> "nothing", loads |-> << >>]
Created == [tag |-> "created", loads |-> << >>]
Failure == [tag |-> "err", loads |-> << >>]

\* The moments of two samples are in order on every CPU.
AllBefore(s, t) == \A c \in Cpu : Before(s[c], t[c])

\* Every load is the share of some span that starts at the baseline and ends
\* between began and now.
WithinWindow(loads, b, lo, hi) ==
    \A c \in Cpu :
        /\ loads[c] \in CpuLoad
        /\ IsPartition(loads[c])
        /\ \A f \in Field : /\ lo[c][f] - b[c][f] <= loads[c].part[f]
                            /\ loads[c].part[f] <= hi[c][f] - b[c][f]

Init ==
    /\ time \in [Cpu -> CpuTime]
    /\ phase = "idle"
    /\ began = time
    /\ base = NoBase
    /\ ret = Nothing

Advance ==
    /\ time' \in [Cpu -> CpuTime]
    /\ AllBefore(time, time')
    /\ UNCHANGED <<phase, began, base, ret>>

Call(op) ==
    /\ phase = "idle"
    /\ op = "done" => base # NoBase
    /\ phase' = op
    /\ began' = time
    /\ UNCHANGED <<time, base, ret>>

ReturnCreated ==
    /\ phase = "create"
    /\ phase' = "idle"
    /\ base' \in [Cpu -> CpuTime]
    /\ AllBefore(began, base') /\ AllBefore(base', time)
    /\ ret' = Created
    /\ UNCHANGED <<time, began>>

ReturnLoads ==
    /\ phase = "done"
    /\ phase' = "idle"
    /\ ret'.tag = "loads"
    /\ DOMAIN ret'.loads = Cpu
    /\ WithinWindow(ret'.loads, base, began, time)
    /\ UNCHANGED <<time, began, base>>

ReturnFailure ==
    /\ phase # "idle"
    /\ phase' = "idle"
    /\ ret' = Failure
    /\ UNCHANGED <<time, began, base>>

Drop ==
    /\ phase = "idle"
    /\ base # NoBase
    /\ base' = NoBase
    /\ UNCHANGED <<time, phase, began, ret>>

Next ==
    \/ Advance
    \/ \E op \in {"create", "done"} : Call(op)
    \/ ReturnCreated
    \/ ReturnLoads
    \/ ReturnFailure
    \/ Drop

Spec == Init /\ [][Next]_wvars
=============================================================================
