---------------------------- MODULE UnixCpuLoad ----------------------------
(***************************************************************************)
(* The Unix samplers of CPU load: OpenBSD's and FreeBSD's, which implement *)
(* CpuWindow, and Linux's, which does not.  A behaviour is one of the      *)
(* three: the other components stay where they are.                        *)
(***************************************************************************)
EXTENDS OpenBsdCpuLoad

CONSTANTS
    FbTicking,          \* FreeBSD's states that receive ticks in a run
    LxN,                \* Linux's possible CPUs
    LxTicking,          \* the fields that receive ticks on Linux
    LxTicks,            \* bound on the ticks of Linux's CPUs
    MaxPlugs, MaxUsize  \* see LinuxCpuLoad

VARIABLES
    component,  \* the one that runs
    fbTime, fbClock, fbCpus, fbPhase, fbBase, fbRet, fbBegan, fbTold,
    lxTime, lxClock, lxOnline, lxPlugs, lxBase, lxKind, lxRet, lxSince, lxBornPlugs

FreeBsd == INSTANCE FreeBsdCpuLoad WITH
    Ticking <- FbTicking, time <- fbTime, clock <- fbClock, cpus <- fbCpus,
    phase <- fbPhase, base <- fbBase, ret <- fbRet, began <- fbBegan, told <- fbTold

Linux == INSTANCE LinuxCpuLoad WITH
    N <- LxN, Ticking <- LxTicking, MaxTicks <- LxTicks, time <- lxTime,
    clock <- lxClock, online <- lxOnline, plugs <- lxPlugs, base <- lxBase,
    kind <- lxKind, ret <- lxRet, since <- lxSince, bornPlugs <- lxBornPlugs

freeBsdState == <<fbTime, fbClock, fbCpus, fbPhase, fbBase, fbRet, fbBegan, fbTold>>

linuxState == <<lxTime, lxClock, lxOnline, lxPlugs, lxBase, lxKind, lxRet, lxSince, lxBornPlugs>>

ASSUME FreeBsdAssumption == FreeBsd!ConstantsAssumption

ASSUME LinuxAssumption == Linux!ConstantsAssumption

UnixInit ==
    /\ component \in {"openbsd", "freebsd", "linux"}
    /\ Init
    /\ FreeBsd!Init
    /\ Linux!Init
    /\ component # "linux" => lxOnline = Linux!Cpu

UnixNext ==
    \/ component = "openbsd" /\ Next /\ UNCHANGED <<component, freeBsdState, linuxState>>
    \/ component = "freebsd" /\ FreeBsd!Next /\ UNCHANGED <<component, vars, linuxState>>
    \/ component = "linux" /\ Linux!Next /\ UNCHANGED <<component, vars, freeBsdState>>

UnixSpec == UnixInit /\ [][UnixNext]_<<component, vars, freeBsdState, linuxState>>

\* The size read once decides for all calls, see FreeBsdCpuLoad (freebsd.rs:56-61).
AllOrNothing == FreeBsd!AllOrNothing

\* FreeBSD's sampler keeps its promise too, see FreeBsdCpuLoad (freebsd.rs:72-79).
SamplerImplementsWindow == FreeBsd!SamplerImplementsWindow

\* Two samples of one CPU give its time, see LinuxCpuLoad (linux.rs:523-535).
AlignedLoadsExact == Linux!AlignedLoadsExact

\* Only hotplug mixes CPUs, see LinuxCpuLoad (linux.rs:107-116 and 527-531).
NoPlugNoMix == Linux!NoPlugNoMix

\* The aggregate exists and lies among the loads, see LinuxCpuLoad
\* (common.rs:23-27, linux.rs:110, data.rs:128-139).
AggregateSound == Linux!AggregateSound
=============================================================================
