------------------------------- MODULE Clock -------------------------------
(***************************************************************************)
(* uptime() and boot_time().  The trait defines each by the other: the     *)
(* uptime is the time that passed since boot_time(), and the boot time is  *)
(* uptime() before now.  A platform overrides at least one of them, and    *)
(* the other then reads two clocks, one after the other, while both run    *)
(* and the clock on the wall may be set.                                   *)
(***************************************************************************)
EXTENDS Integers, Sequences

CONSTANTS
    Micro,      \* nanoseconds in a microsecond of the model
    Second,     \* nanoseconds in a second of the model
    Start,      \* the clock on the wall when the system booted
    Steps,      \* what the clock is set forward or, below zero, back by
    MaxUp,      \* bound on the time a behaviour takes
    MaxSteps    \* bound on how often the clock is set

ConstantsAssumption ==
    /\ Micro \in Nat \ {0}
    /\ Second \in Nat \ {0} /\ Second % Micro = 0
    /\ Steps \subseteq Int
    /\ {Start, MaxUp, MaxSteps} \subseteq Nat

VARIABLES
    platform,   \* the one the program was built for
    wall,       \* the clock on the wall
    up,         \* the time since the boot
    steps,      \* how often the clock was set
    stack,      \* the calls in progress, the innermost first
    held,       \* what the inner call returned, if it did
    answer,     \* what the last call returned
    began,      \* history: up when the call began
    reason      \* history: what the call can blame: the system, or a set clock

vars == <<platform, wall, up, steps, stack, held, answer, began, reason>>

\* "bsd" stands for FreeBSD, OpenBSD and macOS, and "unsupported" for NetBSD and
\* illumos, whose boot_time() is an error.
Overrides ==
    [linux |-> {"uptime", "boot_time"}, bsd |-> {"boot_time"}, windows |-> {"uptime"},
     unsupported |-> {"boot_time"}]

Other(op) == IF op = "uptime" THEN "boot_time" ELSE "uptime"

Answer(op, tag, value) == [op |-> op, tag |-> tag, value |-> value,
                           ended |-> up, boot |-> wall - up]

Init ==
    /\ platform \in DOMAIN Overrides
    /\ wall = Start
    /\ up = 0
    /\ steps = 0
    /\ stack = << >>
    /\ held = << >>
    /\ answer = Answer("uptime", "nothing", 0)
    /\ began = 0
    /\ reason = "none"

program == <<platform, stack, held, answer, began>>

Advance ==
    /\ up < MaxUp
    /\ up' = up + 1
    /\ wall' = wall + 1
    /\ UNCHANGED <<steps, reason, program>>

SetClock(d) ==
    /\ steps < MaxSteps
    /\ steps' = steps + 1
    /\ wall' = wall + d
    /\ reason' = IF stack = << >> \/ reason = "system" THEN reason ELSE "clock"
    /\ UNCHANGED <<up, program>>

-----------------------------------------------------------------------------

kernel == <<platform, wall, up, steps>>

CallOp(op) ==
    /\ stack = << >>
    /\ stack' = <<op>>
    /\ held' = << >>
    /\ began' = up
    /\ reason' = "none"
    /\ UNCHANGED <<kernel, answer>>

\* The trait's definition calls the other one.
Delegate ==
    /\ stack # << >>
    /\ Head(stack) \notin Overrides[platform]
    /\ held = << >>
    /\ stack' = <<Other(Head(stack))>> \o stack
    /\ UNCHANGED <<kernel, held, answer, began, reason>>

Floor(t, unit) == (t \div unit) * unit

\* What the kernels say of the boot follows the clock when that is set.
Boot == wall - up

\* tv_sec, and tv_usec seconds more.
TimevalAsSeconds(t) == Floor(t, Second) + ((t % Second) \div Micro) * Second

\* tv_sec, and tv_usec nanoseconds more.
Timeval(t) == Floor(t, Second) + (t % Second) \div Micro

\* sysinfo, btime in /proc/stat, KERN_BOOTTIME, and GetTickCount64, which counts
\* milliseconds: of the two units of the model, the lesser.
Reading(op) ==
    CASE platform = "linux" -> Floor(IF op = "uptime" THEN up ELSE Boot, Second)
      [] platform = "bsd" -> Timeval(Boot)
      [] platform = "windows" -> Floor(up, Micro)
      [] OTHER -> 0

Supported == platform # "unsupported"

Done(a) == stack' = << >> /\ held' = << >> /\ answer' = a

\* An override: the answer, or the inner call of a definition by default.
ReadSystem ==
    /\ stack # << >>
    /\ Head(stack) \in Overrides[platform]
    /\ Supported
    /\ IF Len(stack) = 1
       THEN Done(Answer(Head(stack), "ok", Reading(Head(stack))))
       ELSE stack' = Tail(stack) /\ held' = <<Reading(Head(stack))>> /\ UNCHANGED answer
    /\ UNCHANGED <<kernel, began, reason>>

\* An error is passed on by and_then and by ?.
ReadFails ==
    /\ stack # << >>
    /\ Head(stack) \in Overrides[platform]
    /\ Head(stack) = "boot_time"
    /\ Done(Answer(stack[Len(stack)], "err", 0))
    /\ reason' = "system"
    /\ UNCHANGED <<kernel, began>>

\* The definition by default has its inner result and asks for the time.  A
\* Duration cannot be negative.
SubtractFromNow ==
    /\ held # << >>
    /\ LET op == Head(stack)
           difference == wall - held[1]
       IN  IF op = "uptime" /\ difference < 0
           THEN Done(Answer(op, "err", 0))
           ELSE Done(Answer(op, "ok", difference))
    /\ UNCHANGED <<kernel, began, reason>>

Next ==
    \/ Advance
    \/ \E d \in Steps : SetClock(d)
    \/ \E op \in {"uptime", "boot_time"} : CallOp(op)
    \/ Delegate
    \/ ReadSystem
    \/ ReadFails
    \/ SubtractFromNow

Spec == Init /\ [][Next]_vars

-----------------------------------------------------------------------------

Idle == stack = << >>

Resolution == IF platform = "windows" THEN Micro ELSE Second

\* Unless the clock was set during the call, the uptime lies between the one
\* at the beginning of the call and the one at its end, and the boot time is
\* off by no more than the call took, each but for the resolution of what the
\* system says, and of the microseconds taken for nanoseconds; a call fails
\* only when the system did, or when the clock was set (common.rs:50-68,
\* freebsd.rs:111-116).
ClockHonest ==
    Idle /\ answer.tag # "nothing" =>
        /\ answer.tag = "err" => reason # "none"
        /\ answer.tag = "ok" /\ reason = "none" =>
            LET low  == IF answer.op = "uptime" THEN began ELSE answer.boot
                took == answer.ended - began
            IN  /\ answer.value > low - Resolution
                /\ answer.value < low + took + Resolution
=============================================================================
