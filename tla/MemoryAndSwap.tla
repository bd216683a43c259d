--------------------------- MODULE MemoryAndSwap ---------------------------
(***************************************************************************)
(* memory(), swap() and memory_and_swap() of Linux, OpenBSD, NetBSD, macOS *)
(* and Windows (FreeBSD's memory() is FreeBsdMemory).  Linux, NetBSD and   *)
(* Windows make both answers of one look at the kernel, OpenBSD of two;    *)
(* macOS has the default of common.rs, which asks for swap first and then  *)
(* for memory.  Linux has a second source for when the first one fails.    *)
(*                                                                         *)
(* Memory is counted in pages, each under one use.  Meanwhile pages change *)
(* their use and move between memory and swap.                             *)
(***************************************************************************)
EXTENDS Integers, Sequences

CONSTANTS
    Platforms,  \* the platforms of a run
    Phys,       \* pages of memory
    SwapSize,   \* pages of swap
    MaxMoves    \* bound on the changes of the kernel during one call

ConstantsAssumption ==
    /\ Platforms \subseteq {"linux", "openbsd", "netbsd", "macos", "windows"}
    /\ Phys \in Nat \ {0}
    /\ SwapSize \in Nat
    /\ MaxMoves \in Nat

\* What a page is used for: by a process, as shared memory (a file to the page
\* cache, but not to be reclaimed), for a file that can be reclaimed (on Linux
\* SReclaimable too), for buffers, being written out (its copy in swap has a
\* slot by then), for nothing.
Use == {"anon", "shmem", "file", "buffers", "paging", "free"}

VARIABLES
    plat,       \* the platform
    pages,      \* [Use -> Nat]
    swapped,    \* pages in swap
    limit,      \* Windows: the page file, which is memory and swap together
    commit,     \* Windows: the pages of it that are promised
    op,         \* the call in progress: "memory", "swap", "both" or "idle"
    todo,       \* the system calls it still has to make
    looks,      \* what they have shown so far
    ret,        \* what the last call returned, until the next one
    moves,      \* history: changes of the kernel since the call began
    demand      \* history: the values of Demand during the call

kernel == <<pages, swapped, limit, commit>>
vars == <<plat, pages, swapped, limit, commit, op, todo, looks, ret, moves, demand>>

\* A subtraction that does not stop at 0.
MonusPlain(a, b) == a - b

\* saturating_sub_bytes
Monus(a, b) == IF a > b THEN a - b ELSE 0

Least(a, b) == IF a < b THEN a ELSE b

\* What the platform calls free: inactive pages are those of files.
FreeUse(p) ==
    CASE p = "linux" -> {"free", "file", "buffers"}
      [] p = "openbsd" -> {"free", "file", "buffers", "paging"}
      [] p \in {"macos", "windows"} -> {"free", "file"}
      [] p = "netbsd" -> {"free"}

PageSum(f) ==
    f["anon"] + f["shmem"] + f["file"] + f["buffers"] + f["paging"] + f["free"]

\* The pages in use, in memory and in swap; Windows counts those it has promised.
Demand ==
    IF plat = "windows" THEN commit
    ELSE PageSum([u \in Use |-> IF u \in FreeUse(plat) THEN 0 ELSE pages[u]]) + swapped

\* The system calls of a call.
Calls(p, o) ==
    CASE p = "linux" -> <<"meminfo">>
      [] p = "openbsd" -> <<"uvmexp", "bcachestat">>
      [] p = "netbsd" -> <<"uvmexp2">>
      [] p = "windows" -> <<"status">>
      [] p = "macos" /\ o = "memory" -> <<"vm">>
      [] p = "macos" /\ o = "swap" -> <<"xsw">>
      [] p = "macos" /\ o = "both" -> <<"xsw", "vm">>

Nothing == [tag |-> "nothing", op |-> "idle", by |-> {},
            memory |-> [total |-> 0, free |-> 0], swap |-> [total |-> 0, free |-> 0]]

Init ==
    /\ plat \in Platforms
    /\ pages \in [Use -> 0..Phys]
    /\ PageSum(pages) = Phys
    /\ swapped \in 0..SwapSize
    /\ limit \in IF plat = "windows" THEN Phys - 1..Phys + SwapSize ELSE {0}
    /\ commit \in 0..limit
    /\ op = "idle"
    /\ todo = << >>
    /\ looks = << >>
    /\ ret = Nothing
    /\ moves = 0
    /\ demand = {}

Kernel ==
    /\ op # "idle"
    /\ moves < MaxMoves
    /\ moves' = moves + 1
    /\ UNCHANGED <<plat, limit, op, todo, looks, ret>>
    /\ demand' = demand \cup {Demand'}

\* A page is put to another use.
Move(u, v) ==
    /\ pages[u] > 0
    /\ pages' = [pages EXCEPT ![u] = @ - 1, ![v] = @ + 1]
    /\ UNCHANGED <<swapped, commit>>
    /\ Kernel

\* A page begins to be written to its slot in swap; it ends when the page moves
\* from "paging" to "free".
PageOut ==
    /\ pages["anon"] > 0 /\ swapped < SwapSize
    /\ pages' = [pages EXCEPT !["anon"] = @ - 1, !["paging"] = @ + 1]
    /\ swapped' = swapped + 1
    /\ UNCHANGED commit
    /\ Kernel

PageIn ==
    /\ pages["free"] > 0 /\ swapped > 0
    /\ pages' = [pages EXCEPT !["anon"] = @ + 1, !["free"] = @ - 1]
    /\ swapped' = swapped - 1
    /\ UNCHANGED commit
    /\ Kernel

\* Windows promises memory that nobody uses yet.
Commit(n) ==
    /\ n # commit
    /\ commit' = n
    /\ UNCHANGED <<pages, swapped>>
    /\ Kernel

\* The kernel changes only during a call: between two of them it starts anywhere.
Call(o) ==
    /\ op = "idle"
    /\ op' = o
    /\ todo' = Calls(plat, o)
    /\ ret' = Nothing
    /\ moves' = 0
    /\ demand' = {Demand}
    /\ UNCHANGED <<plat, kernel, looks>>

\* What the kernel shows, under the names of the code.  Linux: Cached counts the
\* shared memory, and sysinfo does not know Cached.
Meminfo ==
    [by |-> "meminfo", MemFree |-> pages["free"], Buffers |-> pages["buffers"],
     Cached |-> pages["file"] + pages["shmem"], Shmem |-> pages["shmem"],
     SwapFree |-> SwapSize - swapped]

Sysinfo ==
    [by |-> "sysinfo", MemFree |-> pages["free"], Buffers |-> pages["buffers"],
     Cached |-> 0, Shmem |-> pages["shmem"], SwapFree |-> SwapSize - swapped]

\* OpenBSD.
Uvmexp ==
    [by |-> "uvmexp", free |-> pages["free"], inactive |-> pages["file"],
     paging |-> pages["paging"], sw |-> SwapSize, swinuse |-> swapped]

Bcachestats == [by |-> "bcachestat", cache |-> pages["buffers"]]

\* NetBSD.
Uvmexp2 ==
    [by |-> "uvmexp2", free |-> pages["free"], sw |-> SwapSize, swinuse |-> swapped]

\* macOS.
VmStatistics == [by |-> "vm", free |-> pages["free"], inactive |-> pages["file"]]

XswUsage == [by |-> "xsw", avail |-> SwapSize - swapped]

\* Windows.
MemoryStatus ==
    [by |-> "status", avail_phys |-> pages["free"] + pages["file"],
     total_pagefile |-> limit, avail_pagefile |-> limit - commit]

Shown(call) ==
    CASE call = "meminfo" -> Meminfo
      [] call = "sysinfo" -> Sysinfo
      [] call = "uvmexp" -> Uvmexp
      [] call = "bcachestat" -> Bcachestats
      [] call = "uvmexp2" -> Uvmexp2
      [] call = "vm" -> VmStatistics
      [] call = "xsw" -> XswUsage
      [] call = "status" -> MemoryStatus

Look ==
    /\ todo # << >>
    /\ todo' = Tail(todo)
    /\ looks' = Append(looks, Shown(Head(todo)))
    /\ UNCHANGED <<plat, kernel, op, ret, moves, demand>>

\* /proc/meminfo cannot be read or parsed: sysinfo is asked instead.
FallBack ==
    /\ todo = <<"meminfo">>
    /\ todo' = <<"sysinfo">>
    /\ UNCHANGED <<plat, kernel, op, looks, ret, moves, demand>>

\* Any other system call fails, but for sysinfo, which cannot.
LookFails ==
    /\ todo # << >>
    /\ Head(todo) \notin {"meminfo", "sysinfo"}
    /\ op' = "idle"
    /\ todo' = << >>
    /\ looks' = << >>
    /\ ret' = [Nothing EXCEPT !.tag = "err"]
    /\ UNCHANGED <<plat, kernel, moves, demand>>

First == Head(looks)
LastLook == looks[Len(looks)]

\* free of Memory.
LinuxFree(look) == Monus(look.MemFree + look.Buffers + look.Cached, look.Shmem)

\* The pages on their way out left out.
OpenBsdFreeStill(uvm, bcache) == uvm.inactive + bcache.cache + uvm.free

OpenBsdFree(uvm, bcache) == uvm.inactive + bcache.cache + uvm.free + uvm.paging

NetBsdFree(uvm) == uvm.free

MacFree(vm) == vm.free + vm.inactive

WindowsFree(status) == status.avail_phys

MemoryFree ==
    CASE plat = "linux" -> LinuxFree(First)
      [] plat = "openbsd" -> OpenBsdFree(First, LastLook)
      [] plat = "netbsd" -> NetBsdFree(First)
      [] plat = "macos" -> MacFree(LastLook)
      [] plat = "windows" -> WindowsFree(First)

\* The Swap of a platform.
LinuxSwap(look) == [total |-> SwapSize, free |-> look.SwapFree]

BsdSwap(uvm) == [total |-> uvm.sw, free |-> Monus(uvm.sw, uvm.swinuse)]

MacSwap(xsw) == [total |-> SwapSize, free |-> xsw.avail]

\* The two subtractions without the minimum.
WindowsSwapRaw(status) ==
    [total |-> Monus(status.total_pagefile, Phys),
     free  |-> Monus(status.avail_pagefile, status.avail_phys)]

\* What the page file has more than memory has.
WindowsSwap(status) ==
    LET total == Monus(status.total_pagefile, Phys)
        free  == Monus(status.avail_pagefile, status.avail_phys)
    IN  [total |-> total, free |-> Least(total, free)]

Swap ==
    CASE plat = "linux" -> LinuxSwap(First)
      [] plat \in {"openbsd", "netbsd"} -> BsdSwap(First)
      [] plat = "macos" -> MacSwap(First)
      [] plat = "windows" -> WindowsSwap(First)

Return ==
    /\ op # "idle" /\ todo = << >>
    /\ op' = "idle"
    /\ looks' = << >>
    /\ ret' = [tag |-> "ok", op |-> op,
               by |-> {looks[i].by : i \in DOMAIN looks},
               memory |-> IF op = "swap" THEN Nothing.memory
                          ELSE [total |-> Phys, free |-> MemoryFree],
               swap |-> IF op = "memory" THEN Nothing.swap ELSE Swap]
    /\ UNCHANGED <<plat, kernel, todo, moves, demand>>

Next ==
    \/ \E u, v \in Use : u # v /\ Move(u, v)
    \/ PageOut
    \/ PageIn
    \/ \E n \in 0..limit : Commit(n)
    \/ \E o \in {"memory", "swap", "both"} : Call(o)
    \/ Look
    \/ FallBack
    \/ LookFails
    \/ Return

Spec == Init /\ [][Next]_vars

-----------------------------------------------------------------------------

Amounts == [total : Nat, free : Nat]

OneLook(by) == \A a, b \in by : a = b

Returned(what) == op = "idle" /\ ret.tag = "ok" /\ ret.op \in what

\* No platform reports more free swap than swap, also where the two amounts are
\* differences of counts that are not in step, nor more free memory than memory,
\* but for the pages that moved between the two looks of OpenBSD; and no
\* amount goes below 0 (windows/mod.rs:356-364, linux.rs:786-799,
\* openbsd.rs:212-241, and what platform/mod.rs:93 and 100 assert).
FreeWithinTotal ==
    /\ ret.memory \in Amounts /\ ret.swap \in Amounts
    /\ Returned({"swap", "both"}) => ret.swap.free <= ret.swap.total
    /\ Returned({"memory", "both"}) =>
        ret.memory.free <= ret.memory.total + IF OneLook(ret.by) THEN 0 ELSE moves

\* The memory and the swap of one answer fit together: what they show in use is
\* what was in use at one moment, where both come from one look; off by at most
\* the pages that moved during the call, where there are two; and never less
\* than what was in use when Linux falls back on sysinfo.  On Windows what they
\* show in use is what was promised, unless the swap cannot take up the
\* difference: more only with all swap shown free, less only with none
\* (common.rs:42-47, openbsd.rs:235-247, windows/mod.rs:356-370).
DemandAccounted ==
    Returned({"both"}) =>
        LET used == ret.memory.total - ret.memory.free + ret.swap.total - ret.swap.free
        IN  \E d \in demand :
                IF plat = "windows" THEN
                    /\ used > d => ret.swap.free = ret.swap.total
                    /\ used < d => ret.swap.free = 0
                ELSE IF ret.by = {"sysinfo"} THEN used >= d
                ELSE IF OneLook(ret.by) THEN used = d
                ELSE used \in d - moves..d + moves
=============================================================================
