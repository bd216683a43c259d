------------------------- MODULE SystemMemoryProofs -------------------------
(***************************************************************************)
(* FreeBSD: the total of memory() is off by at most the pages moved during *)
(* the call for every amount of memory, every number of moves, with and    *)
(* without the cache queue and ZFS.  The other systems: free is within     *)
(* total, and memory and swap of one answer fit together, for every amount *)
(* of memory and swap and every number of moves.                           *)
(***************************************************************************)
EXTENDS SystemMemory, SequenceTheorems, TLAPS

LEMMA InitType == Init => TypeOK
<1> USE ConstantsAssumption
<1> SUFFICES ASSUME Init PROVE TypeOK
  OBVIOUS
<1>1. pages \in [Queue -> Nat] /\ pages["wired"] \in Nat
  BY DEF Init, Queue
<1>2. QED
  BY <1>1 DEF Init, TypeOK, Zero, Outcome

\* A page move keeps the sum of the queues and the ARC among the wired pages.
LEMMA MoveType ==
    ASSUME TypeOK, NEW q \in Queue, NEW r \in Queue, Move(q, r)
    PROVE  TypeOK'
<1> USE ConstantsAssumption
<1>1. \A p \in Queue : pages[p] \in Nat
  BY DEF TypeOK
<1>2. pages' = [pages EXCEPT ![q] = @ - 1, ![r] = @ + 1] /\ q # r /\ pages[q] > 0
  BY DEF Move
<1>3. /\ pages' \in [Queue -> Nat]
      /\ pages'[q] = pages[q] - 1
      /\ pages'[r] = pages[r] + 1
      /\ \A p \in Queue \ {q, r} : pages'[p] = pages[p]
  BY <1>1, <1>2 DEF TypeOK
<1>4. PageSum(pages') = PageSum(pages)
  BY <1>1, <1>2, <1>3 DEF PageSum, Queue
<1>5. arc \in Nat /\ arc <= pages'["wired"]
  <2>1. pages["wired"] \in Nat /\ arc \in Nat /\ arc <= pages["wired"]
    BY <1>1 DEF TypeOK, Queue
  <2>2. CASE q = "wired"
    BY <1>3, <2>1, <2>2 DEF Move
  <2>3. CASE r = "wired"
    BY <1>3, <2>1, <2>3
  <2>4. CASE q # "wired" /\ r # "wired"
    BY <1>3, <2>1, <2>4 DEF Queue
  <2>5. QED
    BY <2>2, <2>3, <2>4
<1>6. ~HasCache => pages'["cache"] = 0
  <2>1. CASE ~HasCache
    <3>1. q # "cache" /\ r # "cache"
      BY <1>2, <2>1 DEF Move, TypeOK
    <3>2. QED
      BY <1>3, <2>1, <3>1 DEF TypeOK, Queue
  <2>2. QED
    BY <2>1
<1>7. moves' \in Nat
  BY DEF Move, TypeOK
<1>8. QED
  BY <1>3, <1>4, <1>5, <1>6, <1>7 DEF Move, TypeOK

\* The Memory made of samples has no negative figure.
LEMMA MemoryType ==
    ASSUME NEW s \in [Queue -> Nat], NEW a \in Nat
    PROVE  /\ Memory(s, a).total \in Nat
           /\ Memory(s, a).free \in Nat
           /\ Memory(s, a).wired \in Nat
BY DEF Memory, Monus, Queue

LEMMA TypePreserved == TypeOK /\ [Next]_vars => TypeOK'
<1> USE ConstantsAssumption
<1> SUFFICES ASSUME TypeOK, [Next]_vars PROVE TypeOK'
  OBVIOUS
<1>1. ASSUME NEW q \in Queue, NEW r \in Queue, Move(q, r)
      PROVE  TypeOK'
  BY <1>1, MoveType
<1>2. ASSUME NEW n \in 0..Phys, ResizeArc(n)
      PROVE  TypeOK'
  BY <1>2 DEF ResizeArc, TypeOK
<1>3. CASE Begin
  BY <1>3 DEF Begin, TypeOK, Zero, Queue
<1>4. ASSUME NEW q \in Queue, Read(q)
      PROVE  TypeOK'
  <2>1. pages[q] \in Nat /\ After(q) \in Queue \cup {"idle", "arc"}
    BY DEF TypeOK, After, Queue
  <2>2. QED
    BY <1>4, <2>1 DEF Read, TypeOK
<1>5. ASSUME NEW q \in Queue, Fails(q)
      PROVE  TypeOK'
  BY <1>5 DEF Fails, TypeOK, Outcome
<1>6. CASE ReadArc
  <2>1. (IF HasZfs THEN arc ELSE 0) \in Nat
    BY DEF TypeOK
  <2>2. QED
    BY <1>6, <2>1, MemoryType DEF ReadArc, TypeOK
<1>7. CASE UNCHANGED vars
  BY <1>7 DEF vars, TypeOK
<1>8. QED
  BY <1>1, <1>2, <1>3, <1>4, <1>5, <1>6, <1>7 DEF Next

\* The types hold, the queues add up and no figure goes below 0.
THEOREM TypeCorrect == Spec => []TypeOK
BY InitType, TypePreserved, PTL DEF Spec

-----------------------------------------------------------------------------

IInv == TypeOK /\ CacheUnread /\ ProjectedNearPhys /\ TotalNearPhys

\* Between two calls, and before the first sysctl of one, nothing has been
\* sampled and the sum is exact.
LEMMA FreshCall ==
    TypeOK /\ pc \in {"idle", "active"} => ProjectedNearPhys
<1> USE ConstantsAssumption
<1> SUFFICES ASSUME TypeOK, pc \in {"idle", "active"} PROVE ProjectedNearPhys
  OBVIOUS
<1>1. Seen = {}
  BY DEF Seen
<1>2. /\ \A q \in Queue : Projected[q] = pages[q]
      /\ WiredGrowth = 0
  BY <1>1 DEF Projected, WiredGrowth
<1>3. PageSum(Projected) = Phys
  BY <1>2 DEF PageSum, Queue, TypeOK
<1>4. QED
  BY <1>2, <1>3 DEF ProjectedNearPhys, TypeOK

LEMMA FreshCallNext ==
    (TypeOK /\ pc \in {"idle", "active"})' => ProjectedNearPhys'
BY FreshCall, PTL

\* The projection is a page count of each queue.
LEMMA ProjectedType ==
    ASSUME TypeOK
    PROVE  \A q \in Queue : Projected[q] \in Nat /\ pages[q] \in Nat /\ sample[q] \in Nat
BY DEF Projected, TypeOK

\* A page move changes the projected sum, and what wired has grown by, by at
\* most one page.
LEMMA MoveProjected ==
    ASSUME TypeOK, ProjectedNearPhys,
           NEW q \in Queue, NEW r \in Queue, Move(q, r)
    PROVE  ProjectedNearPhys'
<1> USE ConstantsAssumption
<1>1. /\ q # r
      /\ pages'[q] = pages[q] - 1
      /\ pages'[r] = pages[r] + 1
      /\ \A p \in Queue \ {q, r} : pages'[p] = pages[p]
      /\ sample' = sample /\ pc' = pc /\ moves' = moves + 1
  BY DEF Move, TypeOK
<1>2. Seen' = Seen
  BY <1>1 DEF Seen
<1>3. \A p \in Queue : Projected'[p] = IF p \in Seen THEN sample[p] ELSE pages'[p]
  BY <1>1, <1>2 DEF Projected
<1>4. \A p \in Queue : Projected[p] = IF p \in Seen THEN sample[p] ELSE pages[p]
  BY DEF Projected
<1>5. \A p \in Queue : pages[p] \in Nat /\ sample[p] \in Nat /\ Projected[p] \in Nat
  BY ProjectedType
<1>6. /\ \A p \in Queue \ {q, r} : Projected'[p] = Projected[p]
      /\ Projected'[q] = IF q \in Seen THEN Projected[q] ELSE Projected[q] - 1
      /\ Projected'[r] = IF r \in Seen THEN Projected[r] ELSE Projected[r] + 1
  BY <1>1, <1>3, <1>4
<1> DEFINE lost == IF q \in Seen THEN 0 ELSE 1
           won  == IF r \in Seen THEN 0 ELSE 1
<1>7. PageSum(Projected)' = PageSum(Projected) + won - lost
  <2>1. /\ Projected'[q] = Projected[q] - lost
        /\ Projected'[r] = Projected[r] + won
        /\ lost \in {0, 1} /\ won \in {0, 1}
    BY <1>5, <1>6
  <2> HIDE DEF lost, won
  <2>2. QED
    BY <1>1, <1>5, <1>6, <2>1 DEF PageSum, Queue
<1>8. WiredGrowth \in Nat /\ WiredGrowth' \in Nat /\ WiredGrowth' <= WiredGrowth + 1 - won
  <2>1. "wired" \in Queue
    BY DEF Queue
  <2>2. CASE "wired" \notin Seen
    BY <1>2, <2>2 DEF WiredGrowth
  <2>3. CASE "wired" \in Seen
    <3>1. /\ WiredGrowth = Monus(pages["wired"], sample["wired"])
          /\ WiredGrowth' = Monus(pages'["wired"], sample["wired"])
      BY <1>1, <1>2, <2>3 DEF WiredGrowth
    <3>2. CASE r = "wired"
      BY <1>1, <1>5, <2>1, <2>3, <3>1, <3>2 DEF Monus
    <3>3. CASE r # "wired"
      <4>1. pages'["wired"] <= pages["wired"] /\ pages'["wired"] \in Int
        BY <1>1, <1>5, <2>1, <3>3
      <4>2. QED
        BY <1>5, <2>1, <3>1, <4>1 DEF Monus
    <3>4. QED
      BY <3>2, <3>3
  <2>4. QED
    BY <2>2, <2>3
<1>9. PageSum(Projected) \in Nat /\ moves \in Nat /\ lost \in {0, 1} /\ won \in {0, 1}
  BY <1>5 DEF PageSum, Queue, TypeOK
<1> HIDE DEF lost, won
<1>10. QED
  BY <1>1, <1>7, <1>8, <1>9 DEF ProjectedNearPhys

\* A sysctl turns what it would have returned into a sample.
LEMMA ReadProjected ==
    ASSUME TypeOK, CacheUnread, ProjectedNearPhys, NEW q \in Queue, Read(q)
    PROVE  ProjectedNearPhys'
<1> USE ConstantsAssumption
<1>1. /\ pc = q /\ pc' = After(q) /\ pages' = pages /\ moves' = moves
      /\ sample'[q] = pages[q]
      /\ \A p \in Queue \ {q} : sample'[p] = sample[p]
  BY DEF Read, TypeOK, CacheUnread, Queue
<1>2. Seen' = Seen \cup {q} /\ q \notin Seen
  BY <1>1 DEF Seen, After, Queue
<1>3. \A p \in Queue : Projected'[p] = Projected[p]
  BY <1>1, <1>2 DEF Projected
<1>4. PageSum(Projected)' = PageSum(Projected)
  BY <1>3 DEF PageSum, Queue
<1>5. WiredGrowth' <= WiredGrowth /\ WiredGrowth \in Nat /\ WiredGrowth' \in Nat
  <2>1. "wired" \in Queue /\ pages["wired"] \in Nat /\ sample["wired"] \in Nat
    BY ProjectedType DEF Queue
  <2>2. CASE q = "wired"
    BY <1>1, <1>2, <2>1, <2>2 DEF WiredGrowth, Monus
  <2>3. CASE q # "wired"
    BY <1>1, <1>2, <2>1, <2>3 DEF WiredGrowth, Monus
  <2>4. QED
    BY <2>2, <2>3
<1>6. PageSum(Projected) \in Nat /\ moves \in Nat
  BY ProjectedType DEF PageSum, Queue, TypeOK
<1>7. QED
  BY <1>1, <1>4, <1>5, <1>6 DEF ProjectedNearPhys

\* The result: what the ARC exceeds the sampled wired pages by is no more
\* than what wired has grown by.
LEMMA ReadArcTotal ==
    ASSUME TypeOK, ProjectedNearPhys, ReadArc
    PROVE  TotalNearPhys'
<1> USE ConstantsAssumption
<1> DEFINE a == IF HasZfs THEN arc ELSE 0
<1>1. /\ pc = "arc"
      /\ ret'.total = Memory(sample, a).total
      /\ ret'.moves = moves
  BY DEF ReadArc
<1>2. Seen = Queue
  BY <1>1 DEF Seen, Queue
<1>3. /\ \A q \in Queue : Projected[q] = sample[q]
      /\ WiredGrowth = Monus(pages["wired"], sample["wired"])
  BY <1>2 DEF Projected, WiredGrowth, Queue
<1>4. /\ a \in Nat /\ a <= pages["wired"]
      /\ \A q \in Queue : sample[q] \in Nat
      /\ pages["wired"] \in Nat
      /\ moves \in Nat
  BY ProjectedType DEF TypeOK, Queue
<1> HIDE DEF a
<1>5. PageSum(Projected) = PageSum(sample) /\ PageSum(sample) \in Nat
  BY <1>3, <1>4 DEF PageSum, Queue
<1>6. Memory(sample, a).total = PageSum(sample) + Monus(a, sample["wired"])
  BY <1>4 DEF Memory, Monus, PageSum, Queue
<1>7. /\ Monus(a, sample["wired"]) <= WiredGrowth
      /\ Monus(a, sample["wired"]) \in Nat /\ WiredGrowth \in Nat
  BY <1>3, <1>4 DEF Monus, Queue
<1>8. QED
  BY <1>1, <1>4, <1>5, <1>6, <1>7 DEF ProjectedNearPhys, TotalNearPhys

LEMMA InitNear == Init => IInv
<1> SUFFICES ASSUME Init PROVE IInv
  OBVIOUS
<1>1. TypeOK
  BY InitType
<1>2. pc = "idle" /\ ret.tag = "nothing"
  BY DEF Init, Outcome
<1>3. QED
  BY <1>1, <1>2, FreshCall DEF IInv, CacheUnread, TotalNearPhys

LEMMA NearPreserved == IInv /\ [Next]_vars => IInv'
<1> USE ConstantsAssumption
<1> SUFFICES ASSUME IInv, [Next]_vars PROVE IInv'
  OBVIOUS
<1> USE DEF IInv
<1>1. TypeOK'
  BY TypePreserved
<1>2. (pc \in {"idle", "active"})' => ProjectedNearPhys'
  BY <1>1, FreshCallNext
<1>3. ASSUME NEW q \in Queue, NEW r \in Queue, Move(q, r)
      PROVE  IInv'
  <2>1. ProjectedNearPhys'
    BY <1>3, MoveProjected
  <2>2. QED
    BY <1>1, <1>3, <2>1 DEF Move, CacheUnread, TotalNearPhys
<1>4. ASSUME NEW n \in 0..Phys, ResizeArc(n)
      PROVE  IInv'
  BY <1>1, <1>4 DEF ResizeArc, CacheUnread, ProjectedNearPhys, TotalNearPhys, Projected,
                    WiredGrowth, Seen
<1>5. CASE Begin
  BY <1>1, <1>2, <1>5 DEF Begin, CacheUnread, TotalNearPhys, Zero, Queue
<1>6. ASSUME NEW q \in Queue, Read(q)
      PROVE  IInv'
  <2>1. ProjectedNearPhys'
    BY <1>6, ReadProjected
  <2>2. CacheUnread'
    BY <1>6 DEF Read, CacheUnread, After, Queue, TypeOK
  <2>3. QED
    BY <1>1, <1>6, <2>1, <2>2 DEF Read, TotalNearPhys
<1>7. ASSUME NEW q \in Queue, Fails(q)
      PROVE  IInv'
  BY <1>1, <1>2, <1>7 DEF Fails, CacheUnread, TotalNearPhys, Outcome
<1>8. CASE ReadArc
  <2>1. TotalNearPhys'
    BY <1>8, ReadArcTotal
  <2>2. QED
    BY <1>1, <1>2, <1>8, <2>1 DEF ReadArc, CacheUnread
<1>9. CASE UNCHANGED vars
  BY <1>1, <1>9 DEF vars, CacheUnread, ProjectedNearPhys, TotalNearPhys, Projected,
                    WiredGrowth, Seen
<1>10. QED
  BY <1>3, <1>4, <1>5, <1>6, <1>7, <1>8, <1>9 DEF Next

\* In every state the pages sampled and still to be sampled add up to the
\* physical memory, give or take the pages moved during the call.
THEOREM ProjectionCorrect == Spec => []ProjectedNearPhys
<1>1. IInv => ProjectedNearPhys
  BY DEF IInv
<1>2. QED
  BY <1>1, InitNear, NearPreserved, PTL DEF Spec

\* Every total returned is the physical memory, give or take the pages moved
\* while memory() was sampling.
THEOREM TotalCorrect == Spec => []TotalNearPhys
<1>1. IInv => TotalNearPhys
  BY DEF IInv
<1>2. QED
  BY <1>1, InitNear, NearPreserved, PTL DEF Spec
-----------------------------------------------------------------------------
(***************************************************************************)
(* The other systems.                                                      *)
(***************************************************************************)

KernelHeld ==
    /\ plat \in {"linux", "openbsd", "netbsd", "macos", "windows"}
    /\ msPages \in [Both!Use -> Nat]
    /\ Both!PageSum(msPages) = OtherPhys
    /\ swapped \in 0..SwapSize
    /\ limit \in Nat /\ commit \in 0..limit
    /\ msMoves \in Nat

\* The pages in use that an answer shows.
Used(free, swapFree) == OtherPhys - free + SwapSize - swapFree

\* What a look has shown will be told of the system: the amounts are in range
\* and their sum was the demand at one moment of the call, or at least near it.
LinuxTrue(look) ==
    /\ look.by \in {"meminfo", "sysinfo"}
    /\ Both!LinuxFree(look) \in 0..OtherPhys
    /\ look.SwapFree \in 0..SwapSize
    /\ \E d \in demand :
        IF look.by = "sysinfo" THEN Used(Both!LinuxFree(look), look.SwapFree) >= d
        ELSE Used(Both!LinuxFree(look), look.SwapFree) = d

NetBsdTrue(uvm) ==
    /\ uvm.by = "uvmexp2"
    /\ uvm.free \in 0..OtherPhys
    /\ uvm.sw = SwapSize /\ uvm.swinuse \in 0..SwapSize
    /\ Used(uvm.free, SwapSize - uvm.swinuse) \in demand

\* The first of two looks, with the buffers of the second one, or as they are now.
OpenBsdTrue(uvm, cache) ==
    /\ uvm.by = "uvmexp"
    /\ uvm.free \in Nat /\ uvm.inactive \in Nat /\ uvm.paging \in Nat
    /\ uvm.inactive + cache + uvm.free + uvm.paging <= OtherPhys + msMoves
    /\ uvm.sw = SwapSize /\ uvm.swinuse \in 0..SwapSize
    /\ \E d \in demand :
        Used(uvm.inactive + cache + uvm.free + uvm.paging, SwapSize - uvm.swinuse)
            \in d - msMoves..d + msMoves

MacVmTrue(vm) ==
    /\ vm.by = "vm"
    /\ vm.free \in Nat /\ vm.inactive \in Nat
    /\ vm.free + vm.inactive <= OtherPhys

MacXswTrue(xsw) == xsw.by = "xsw" /\ xsw.avail \in 0..SwapSize

\* The two looks of macOS, with the free memory of the second one, or as it is now.
MacBothTrue(xsw, free) ==
    /\ MacXswTrue(xsw)
    /\ \E d \in demand : Used(free, xsw.avail) \in d - msMoves..d + msMoves

WindowsTrue(status) ==
    /\ status.by = "status"
    /\ status.avail_phys \in 0..OtherPhys
    /\ status.total_pagefile \in Nat /\ status.avail_pagefile \in Nat
    /\ status.total_pagefile - status.avail_pagefile \in demand

\* How far a call of each system has come.
LinuxCall ==
    \/ todo \in {<<"meminfo">>, <<"sysinfo">>} /\ looks = << >>
    \/ todo = << >> /\ \E look : looks = <<look>> /\ LinuxTrue(look)

NetBsdCall ==
    \/ todo = <<"uvmexp2">> /\ looks = << >>
    \/ todo = << >> /\ \E uvm : looks = <<uvm>> /\ NetBsdTrue(uvm)

OpenBsdCall ==
    \/ todo = <<"uvmexp", "bcachestat">> /\ looks = << >>
    \/ todo = <<"bcachestat">> /\ \E uvm : looks = <<uvm>> /\ OpenBsdTrue(uvm, msPages["buffers"])
    \/ /\ todo = << >>
       /\ \E uvm, bcache :
            /\ looks = <<uvm, bcache>>
            /\ bcache.by = "bcachestat" /\ bcache.cache \in Nat
            /\ OpenBsdTrue(uvm, bcache.cache)

MacCall ==
    \/ op = "memory" /\ todo = <<"vm">> /\ looks = << >>
    \/ op = "memory" /\ todo = << >> /\ \E vm : looks = <<vm>> /\ MacVmTrue(vm)
    \/ op = "swap" /\ todo = <<"xsw">> /\ looks = << >>
    \/ op = "swap" /\ todo = << >> /\ \E xsw : looks = <<xsw>> /\ MacXswTrue(xsw)
    \/ op = "both" /\ todo = <<"xsw", "vm">> /\ looks = << >>
    \/ /\ op = "both" /\ todo = <<"vm">>
       /\ \E xsw : looks = <<xsw>> /\ MacBothTrue(xsw, msPages["free"] + msPages["file"])
    \/ /\ op = "both" /\ todo = << >>
       /\ \E xsw, vm :
            looks = <<xsw, vm>> /\ MacVmTrue(vm) /\ MacBothTrue(xsw, vm.free + vm.inactive)

WindowsCall ==
    \/ todo = <<"status">> /\ looks = << >>
    \/ todo = << >> /\ \E status : looks = <<status>> /\ WindowsTrue(status)

CallHeld ==
    IF op = "idle" THEN todo = << >> /\ looks = << >>
    ELSE /\ op \in {"memory", "swap", "both"}
         /\ msRet = Both!Nothing
         /\ Both!Demand \in demand
         /\ plat = "linux" => LinuxCall
         /\ plat = "netbsd" => NetBsdCall
         /\ plat = "openbsd" => OpenBsdCall
         /\ plat = "macos" => MacCall
         /\ plat = "windows" => WindowsCall

\* FreeWithinTotal and DemandAccounted speak of what is returned; CallHeld says
\* it of every look from the moment it is made, while the kernel goes on moving.
MemoryInv == KernelHeld /\ demand \subseteq Int /\ CallHeld /\ FreeWithinTotal /\ DemandAccounted

LEMMA BothConstants ==
    OtherPhys \in Nat \ {0} /\ SwapSize \in Nat /\ OtherMoves \in Nat
BY BothAssumption DEF Both!ConstantsAssumption

LEMMA PagesAddUp ==
    ASSUME KernelHeld
    PROVE  /\ \A u \in Both!Use : msPages[u] \in Nat
           /\ msPages["anon"] \in Nat /\ msPages["shmem"] \in Nat /\ msPages["file"] \in Nat
           /\ msPages["buffers"] \in Nat /\ msPages["paging"] \in Nat
           /\ msPages["free"] \in Nat
           /\ msPages["anon"] + msPages["shmem"] + msPages["file"] + msPages["buffers"]
                + msPages["paging"] + msPages["free"] = OtherPhys
BY DEF KernelHeld, Both!PageSum, Both!Use

\* The demand is what is left of memory without the pages the system calls free.
LEMMA DemandIs ==
    ASSUME KernelHeld
    PROVE  /\ Both!Demand \in Int
           /\ plat = "linux" =>
                Both!Demand = OtherPhys - (msPages["free"] + msPages["file"] + msPages["buffers"])
                                + swapped
           /\ plat = "openbsd" =>
                Both!Demand = OtherPhys - (msPages["free"] + msPages["file"] + msPages["buffers"]
                                            + msPages["paging"]) + swapped
           /\ plat = "windows" => Both!Demand = commit
           /\ plat = "macos" =>
                Both!Demand = OtherPhys - (msPages["free"] + msPages["file"]) + swapped
           /\ plat = "netbsd" => Both!Demand = OtherPhys - msPages["free"] + swapped
<1> DEFINE used == [u \in Both!Use |-> IF u \in Both!FreeUse(plat) THEN 0 ELSE msPages[u]]
<1>1. plat # "windows" => Both!Demand = Both!PageSum(used) + swapped
  BY DEF Both!Demand
<1>2. Both!PageSum(used) =
        used["anon"] + used["shmem"] + used["file"] + used["buffers"] + used["paging"]
            + used["free"]
  BY DEF Both!PageSum
<1>3. \A u \in Both!Use : used[u] = IF u \in Both!FreeUse(plat) THEN 0 ELSE msPages[u]
  OBVIOUS
<1> HIDE DEF used
<1>4. swapped \in Nat /\ OtherPhys \in Nat
  BY BothConstants DEF KernelHeld
<1>5. CASE plat \in {"linux", "openbsd"}
  BY <1>1, <1>2, <1>3, <1>4, <1>5, PagesAddUp DEF Both!Use, Both!FreeUse
<1>6. CASE plat = "macos"
  BY <1>1, <1>2, <1>3, <1>4, <1>6, PagesAddUp DEF Both!Use, Both!FreeUse
<1>7. CASE plat = "netbsd"
  BY <1>1, <1>2, <1>3, <1>4, <1>7, PagesAddUp DEF Both!Use, Both!FreeUse
<1>8. CASE plat = "windows"
  BY <1>8 DEF Both!Demand, KernelHeld
<1>9. QED
  BY <1>5, <1>6, <1>7, <1>8 DEF KernelHeld

\* What the kernel does on its own: one page at most changes its use.
KernelMoves ==
    \/ \E u, v \in Both!Use : u # v /\ Both!Move(u, v)
    \/ Both!PageOut
    \/ Both!PageIn
    \/ \E n \in 0..limit : Both!Commit(n)

LEMMA OnePageAtMost ==
    ASSUME KernelHeld, KernelMoves
    PROVE  /\ msPages' \in [Both!Use -> Nat]
           /\ Both!PageSum(msPages') = OtherPhys
           /\ swapped' \in 0..SwapSize /\ commit' \in 0..limit
           /\ msPages'["buffers"] - msPages["buffers"] \in -1..1
           /\ msPages'["free"] + msPages'["file"] - (msPages["free"] + msPages["file"]) \in -1..1
<1> USE BothConstants, PagesAddUp
<1>1. ASSUME NEW u \in Both!Use, NEW v \in Both!Use, u # v, msPages[u] > 0,
             msPages' = [msPages EXCEPT ![u] = @ - 1, ![v] = @ + 1]
      PROVE  /\ msPages' \in [Both!Use -> Nat]
             /\ Both!PageSum(msPages') = OtherPhys
             /\ msPages'["buffers"] - msPages["buffers"] \in -1..1
             /\ msPages'["free"] + msPages'["file"] - (msPages["free"] + msPages["file"]) \in -1..1
  <2>1. /\ msPages' \in [Both!Use -> Nat]
        /\ msPages'[u] = msPages[u] - 1
        /\ msPages'[v] = msPages[v] + 1
        /\ \A w \in Both!Use \ {u, v} : msPages'[w] = msPages[w]
    BY <1>1 DEF KernelHeld
  <2>2. QED
    BY <1>1, <2>1 DEF Both!PageSum, Both!Use
<1>2. ASSUME NEW u \in Both!Use, NEW v \in Both!Use, u # v, Both!Move(u, v)
      PROVE  msPages[u] > 0 /\ msPages' = [msPages EXCEPT ![u] = @ - 1, ![v] = @ + 1]
             /\ UNCHANGED <<swapped, commit, limit>>
  BY <1>2 DEF Both!Move, Both!Kernel
<1>3. CASE \E u, v \in Both!Use : u # v /\ Both!Move(u, v)
  BY <1>1, <1>2, <1>3 DEF KernelHeld
<1>4. "anon" \in Both!Use /\ "free" \in Both!Use /\ "paging" \in Both!Use
  BY DEF Both!Use
<1>5. CASE Both!PageOut
  <2>1. /\ msPages["anon"] > 0 /\ swapped < SwapSize /\ swapped' = swapped + 1
        /\ msPages' = [msPages EXCEPT !["anon"] = @ - 1, !["paging"] = @ + 1]
        /\ UNCHANGED <<commit, limit>>
    BY <1>5 DEF Both!PageOut, Both!Kernel
  <2>2. swapped' \in 0..SwapSize /\ commit' \in 0..limit
    BY <2>1 DEF KernelHeld
  <2>3. QED
    BY <1>1, <1>4, <2>1, <2>2
<1>6. CASE Both!PageIn
  <2>1. /\ msPages["free"] > 0 /\ swapped > 0 /\ swapped' = swapped - 1
        /\ msPages' = [msPages EXCEPT !["free"] = @ - 1, !["anon"] = @ + 1]
        /\ UNCHANGED <<commit, limit>>
    BY <1>6, <1>4 DEF Both!PageIn, Both!Kernel, KernelHeld
  <2>2. swapped' \in 0..SwapSize /\ commit' \in 0..limit
    BY <2>1 DEF KernelHeld
  <2>3. QED
    BY <1>1, <1>4, <2>1, <2>2
<1>7. ASSUME NEW n \in 0..limit, Both!Commit(n)
      PROVE  /\ msPages' = msPages /\ swapped' = swapped
             /\ commit' \in 0..limit
  BY <1>7 DEF Both!Commit, Both!Kernel
<1>8. CASE \E n \in 0..limit : Both!Commit(n)
  BY <1>7, <1>8 DEF KernelHeld
<1>9. QED
  BY <1>3, <1>5, <1>6, <1>8 DEF KernelMoves

LEMMA KernelTells ==
    ASSUME KernelMoves
    PROVE  /\ op # "idle"
           /\ msMoves' = msMoves + 1
           /\ UNCHANGED <<plat, limit, op, todo, looks, msRet>>
           /\ demand' = demand \cup {Both!Demand'}
BY DEF KernelMoves, Both!Move, Both!PageOut, Both!PageIn, Both!Commit, Both!Kernel

LEMMA KernelKept ==
    ASSUME KernelHeld, KernelMoves
    PROVE  KernelHeld'
BY OnePageAtMost, KernelTells DEF KernelHeld

LEMMA DemandNext == KernelHeld' => (Both!Demand \in Int)'
<1>1. KernelHeld => Both!Demand \in Int
  BY DemandIs
<1>2. QED
  BY <1>1, PTL

\* What a look will be told of holds of it however the kernel goes on: demand
\* only grows, and the pages of the second look of a call change by one at most.
LEMMA OpenBsdKept ==
    ASSUME KernelHeld, KernelMoves, demand \subseteq Int,
           NEW uvm, NEW cache \in Int, NEW cache2 \in Int, cache2 - cache \in -1..1,
           OpenBsdTrue(uvm, cache)
    PROVE  OpenBsdTrue(uvm, cache2)'
<1>1. /\ uvm.by = "uvmexp"
      /\ uvm.free \in Nat /\ uvm.inactive \in Nat /\ uvm.paging \in Nat
      /\ uvm.inactive + cache + uvm.free + uvm.paging <= OtherPhys + msMoves
      /\ uvm.sw = SwapSize /\ uvm.swinuse \in 0..SwapSize
  BY DEF OpenBsdTrue
<1>2. PICK d \in demand :
        Used(uvm.inactive + cache + uvm.free + uvm.paging, SwapSize - uvm.swinuse)
            \in d - msMoves..d + msMoves
  BY DEF OpenBsdTrue
<1>3. msMoves' = msMoves + 1 /\ msMoves \in Nat /\ OtherPhys \in Nat /\ SwapSize \in Nat
  BY KernelTells, BothConstants DEF KernelHeld
<1>4. d \in demand' /\ d \in Int
  BY KernelTells
<1>5. uvm.inactive + cache2 + uvm.free + uvm.paging <= OtherPhys + msMoves'
  BY <1>1, <1>3
<1>6. Used(uvm.inactive + cache2 + uvm.free + uvm.paging, SwapSize - uvm.swinuse)
        \in d - msMoves'..d + msMoves'
  BY <1>1, <1>2, <1>3, <1>4 DEF Used
<1>7. QED
  BY <1>1, <1>4, <1>5, <1>6 DEF OpenBsdTrue, Used

LEMMA MacKept ==
    ASSUME KernelHeld, KernelMoves, demand \subseteq Int,
           NEW xsw, NEW free \in Int, NEW free2 \in Int, free2 - free \in -1..1,
           MacBothTrue(xsw, free)
    PROVE  MacBothTrue(xsw, free2)'
<1>1. xsw.by = "xsw" /\ xsw.avail \in 0..SwapSize
  BY DEF MacBothTrue, MacXswTrue
<1>2. PICK d \in demand : Used(free, xsw.avail) \in d - msMoves..d + msMoves
  BY DEF MacBothTrue
<1>3. msMoves' = msMoves + 1 /\ msMoves \in Nat /\ OtherPhys \in Nat /\ SwapSize \in Nat
  BY KernelTells, BothConstants DEF KernelHeld
<1>4. d \in demand' /\ d \in Int
  BY KernelTells
<1>5. Used(free2, xsw.avail) \in d - msMoves'..d + msMoves'
  BY <1>1, <1>2, <1>3, <1>4 DEF Used
<1>6. QED
  BY <1>1, <1>4, <1>5 DEF MacBothTrue, MacXswTrue, Used

LEMMA KernelStep ==
    ASSUME KernelHeld, CallHeld, demand \subseteq Int, KernelMoves
    PROVE  CallHeld' /\ demand' \subseteq Int
<1> USE KernelTells, BothConstants
<1>1. demand' \subseteq Int /\ demand \subseteq demand' /\ Both!Demand' \in demand'
  BY KernelKept, DemandNext
<1>2. ASSUME plat = "linux" PROVE LinuxCall'
  <2>1. LinuxCall
    BY <1>2 DEF CallHeld
  <2>2. \A look : LinuxTrue(look) => LinuxTrue(look)'
    BY <1>1 DEF LinuxTrue, Used, Both!LinuxFree, Both!Monus
  <2>3. QED
    BY <2>1, <2>2 DEF LinuxCall
<1>3. ASSUME plat = "netbsd" PROVE NetBsdCall'
  <2>1. NetBsdCall
    BY <1>3 DEF CallHeld
  <2>2. \A uvm : NetBsdTrue(uvm) => NetBsdTrue(uvm)'
    BY <1>1 DEF NetBsdTrue, Used
  <2>3. QED
    BY <2>1, <2>2 DEF NetBsdCall
<1>4. ASSUME plat = "windows" PROVE WindowsCall'
  <2>1. WindowsCall
    BY <1>4 DEF CallHeld
  <2>2. \A status : WindowsTrue(status) => WindowsTrue(status)'
    BY <1>1 DEF WindowsTrue
  <2>3. QED
    BY <2>1, <2>2 DEF WindowsCall
<1>5. /\ \A u \in Both!Use : msPages[u] \in Nat /\ msPages'[u] \in Nat
      /\ msPages'["buffers"] - msPages["buffers"] \in -1..1
      /\ msPages'["free"] + msPages'["file"] - (msPages["free"] + msPages["file"]) \in -1..1
  BY OnePageAtMost, PagesAddUp
<1>6. /\ msPages["buffers"] \in Int /\ msPages'["buffers"] \in Int
      /\ msPages["free"] + msPages["file"] \in Int
      /\ msPages'["free"] + msPages'["file"] \in Int
  BY <1>5 DEF Both!Use
<1>7. ASSUME plat = "openbsd" PROVE OpenBsdCall'
  <2>1. OpenBsdCall
    BY <1>7 DEF CallHeld
  <2>2. \A uvm : OpenBsdTrue(uvm, msPages["buffers"]) => OpenBsdTrue(uvm, msPages["buffers"])'
    <3> SUFFICES ASSUME NEW uvm, OpenBsdTrue(uvm, msPages["buffers"])
                 PROVE  OpenBsdTrue(uvm, msPages["buffers"])'
      OBVIOUS
    <3>1. PICK b \in Int : b = msPages'["buffers"]
      BY <1>6
    <3>2. OpenBsdTrue(uvm, b)'
      BY <1>5, <1>6, <3>1, OpenBsdKept
    <3>3. QED
      BY <3>1, <3>2 DEF OpenBsdTrue
  <2>3. \A uvm : \A c \in Nat : OpenBsdTrue(uvm, c) => OpenBsdTrue(uvm, c)'
    BY OpenBsdKept
  <2>4. QED
    BY <2>1, <2>2, <2>3 DEF OpenBsdCall
<1>8. ASSUME plat = "macos" PROVE MacCall'
  <2>1. MacCall
    BY <1>8 DEF CallHeld
  <2>2. \A vm : MacVmTrue(vm) => MacVmTrue(vm)' /\ vm.free + vm.inactive \in Int
    BY DEF MacVmTrue
  <2>3. \A xsw : MacXswTrue(xsw) => MacXswTrue(xsw)'
    BY DEF MacXswTrue
  <2>4. \A xsw : MacBothTrue(xsw, msPages["free"] + msPages["file"])
                    => MacBothTrue(xsw, msPages["free"] + msPages["file"])'
    <3> SUFFICES ASSUME NEW xsw, MacBothTrue(xsw, msPages["free"] + msPages["file"])
                 PROVE  MacBothTrue(xsw, msPages["free"] + msPages["file"])'
      OBVIOUS
    <3>1. PICK f0 \in Int, f \in Int :
            f0 = msPages["free"] + msPages["file"] /\ f = msPages'["free"] + msPages'["file"]
      BY <1>6
    <3>2. f - f0 \in -1..1
      BY <1>5, <3>1 DEF Both!Use
    <3>3. MacBothTrue(xsw, f)'
      <4>1. MacBothTrue(xsw, f0)
        BY <3>1, Zenon
      <4>2. QED
        BY <3>2, <4>1, MacKept
    <3>4. QED
      BY <3>1, <3>3 DEF MacBothTrue
  <2>5. \A xsw : \A f \in Int : MacBothTrue(xsw, f) => MacBothTrue(xsw, f)'
    BY MacKept
  <2>6. QED
    BY <2>1, <2>2, <2>3, <2>4, <2>5 DEF MacCall
<1>9. QED
  BY <1>1, <1>2, <1>3, <1>4, <1>7, <1>8 DEF CallHeld

-----------------------------------------------------------------------------

\* A look tells of the kernel as it is at that moment.
LEMMA LinuxLook ==
    ASSUME KernelHeld, plat = "linux", Both!Demand \in demand, NEW look,
           look \in {Both!Meminfo, Both!Sysinfo}
    PROVE  LinuxTrue(look)
<1> USE PagesAddUp, BothConstants
<1>1. /\ look.MemFree = msPages["free"] /\ look.Buffers = msPages["buffers"]
      /\ look.Shmem = msPages["shmem"] /\ look.SwapFree = SwapSize - swapped
      /\ \/ look.by = "meminfo" /\ look.Cached = msPages["file"] + msPages["shmem"]
         \/ look.by = "sysinfo" /\ look.Cached = 0
  <2>1. CASE look = Both!Meminfo
    BY <2>1 DEF Both!Meminfo
  <2>2. CASE look = Both!Sysinfo
    BY <2>2 DEF Both!Sysinfo
  <2>3. QED
    BY <2>1, <2>2
<1>2. Both!Demand = OtherPhys - (msPages["free"] + msPages["file"] + msPages["buffers"])
                      + swapped
  BY DemandIs
<1>3. swapped \in 0..SwapSize
  BY DEF KernelHeld
<1> DEFINE free == Both!LinuxFree(look)
<1>4. free = Both!Monus(look.MemFree + look.Buffers + look.Cached, look.Shmem)
  BY DEF Both!LinuxFree
<1> HIDE DEF free
<1>5. CASE look.by = "meminfo"
  <2>0. look.MemFree + look.Buffers + look.Cached
            = msPages["free"] + msPages["file"] + msPages["buffers"] + msPages["shmem"]
    BY <1>1, <1>5
  <2>1. free = msPages["free"] + msPages["file"] + msPages["buffers"]
    BY <1>1, <1>4, <2>0 DEF Both!Monus
  <2>2. Used(free, look.SwapFree) = Both!Demand /\ free \in 0..OtherPhys
    BY <1>1, <1>2, <1>3, <2>1 DEF Used
  <2>3. QED
    BY <1>1, <1>3, <1>5, <2>2 DEF LinuxTrue, free
<1>6. CASE look.by = "sysinfo"
  <2>1. /\ free \in Nat
        /\ free <= msPages["free"] + msPages["buffers"]
    BY <1>1, <1>4, <1>6 DEF Both!Monus
  <2>2. Used(free, look.SwapFree) >= Both!Demand /\ free \in 0..OtherPhys
    BY <1>1, <1>2, <1>3, <2>1 DEF Used
  <2>3. QED
    BY <1>1, <1>3, <1>6, <2>2 DEF LinuxTrue, free
<1>7. QED
  BY <1>1, <1>5, <1>6

LEMMA NetBsdLook ==
    ASSUME KernelHeld, plat = "netbsd", Both!Demand \in demand
    PROVE  NetBsdTrue(Both!Uvmexp2)
<1> USE PagesAddUp, BothConstants
<1>1. swapped \in 0..SwapSize /\ Both!Demand = OtherPhys - msPages["free"] + swapped
  BY DemandIs DEF KernelHeld
<1>2. Used(msPages["free"], SwapSize - swapped) = Both!Demand
  BY <1>1 DEF Used
<1>3. msPages["free"] \in 0..OtherPhys
  OBVIOUS
<1>4. QED
  BY <1>1, <1>2, <1>3 DEF NetBsdTrue, Both!Uvmexp2

LEMMA OpenBsdLook ==
    ASSUME KernelHeld, plat = "openbsd", Both!Demand \in demand
    PROVE  OpenBsdTrue(Both!Uvmexp, msPages["buffers"])
<1> USE PagesAddUp, BothConstants
<1>1. /\ swapped \in 0..SwapSize /\ msMoves \in Nat /\ Both!Demand \in Int
      /\ Both!Demand = OtherPhys - (msPages["free"] + msPages["file"] + msPages["buffers"]
                                      + msPages["paging"]) + swapped
  BY DemandIs DEF KernelHeld
<1>2. Used(msPages["file"] + msPages["buffers"] + msPages["free"] + msPages["paging"],
           SwapSize - swapped)
        \in Both!Demand - msMoves..Both!Demand + msMoves
  BY <1>1 DEF Used
<1>3. msPages["file"] + msPages["buffers"] + msPages["free"] + msPages["paging"]
        <= OtherPhys + msMoves
  BY <1>1
<1>4. QED
  BY <1>1, <1>2, <1>3 DEF OpenBsdTrue, Both!Uvmexp

LEMMA MacLooks ==
    ASSUME KernelHeld, plat = "macos", Both!Demand \in demand
    PROVE  /\ MacVmTrue(Both!VmStatistics)
           /\ Both!VmStatistics.free + Both!VmStatistics.inactive
                = msPages["free"] + msPages["file"]
           /\ MacBothTrue(Both!XswUsage, msPages["free"] + msPages["file"])
<1> USE PagesAddUp, BothConstants
<1>1. /\ swapped \in 0..SwapSize /\ msMoves \in Nat /\ Both!Demand \in Int
      /\ Both!Demand = OtherPhys - (msPages["free"] + msPages["file"]) + swapped
  BY DemandIs DEF KernelHeld
<1>2. /\ Both!VmStatistics.by = "vm"
      /\ Both!VmStatistics.free = msPages["free"]
      /\ Both!VmStatistics.inactive = msPages["file"]
  BY DEF Both!VmStatistics
<1>3. MacVmTrue(Both!VmStatistics)
  BY <1>2 DEF MacVmTrue
<1>4. Used(msPages["free"] + msPages["file"], SwapSize - swapped)
        \in Both!Demand - msMoves..Both!Demand + msMoves
  BY <1>1 DEF Used
<1>5. Both!XswUsage.by = "xsw" /\ Both!XswUsage.avail = SwapSize - swapped
  BY DEF Both!XswUsage
<1>6. SwapSize - swapped \in 0..SwapSize
  BY <1>1
<1>7. MacBothTrue(Both!XswUsage, msPages["free"] + msPages["file"])
  BY <1>4, <1>5, <1>6 DEF MacBothTrue, MacXswTrue
<1>8. QED
  BY <1>2, <1>3, <1>7

LEMMA WindowsLook ==
    ASSUME KernelHeld, plat = "windows", Both!Demand \in demand
    PROVE  WindowsTrue(Both!MemoryStatus)
<1>1. limit - (limit - commit) = Both!Demand
  BY DemandIs DEF KernelHeld
<1>2. /\ msPages["free"] + msPages["file"] \in 0..OtherPhys
      /\ limit \in Nat /\ limit - commit \in Nat
  BY PagesAddUp, BothConstants DEF KernelHeld
<1>3. QED
  BY <1>2, <1>1 DEF WindowsTrue, Both!MemoryStatus

LEMMA LookShows ==
    /\ \A call : call \in {"meminfo", "sysinfo"} =>
            Both!Shown(call) \in {Both!Meminfo, Both!Sysinfo}
    /\ Both!Shown("uvmexp2") = Both!Uvmexp2
    /\ Both!Shown("uvmexp") = Both!Uvmexp
    /\ Both!Shown("bcachestat") = Both!Bcachestats
    /\ Both!Shown("vm") = Both!VmStatistics
    /\ Both!Shown("xsw") = Both!XswUsage
    /\ Both!Shown("status") = Both!MemoryStatus
BY DEF Both!Shown

LEMMA AppendToOne ==
    ASSUME NEW b, NEW c
    PROVE  Append(<<b>>, c) = <<b, c>>
<1> DEFINE S == {b, c}
<1>1. <<b>> \in Seq(S) /\ <<b, c>> \in Seq(S) /\ c \in S
  OBVIOUS
<1>2. PICK s : s = Append(<<b>>, c)
  OBVIOUS
<1>3. PICK t : t = <<b, c>>
  OBVIOUS
<1>4. s \in Seq(S) /\ Len(s) = 2 /\ s[1] = b /\ s[2] = c
  BY <1>1, <1>2
<1>5. t \in Seq(S) /\ Len(t) = 2 /\ t[1] = b /\ t[2] = c
  BY <1>1, <1>3
<1>6. \A i \in 1..Len(s) : s[i] = t[i]
  BY <1>4, <1>5
<1> HIDE DEF S
<1>7. s = t
  BY <1>4, <1>5, <1>6, SeqEqual
<1>8. QED
  BY <1>2, <1>3, <1>7

LEMMA LookStep ==
    ASSUME KernelHeld, CallHeld, Both!Look
    PROVE  CallHeld'
<1>1. /\ todo # << >> /\ todo' = Tail(todo)
      /\ looks' = Append(looks, Both!Shown(Head(todo)))
      /\ UNCHANGED <<plat, msPages, swapped, limit, commit, op, msRet, msMoves, demand>>
  BY DEF Both!Look, Both!kernel
<1>2. op # "idle" /\ op \in {"memory", "swap", "both"} /\ msRet = Both!Nothing
      /\ Both!Demand \in demand
  BY <1>1 DEF CallHeld
<1>3. Both!Demand' = Both!Demand
  BY <1>1 DEF Both!Demand, Both!FreeUse
<1>4. \A c : /\ Head(<<c>>) = c /\ Tail(<<c>>) = << >>
             /\ Append(<< >>, c) = <<c>>
  OBVIOUS
<1>5. \A b, c : /\ Head(<<b, c>>) = b /\ Tail(<<b, c>>) = <<c>>
                /\ Append(<<b>>, c) = <<b, c>>
  <2>1. \A b, c : Head(<<b, c>>) = b /\ Tail(<<b, c>>) = <<c>>
    OBVIOUS
  <2>2. \A b, c : Append(<<b>>, c) = <<b, c>>
    BY AppendToOne, Zenon
  <2>3. QED
    BY <2>1, <2>2, Zenon
<1>6. ASSUME plat = "linux" PROVE LinuxCall'
  <2>1. todo \in {<<"meminfo">>, <<"sysinfo">>} /\ looks = << >>
    BY <1>1, <1>2, <1>6 DEF CallHeld, LinuxCall
  <2>2. PICK look : look = Both!Shown(Head(todo))
    OBVIOUS
  <2>3. todo' = << >> /\ looks' = <<look>> /\ look \in {Both!Meminfo, Both!Sysinfo}
    BY <1>1, <1>4, <2>1, <2>2, LookShows
  <2>4. LinuxTrue(look)
    BY <1>2, <1>6, <2>3, LinuxLook
  <2>5. LinuxTrue(look)'
    BY <1>1, <2>4 DEF LinuxTrue, Used, Both!LinuxFree, Both!Monus
  <2>6. QED
    BY <2>3, <2>5 DEF LinuxCall
<1>7. ASSUME plat = "netbsd" PROVE NetBsdCall'
  <2>1. todo = <<"uvmexp2">> /\ looks = << >>
    BY <1>1, <1>2, <1>7 DEF CallHeld, NetBsdCall
  <2>2. PICK look : look = Both!Uvmexp2
    OBVIOUS
  <2>3. todo' = << >> /\ looks' = <<look>>
    BY <1>1, <1>4, <2>1, <2>2, LookShows
  <2>4. NetBsdTrue(look)'
    BY <1>1, <1>2, <1>7, <2>2, NetBsdLook DEF NetBsdTrue, Used
  <2>5. QED
    BY <2>3, <2>4 DEF NetBsdCall
<1>8. ASSUME plat = "windows" PROVE WindowsCall'
  <2>1. todo = <<"status">> /\ looks = << >>
    BY <1>1, <1>2, <1>8 DEF CallHeld, WindowsCall
  <2>2. PICK look : look = Both!MemoryStatus
    OBVIOUS
  <2>3. todo' = << >> /\ looks' = <<look>>
    BY <1>1, <1>4, <2>1, <2>2, LookShows
  <2>4. WindowsTrue(look)'
    BY <1>1, <1>2, <1>8, <2>2, WindowsLook DEF WindowsTrue
  <2>5. QED
    BY <2>3, <2>4 DEF WindowsCall
<1>9. ASSUME plat = "openbsd" PROVE OpenBsdCall'
  <2>1. CASE todo = <<"uvmexp", "bcachestat">> /\ looks = << >>
    <3>1. PICK look : look = Both!Uvmexp
      OBVIOUS
    <3>2. todo' = <<"bcachestat">> /\ looks' = <<look>>
      BY <1>1, <1>4, <1>5, <2>1, <3>1, LookShows
    <3>3. OpenBsdTrue(look, msPages["buffers"])'
      BY <1>1, <1>2, <1>9, <3>1, OpenBsdLook DEF OpenBsdTrue, Used
    <3>4. QED
      BY <3>2, <3>3 DEF OpenBsdCall
  <2>2. ASSUME NEW uvm, todo = <<"bcachestat">>, looks = <<uvm>>,
               OpenBsdTrue(uvm, msPages["buffers"])
        PROVE  OpenBsdCall'
    <3>1. PICK look : look = Both!Bcachestats
      OBVIOUS
    <3>2. todo' = << >> /\ looks' = <<uvm, look>>
      BY <1>1, <1>4, <1>5, <2>2, <3>1, LookShows
    <3>3. look.by = "bcachestat" /\ look.cache = msPages["buffers"] /\ look.cache \in Nat
      BY <3>1, PagesAddUp DEF Both!Bcachestats
    <3>4. OpenBsdTrue(uvm, look.cache)'
      BY <1>1, <2>2, <3>3 DEF OpenBsdTrue, Used
    <3>5. QED
      BY <3>2, <3>3, <3>4 DEF OpenBsdCall
  <2>3. QED
    BY <1>1, <1>2, <1>9, <2>1, <2>2 DEF CallHeld, OpenBsdCall
<1>10. ASSUME plat = "macos" PROVE MacCall'
  <2> DEFINE free == msPages["free"] + msPages["file"]
  <2>1. PICK vm : vm = Both!VmStatistics
    OBVIOUS
  <2>2. PICK xsw : xsw = Both!XswUsage
    OBVIOUS
  <2>3. MacVmTrue(vm) /\ vm.free + vm.inactive = free /\ MacBothTrue(xsw, free)
    BY <1>2, <1>10, <2>1, <2>2, MacLooks
  <2>4. /\ MacVmTrue(vm)' /\ MacXswTrue(xsw)' /\ MacBothTrue(xsw, free)'
    BY <1>1, <2>3 DEF MacVmTrue, MacXswTrue, MacBothTrue, Used
  <2>5. CASE op = "memory" /\ todo = <<"vm">> /\ looks = << >>
    <3>1. todo' = << >> /\ looks' = <<vm>> /\ op' = "memory"
      BY <1>1, <1>4, <2>1, <2>5, LookShows
    <3>2. QED
      BY <2>4, <3>1 DEF MacCall
  <2>6. CASE op = "swap" /\ todo = <<"xsw">> /\ looks = << >>
    <3>1. todo' = << >> /\ looks' = <<xsw>> /\ op' = "swap"
      BY <1>1, <1>4, <2>2, <2>6, LookShows
    <3>2. QED
      BY <2>4, <3>1 DEF MacCall
  <2>7. CASE op = "both" /\ todo = <<"xsw", "vm">> /\ looks = << >>
    <3>1. todo' = <<"vm">> /\ looks' = <<xsw>> /\ op' = "both"
      BY <1>1, <1>4, <1>5, <2>2, <2>7, LookShows
    <3>2. QED
      BY <2>4, <3>1 DEF MacCall
  <2>8. ASSUME op = "both", todo = <<"vm">>, NEW x, looks = <<x>>, MacBothTrue(x, free)
        PROVE  MacCall'
    <3>1. todo' = << >> /\ looks' = <<x, vm>> /\ op' = "both"
      BY <1>1, <1>4, <1>5, <2>1, <2>8, LookShows
    <3>2. MacBothTrue(x, free)'
      BY <1>1, <2>8 DEF MacBothTrue, MacXswTrue, Used
    <3>3. MacBothTrue(x, vm.free + vm.inactive)'
      BY <1>1, <2>3, <3>2 DEF MacBothTrue, MacXswTrue
    <3>4. QED
      BY <2>4, <3>1, <3>3 DEF MacCall
  <2>9. QED
    BY <1>1, <1>2, <1>10, <2>5, <2>6, <2>7, <2>8 DEF CallHeld, MacCall
<1>11. QED
  BY <1>1, <1>2, <1>3, <1>6, <1>7, <1>8, <1>9, <1>10 DEF CallHeld

\* A call starts from nothing.
LEMMA CallStep ==
    ASSUME KernelHeld, CallHeld, NEW o \in {"memory", "swap", "both"}, Both!Call(o)
    PROVE  CallHeld' /\ demand' \subseteq Int /\ msMoves' = 0 /\ msRet' = Both!Nothing
<1>1. /\ op = "idle" /\ op' = o /\ todo' = Both!Calls(plat, o)
      /\ msRet' = Both!Nothing /\ msMoves' = 0 /\ demand' = {Both!Demand}
      /\ UNCHANGED <<plat, msPages, swapped, limit, commit, looks>>
  BY DEF Both!Call, Both!kernel
<1>2. looks' = << >>
  BY <1>1 DEF CallHeld
<1>3. Both!Demand' = Both!Demand /\ Both!Demand \in Int
  BY <1>1, DemandIs DEF Both!Demand, Both!FreeUse
<1>4. plat = "linux" => LinuxCall'
  BY <1>1, <1>2 DEF LinuxCall, Both!Calls
<1>5. plat = "netbsd" => NetBsdCall'
  BY <1>1, <1>2 DEF NetBsdCall, Both!Calls
<1>6. plat = "openbsd" => OpenBsdCall'
  BY <1>1, <1>2 DEF OpenBsdCall, Both!Calls
<1>7. plat = "macos" => MacCall'
  BY <1>1, <1>2 DEF MacCall, Both!Calls
<1>8. plat = "windows" => WindowsCall'
  BY <1>1, <1>2 DEF WindowsCall, Both!Calls
<1>9. QED
  BY <1>1, <1>3, <1>4, <1>5, <1>6, <1>7, <1>8 DEF CallHeld

\* Only Linux falls back, and only before it has shown anything.
LEMMA FallBackStep ==
    ASSUME KernelHeld, CallHeld, Both!FallBack
    PROVE  CallHeld'
<1>1. /\ todo = <<"meminfo">> /\ todo' = <<"sysinfo">>
      /\ UNCHANGED <<plat, msPages, swapped, limit, commit, op, looks, msRet, msMoves, demand>>
  BY DEF Both!FallBack, Both!kernel
<1>2. op # "idle" /\ op \in {"memory", "swap", "both"} /\ msRet = Both!Nothing
      /\ Both!Demand \in demand
  BY <1>1 DEF CallHeld
<1>3. Both!Demand' = Both!Demand
  BY <1>1 DEF Both!Demand, Both!FreeUse
<1>4. todo # << >> /\ todo # <<"vm">> /\ todo # <<"xsw">> /\ todo # <<"xsw", "vm">>
      /\ todo # <<"uvmexp2">> /\ todo # <<"status">> /\ todo # <<"bcachestat">>
      /\ todo # <<"uvmexp", "bcachestat">>
  BY <1>1
<1>5. plat = "linux"
  BY <1>2, <1>4 DEF CallHeld, KernelHeld, NetBsdCall, OpenBsdCall, MacCall, WindowsCall
<1>6. LinuxCall /\ looks = << >>
  BY <1>1, <1>2, <1>4, <1>5 DEF CallHeld, LinuxCall
<1>7. LinuxCall'
  BY <1>1, <1>6 DEF LinuxCall
<1>8. QED
  BY <1>1, <1>2, <1>3, <1>5, <1>7 DEF CallHeld

\* What each system makes of its looks, as FreeWithinTotal and DemandAccounted
\* will speak of it.
Sources == {looks[i].by : i \in DOMAIN looks}

AnswerTrue ==
    /\ op # "swap" =>
        /\ Both!MemoryFree \in Nat
        /\ Both!MemoryFree <= OtherPhys + IF Both!OneLook(Sources) THEN 0 ELSE msMoves
    /\ op # "memory" =>
        /\ Both!Swap \in Both!Amounts
        /\ Both!Swap.free <= Both!Swap.total
    /\ op = "both" /\ plat # "windows" =>
        /\ Both!Swap.total = SwapSize
        /\ \E d \in demand :
            IF Sources = {"sysinfo"} THEN Used(Both!MemoryFree, Both!Swap.free) >= d
            ELSE IF Both!OneLook(Sources) THEN Used(Both!MemoryFree, Both!Swap.free) = d
            ELSE Used(Both!MemoryFree, Both!Swap.free) \in d - msMoves..d + msMoves
    /\ op = "both" /\ plat = "windows" =>
        LET used == OtherPhys - Both!MemoryFree + Both!Swap.total - Both!Swap.free
        IN  \E d \in demand :
                /\ used > d => Both!Swap.free = Both!Swap.total
                /\ used < d => Both!Swap.free = 0

LEMMA OneSource ==
    ASSUME NEW look, looks = <<look>>
    PROVE  /\ Sources = {look.by} /\ Both!OneLook(Sources)
           /\ Both!First = look /\ Both!LastLook = look
<1>1. DOMAIN looks = {1} /\ looks[1] = look /\ Len(looks) = 1
  OBVIOUS
<1>2. Sources = {look.by}
  BY <1>1 DEF Sources
<1>3. QED
  BY <1>1, <1>2 DEF Both!First, Both!LastLook, Both!OneLook

LEMMA TwoSources ==
    ASSUME NEW a, NEW b, looks = <<a, b>>, a.by # b.by
    PROVE  /\ Sources = {a.by, b.by} /\ ~Both!OneLook(Sources)
           /\ Both!First = a /\ Both!LastLook = b
<1>1. DOMAIN looks = {1, 2} /\ looks[1] = a /\ looks[2] = b /\ Len(looks) = 2
  OBVIOUS
<1>2. Sources = {a.by, b.by}
  BY <1>1 DEF Sources
<1>3. QED
  BY <1>1, <1>2 DEF Both!First, Both!LastLook, Both!OneLook

LEMMA LinuxAnswer ==
    ASSUME KernelHeld, CallHeld, op # "idle", todo = << >>, plat = "linux"
    PROVE  AnswerTrue
<1> USE BothConstants
<1>1. PICK look : looks = <<look>> /\ LinuxTrue(look)
  BY DEF CallHeld, LinuxCall
<1>2. Sources = {look.by} /\ Both!OneLook(Sources)
  BY <1>1, OneSource
<1>3. Both!MemoryFree = Both!LinuxFree(look)
  BY <1>1, OneSource DEF Both!MemoryFree
<1>4. Both!Swap = [total |-> SwapSize, free |-> look.SwapFree]
  BY <1>1, OneSource DEF Both!Swap, Both!LinuxSwap
<1>5. Sources = {"sysinfo"} <=> look.by = "sysinfo"
  BY <1>2
<1>6. QED
  BY <1>1, <1>2, <1>3, <1>4, <1>5 DEF LinuxTrue, AnswerTrue, Both!Amounts

LEMMA BsdSwapIs ==
    ASSUME NEW uvm, uvm.sw = SwapSize, uvm.swinuse \in 0..SwapSize
    PROVE  /\ Both!BsdSwap(uvm) = [total |-> SwapSize, free |-> SwapSize - uvm.swinuse]
           /\ Both!BsdSwap(uvm) \in Both!Amounts
           /\ SwapSize - uvm.swinuse <= SwapSize
<1>1. Both!Monus(uvm.sw, uvm.swinuse) = SwapSize - uvm.swinuse
  BY BothConstants DEF Both!Monus
<1>2. SwapSize - uvm.swinuse \in Nat /\ SwapSize - uvm.swinuse <= SwapSize /\ SwapSize \in Nat
  BY BothConstants
<1>3. QED
  BY <1>1, <1>2 DEF Both!BsdSwap, Both!Amounts

LEMMA NetBsdAnswer ==
    ASSUME KernelHeld, CallHeld, op # "idle", todo = << >>, plat = "netbsd"
    PROVE  AnswerTrue
<1> USE BothConstants
<1>1. PICK uvm : looks = <<uvm>> /\ NetBsdTrue(uvm)
  BY DEF CallHeld, NetBsdCall
<1>2. Sources = {uvm.by} /\ Both!OneLook(Sources) /\ Sources # {"sysinfo"}
  BY <1>1, OneSource DEF NetBsdTrue
<1>3. Both!MemoryFree = uvm.free
  BY <1>1, OneSource DEF Both!MemoryFree, Both!NetBsdFree
<1>4. Both!Swap = Both!BsdSwap(uvm)
  BY <1>1, OneSource DEF Both!Swap
<1>5. /\ Both!Swap = [total |-> SwapSize, free |-> SwapSize - uvm.swinuse]
      /\ Both!Swap \in Both!Amounts
      /\ SwapSize - uvm.swinuse <= SwapSize
  BY <1>1, <1>4, BsdSwapIs DEF NetBsdTrue
<1>6. Both!Swap.total = SwapSize /\ Both!Swap.free = SwapSize - uvm.swinuse
  BY <1>5
<1>7. QED
  BY <1>1, <1>2, <1>3, <1>5, <1>6 DEF NetBsdTrue, AnswerTrue

LEMMA OpenBsdAnswer ==
    ASSUME KernelHeld, CallHeld, op # "idle", todo = << >>, plat = "openbsd"
    PROVE  AnswerTrue
<1> USE BothConstants
<1>1. PICK uvm, bcache : /\ looks = <<uvm, bcache>>
                         /\ bcache.by = "bcachestat" /\ bcache.cache \in Nat
                         /\ OpenBsdTrue(uvm, bcache.cache)
  BY DEF CallHeld, OpenBsdCall
<1>2. uvm.by = "uvmexp" /\ uvm.free \in Nat /\ uvm.inactive \in Nat /\ uvm.paging \in Nat
  BY <1>1 DEF OpenBsdTrue
<1>3. ~Both!OneLook(Sources) /\ Sources # {"sysinfo"} /\ Both!First = uvm
      /\ Both!LastLook = bcache
  BY <1>1, <1>2, TwoSources
<1>4. Both!MemoryFree = uvm.inactive + bcache.cache + uvm.free + uvm.paging
  BY <1>3 DEF Both!MemoryFree, Both!OpenBsdFree
<1>5. Both!Swap = Both!BsdSwap(uvm)
  BY <1>3 DEF Both!Swap
<1>6. /\ Both!Swap = [total |-> SwapSize, free |-> SwapSize - uvm.swinuse]
      /\ Both!Swap \in Both!Amounts
      /\ SwapSize - uvm.swinuse <= SwapSize
  BY <1>1, <1>5, BsdSwapIs DEF OpenBsdTrue
<1>7. Both!Swap.total = SwapSize /\ Both!Swap.free = SwapSize - uvm.swinuse
  BY <1>6
<1>8. Both!MemoryFree \in Nat
  BY <1>1, <1>2, <1>4
<1>9. ~Both!OneLook(Sources)
  BY <1>3
<1>10. QED
  BY <1>1, <1>3, <1>4, <1>6, <1>7, <1>8, <1>9 DEF OpenBsdTrue, AnswerTrue

LEMMA MacAnswer ==
    ASSUME KernelHeld, CallHeld, op # "idle", todo = << >>, plat = "macos"
    PROVE  AnswerTrue
<1> USE BothConstants
<1>1. MacCall
  BY DEF CallHeld
<1>2. \A xsw : MacXswTrue(xsw) =>
        /\ Both!MacSwap(xsw) = [total |-> SwapSize, free |-> xsw.avail]
        /\ Both!MacSwap(xsw) \in Both!Amounts
        /\ xsw.avail <= SwapSize /\ xsw.by = "xsw"
  BY DEF MacXswTrue, Both!MacSwap, Both!Amounts
<1>3. \A vm : MacVmTrue(vm) =>
        /\ Both!MacFree(vm) = vm.free + vm.inactive /\ Both!MacFree(vm) \in Nat
        /\ Both!MacFree(vm) <= OtherPhys /\ vm.by = "vm"
  BY DEF MacVmTrue, Both!MacFree
<1>4. Both!MemoryFree = Both!MacFree(Both!LastLook) /\ Both!Swap = Both!MacSwap(Both!First)
  BY DEF Both!MemoryFree, Both!Swap
<1>5. msMoves \in Nat
  BY DEF KernelHeld
<1>6. CASE op = "memory"
  <2>1. PICK vm : looks = <<vm>> /\ MacVmTrue(vm)
    BY <1>1, <1>6 DEF MacCall
  <2>2. Both!OneLook(Sources) /\ Both!MemoryFree = Both!MacFree(vm)
    BY <1>4, <2>1, OneSource
  <2>3. QED
    BY <1>3, <1>6, <2>1, <2>2 DEF AnswerTrue
<1>7. CASE op = "swap"
  <2>1. PICK xsw : looks = <<xsw>> /\ MacXswTrue(xsw)
    BY <1>1, <1>7 DEF MacCall
  <2>2. Both!Swap = Both!MacSwap(xsw)
    BY <1>4, <2>1, OneSource
  <2>3. QED
    BY <1>2, <1>7, <2>1, <2>2 DEF AnswerTrue
<1>8. CASE op = "both"
  <2>1. PICK xsw, vm : looks = <<xsw, vm>> /\ MacVmTrue(vm)
                       /\ MacBothTrue(xsw, vm.free + vm.inactive)
    BY <1>1, <1>8 DEF MacCall
  <2>2. MacXswTrue(xsw)
    BY <2>1 DEF MacBothTrue
  <2>3. ~Both!OneLook(Sources) /\ Both!First = xsw /\ Both!LastLook = vm
    BY <1>2, <1>3, <2>1, <2>2, TwoSources
  <2>4. Sources # {"sysinfo"} /\ ~Both!OneLook(Sources)
    BY <2>3 DEF Both!OneLook
  <2>5. /\ Both!MemoryFree = vm.free + vm.inactive /\ Both!MemoryFree \in Nat
        /\ Both!MemoryFree <= OtherPhys + msMoves
    BY <1>3, <1>4, <1>5, <2>1, <2>3
  <2>6. /\ Both!Swap \in Both!Amounts
        /\ Both!Swap.total = SwapSize /\ Both!Swap.free = xsw.avail
        /\ xsw.avail <= SwapSize
    BY <1>2, <1>4, <2>2, <2>3
  <2>7. \E d \in demand : Used(Both!MemoryFree, Both!Swap.free) \in d - msMoves..d + msMoves
    BY <2>1, <2>5, <2>6 DEF MacBothTrue
  <2>8. QED
    BY <2>4, <2>5, <2>6, <2>7 DEF AnswerTrue
<1>9. QED
  BY <1>6, <1>7, <1>8 DEF CallHeld

LEMMA WindowsAnswer ==
    ASSUME KernelHeld, CallHeld, op # "idle", todo = << >>, plat = "windows"
    PROVE  AnswerTrue
<1> USE BothConstants
<1>1. PICK status : looks = <<status>> /\ WindowsTrue(status)
  BY DEF CallHeld, WindowsCall
<1>2. Both!OneLook(Sources) /\ Both!First = status
  BY <1>1, OneSource
<1>3. Both!MemoryFree = status.avail_phys
  BY <1>2 DEF Both!MemoryFree, Both!WindowsFree
<1>4. Both!Swap = Both!WindowsSwap(status)
  BY <1>2 DEF Both!Swap
<1> DEFINE total == Both!Monus(status.total_pagefile, OtherPhys)
           free  == Both!Monus(status.avail_pagefile, status.avail_phys)
<1>5. total \in Nat /\ free \in Nat
  BY <1>1 DEF WindowsTrue, Both!Monus
<1>6. Both!WindowsSwap(status) = [total |-> total, free |-> Both!Least(total, free)]
  BY DEF Both!WindowsSwap
<1> HIDE DEF total, free
<1>7. Both!Least(total, free) \in Nat /\ Both!Least(total, free) <= total
  BY <1>5 DEF Both!Least
<1>8. Both!Swap \in Both!Amounts /\ Both!Swap.free <= Both!Swap.total
  BY <1>4, <1>5, <1>6, <1>7 DEF Both!Amounts
<1>9. PICK d \in demand : d = status.total_pagefile - status.avail_pagefile
  BY <1>1 DEF WindowsTrue
<1>10. Both!Swap.total = total /\ Both!Swap.free = Both!Least(total, free)
  BY <1>4, <1>6
<1>11. /\ OtherPhys - status.avail_phys + total - Both!Least(total, free) > d
            => Both!Least(total, free) = total
       /\ OtherPhys - status.avail_phys + total - Both!Least(total, free) < d
            => Both!Least(total, free) = 0
  <2>1. /\ total = (IF status.total_pagefile > OtherPhys
                    THEN status.total_pagefile - OtherPhys ELSE 0)
        /\ free = (IF status.avail_pagefile > status.avail_phys
                   THEN status.avail_pagefile - status.avail_phys ELSE 0)
    BY DEF total, free, Both!Monus
  <2>2. /\ status.total_pagefile \in Nat /\ status.avail_pagefile \in Nat
        /\ status.avail_phys \in Nat /\ status.avail_phys <= OtherPhys
    BY <1>1 DEF WindowsTrue
  <2>3. PICK n \in Nat, m \in Nat, a \in Nat :
            /\ n = status.total_pagefile /\ m = status.avail_pagefile
            /\ a = status.avail_phys /\ a <= OtherPhys
    BY <2>2
  <2>4. /\ total = (IF n > OtherPhys THEN n - OtherPhys ELSE 0)
        /\ free = (IF m > a THEN m - a ELSE 0) /\ d = n - m /\ a <= OtherPhys
    BY <1>9, <2>1, <2>3
  <2>5. /\ OtherPhys - a + total - Both!Least(total, free) > n - m
                => Both!Least(total, free) = total
        /\ OtherPhys - a + total - Both!Least(total, free) < n - m
                => Both!Least(total, free) = 0
    <3>0. /\ total < free => Both!Least(total, free) = total
          /\ total >= free => Both!Least(total, free) = free
      BY <1>5 DEF Both!Least
    <3>1. CASE total < free
      BY <2>4, <3>1, <3>0
    <3>2. CASE total >= free /\ m > a
      BY <2>4, <3>2, <3>0
    <3>3. CASE total >= free /\ m <= a
      BY <2>4, <3>3, <3>0
    <3>4. QED
      BY <1>5, <3>1, <3>2, <3>3
  <2>6. QED
    BY <2>3, <2>4, <2>5
<1>12. \E e \in demand :
        /\ OtherPhys - Both!MemoryFree + Both!Swap.total - Both!Swap.free > e
            => Both!Swap.free = Both!Swap.total
        /\ OtherPhys - Both!MemoryFree + Both!Swap.total - Both!Swap.free < e
            => Both!Swap.free = 0
  BY <1>3, <1>9, <1>10, <1>11
<1>13. QED
  BY <1>1, <1>2, <1>3, <1>8, <1>12 DEF WindowsTrue, AnswerTrue

LEMMA ReturnStep ==
    ASSUME KernelHeld, CallHeld, demand \subseteq Int, Both!Return
    PROVE  CallHeld' /\ FreeWithinTotal' /\ DemandAccounted'
<1> USE BothConstants
<1>1. AnswerTrue
  BY LinuxAnswer, NetBsdAnswer, OpenBsdAnswer, MacAnswer, WindowsAnswer
     DEF Both!Return, KernelHeld
<1>2. /\ op \in {"memory", "swap", "both"} /\ todo = << >>
      /\ op' = "idle" /\ looks' = << >>
      /\ UNCHANGED <<plat, todo, msMoves, demand>>
  BY DEF Both!Return, CallHeld, Both!kernel
<1> DEFINE mem == IF op = "swap" THEN Both!Nothing.memory
                  ELSE [total |-> OtherPhys, free |-> Both!MemoryFree]
           swp == IF op = "memory" THEN Both!Nothing.swap ELSE Both!Swap
<1>3. msRet' = [tag |-> "ok", op |-> op, by |-> Sources, memory |-> mem, swap |-> swp]
  BY DEF Both!Return, Sources
<1>4. Both!Nothing.memory = [total |-> 0, free |-> 0]
      /\ Both!Nothing.swap = [total |-> 0, free |-> 0]
  BY DEF Both!Nothing
<1>5. mem \in Both!Amounts /\ swp \in Both!Amounts
  BY <1>1, <1>2, <1>4 DEF AnswerTrue, Both!Amounts
<1>6. op # "swap" => mem.total = OtherPhys /\ mem.free = Both!MemoryFree
  OBVIOUS
<1>7. op # "memory" => swp = Both!Swap
  OBVIOUS
<1> HIDE DEF mem, swp
<1>8. /\ msRet'.tag = "ok" /\ msRet'.op = op /\ msRet'.by = Sources
      /\ msRet'.memory = mem /\ msRet'.swap = swp
  BY <1>3
<1>9. msMoves \in Nat
  BY DEF KernelHeld
<1>10. FreeWithinTotal'
  <2>1. op # "memory" => swp.free <= swp.total
    BY <1>1, <1>7 DEF AnswerTrue
  <2>2. op # "swap" =>
            mem.free <= mem.total + IF Both!OneLook(msRet'.by) THEN 0 ELSE msMoves'
    BY <1>1, <1>2, <1>6, <1>8 DEF AnswerTrue
  <2>3. QED
    BY <1>5, <1>8, <2>1, <2>2 DEF FreeWithinTotal, Both!FreeWithinTotal, Both!Returned
<1>11. DemandAccounted'
  <2>1. CASE op = "both" /\ plat # "windows"
    <3>1. PICK d \in demand :
            IF Sources = {"sysinfo"} THEN Used(Both!MemoryFree, Both!Swap.free) >= d
            ELSE IF Both!OneLook(Sources) THEN Used(Both!MemoryFree, Both!Swap.free) = d
            ELSE Used(Both!MemoryFree, Both!Swap.free) \in d - msMoves..d + msMoves
      BY <1>1, <2>1 DEF AnswerTrue
    <3>2. msRet'.memory.total - msRet'.memory.free + msRet'.swap.total - msRet'.swap.free
            = Used(Both!MemoryFree, Both!Swap.free)
      BY <1>1, <1>6, <1>7, <1>8, <2>1 DEF AnswerTrue, Used
    <3> DEFINE used == msRet'.memory.total - msRet'.memory.free
                         + msRet'.swap.total - msRet'.swap.free
    <3>3. /\ d \in demand' /\ msMoves' = msMoves /\ plat' # "windows"
          /\ IF msRet'.by = {"sysinfo"} THEN used >= d
             ELSE IF Both!OneLook(msRet'.by) THEN used = d
             ELSE used \in d - msMoves..d + msMoves
      BY <1>2, <1>8, <2>1, <3>1, <3>2
    <3>4. QED
      BY <3>3 DEF DemandAccounted, Both!DemandAccounted
  <2>2. CASE op # "both"
    BY <1>2, <1>8, <2>2 DEF DemandAccounted, Both!DemandAccounted, Both!Returned
  <2>3. CASE op = "both" /\ plat = "windows"
    <3> DEFINE shown == OtherPhys - Both!MemoryFree + Both!Swap.total - Both!Swap.free
               used == msRet'.memory.total - msRet'.memory.free
                         + msRet'.swap.total - msRet'.swap.free
    <3>1. PICK d \in demand : /\ shown > d => Both!Swap.free = Both!Swap.total
                              /\ shown < d => Both!Swap.free = 0
      BY <1>1, <2>3 DEF AnswerTrue
    <3>2. used = shown /\ msRet'.swap = Both!Swap
      BY <1>6, <1>7, <1>8, <2>3
    <3>3. /\ d \in demand' /\ plat' = "windows"
          /\ used > d => msRet'.swap.free = msRet'.swap.total
          /\ used < d => msRet'.swap.free = 0
      BY <1>2, <2>3, <3>1, <3>2
    <3>4. QED
      BY <3>3 DEF DemandAccounted, Both!DemandAccounted
  <2>4. QED
    BY <2>1, <2>2, <2>3
<1>12. CallHeld'
  BY <1>2 DEF CallHeld
<1>13. QED
  BY <1>10, <1>11, <1>12

\* Nothing is returned, or an error.
LEMMA NothingHonest ==
    (\/ msRet = Both!Nothing
     \/ msRet = [Both!Nothing EXCEPT !.tag = "err"]) => FreeWithinTotal /\ DemandAccounted
<1> SUFFICES ASSUME msRet = Both!Nothing \/ msRet = [Both!Nothing EXCEPT !.tag = "err"]
             PROVE  FreeWithinTotal /\ DemandAccounted
  OBVIOUS
<1>1. /\ msRet.tag # "ok"
      /\ msRet.memory = [total |-> 0, free |-> 0] /\ msRet.swap = [total |-> 0, free |-> 0]
  BY DEF Both!Nothing
<1>2. QED
  BY <1>1 DEF FreeWithinTotal, DemandAccounted, Both!FreeWithinTotal, Both!DemandAccounted,
              Both!Returned, Both!Amounts

LEMMA NothingHonestNext ==
    (\/ msRet = Both!Nothing
     \/ msRet = [Both!Nothing EXCEPT !.tag = "err"])' => FreeWithinTotal' /\ DemandAccounted'
BY NothingHonest, PTL

LEMMA MemoryHeldInit == Both!Init => MemoryInv
<1> SUFFICES ASSUME Both!Init PROVE MemoryInv
  OBVIOUS
<1> USE BothConstants
<1>1. /\ plat \in Platforms /\ swapped \in 0..SwapSize /\ msMoves = 0 /\ demand = {}
      /\ msPages \in [Both!Use -> 0..OtherPhys] /\ Both!PageSum(msPages) = OtherPhys
      /\ op = "idle" /\ todo = << >> /\ looks = << >> /\ msRet = Both!Nothing
      /\ commit \in 0..limit
  BY DEF Both!Init
<1>2. limit \in Nat
  BY DEF Both!Init
<1>3. KernelHeld
  BY <1>1, <1>2, BothAssumption DEF KernelHeld, Both!ConstantsAssumption
<1>4. CallHeld
  BY <1>1 DEF CallHeld
<1>5. QED
  BY <1>1, <1>3, <1>4, NothingHonest DEF MemoryInv

LEMMA MemoryPreserved == MemoryInv /\ [Both!Next]_bothState => MemoryInv'
<1> SUFFICES ASSUME MemoryInv, [Both!Next]_bothState PROVE MemoryInv'
  OBVIOUS
<1>0. KernelHeld /\ CallHeld /\ demand \subseteq Int
  BY DEF MemoryInv
<1>1. CASE KernelMoves
  <2>1. msRet' = Both!Nothing
    BY <1>0, <1>1, KernelTells DEF CallHeld
  <2>2. QED
    BY <1>0, <1>1, <2>1, KernelKept, KernelStep, NothingHonestNext DEF MemoryInv
<1>2. ASSUME NEW o \in {"memory", "swap", "both"}, Both!Call(o)
      PROVE  MemoryInv'
  <2>1. KernelHeld'
    BY <1>0, <1>2, CallStep DEF Both!Call, Both!kernel, KernelHeld
  <2>2. QED
    BY <1>0, <1>2, <2>1, CallStep, NothingHonestNext DEF MemoryInv
<1>3. CASE Both!Look
  <2>1. KernelHeld' /\ demand' \subseteq Int /\ msRet' = msRet
    BY <1>0, <1>3 DEF Both!Look, Both!kernel, KernelHeld
  <2>2. msRet' = Both!Nothing
    BY <1>0, <1>3, <2>1 DEF Both!Look, CallHeld
  <2>3. QED
    BY <1>0, <1>3, <2>1, <2>2, LookStep, NothingHonestNext DEF MemoryInv
<1>4. CASE Both!FallBack
  <2>1. KernelHeld' /\ demand' \subseteq Int /\ msRet' = msRet
    BY <1>0, <1>4 DEF Both!FallBack, Both!kernel, KernelHeld
  <2>2. msRet' = Both!Nothing
    BY <1>0, <1>4, <2>1 DEF Both!FallBack, CallHeld
  <2>3. QED
    BY <1>0, <1>4, <2>1, <2>2, FallBackStep, NothingHonestNext DEF MemoryInv
<1>5. CASE Both!LookFails
  <2>1. KernelHeld' /\ demand' \subseteq Int
    BY <1>0, <1>5 DEF Both!LookFails, Both!kernel, KernelHeld
  <2>2. CallHeld' /\ msRet' = [Both!Nothing EXCEPT !.tag = "err"]
    BY <1>5 DEF Both!LookFails, CallHeld
  <2>3. (\/ msRet = Both!Nothing
         \/ msRet = [Both!Nothing EXCEPT !.tag = "err"])'
    BY <2>2 DEF Both!Nothing
  <2>4. QED
    BY <2>1, <2>2, <2>3, NothingHonestNext DEF MemoryInv
<1>6. CASE Both!Return
  <2>1. KernelHeld' /\ demand' \subseteq Int
    BY <1>0, <1>6 DEF Both!Return, Both!kernel, KernelHeld
  <2>2. QED
    BY <1>0, <1>6, <2>1, ReturnStep DEF MemoryInv
<1>7. CASE UNCHANGED bothState
  <2>1. Both!Demand' = Both!Demand
    BY <1>7 DEF bothState, Both!Demand, Both!FreeUse
  <2>2. KernelHeld' /\ demand' \subseteq Int
    BY <1>0, <1>7 DEF bothState, KernelHeld
  <2>3. CallHeld'
    BY <1>0, <1>7, <2>1
       DEF bothState, CallHeld, LinuxCall, NetBsdCall, OpenBsdCall, MacCall, WindowsCall,
           LinuxTrue, NetBsdTrue, OpenBsdTrue, MacVmTrue, MacXswTrue, MacBothTrue, WindowsTrue,
           Used, Both!LinuxFree, Both!Monus
  <2>4. FreeWithinTotal' /\ DemandAccounted'
    BY <1>7 DEF bothState, MemoryInv, FreeWithinTotal, DemandAccounted,
                Both!FreeWithinTotal, Both!DemandAccounted, Both!Returned
  <2>5. QED
    BY <2>2, <2>3, <2>4 DEF MemoryInv
<1>8. QED
  BY <1>1, <1>2, <1>3, <1>4, <1>5, <1>6, <1>7 DEF Both!Next, KernelMoves

LEMMA MemoryAlways == Both!Spec => []MemoryInv
<1>1. MemoryInv /\ [Both!Next]_Both!vars => MemoryInv'
  BY MemoryPreserved DEF bothState, Both!vars
<1>2. QED
  BY <1>1, MemoryHeldInit, PTL DEF Both!Spec

\* No system reports more free memory or swap than it has, but for the pages
\* that moved between the two looks of OpenBSD and macOS, and no amount goes
\* below 0, with any amount of memory and swap (windows/mod.rs:356-364).
THEOREM FreeIsWithinTotal == Both!Spec => []FreeWithinTotal
<1>1. MemoryInv => FreeWithinTotal
  BY DEF MemoryInv
<1>2. QED
  BY <1>1, MemoryAlways, PTL

\* What memory and swap of one answer show in use was in use at one moment of
\* the call, or is off by no more pages than moved during it; on Windows it is
\* what was promised, as far as the swap can show it (common.rs:42-47).
THEOREM DemandIsAccounted == Both!Spec => []DemandAccounted
<1>1. MemoryInv => DemandAccounted
  BY DEF MemoryInv
<1>2. QED
  BY <1>1, MemoryAlways, PTL

\* The components of a run of SystemMemory behave as they do alone: what is
\* proved of each holds of the run.
THEOREM MemoryComposes == MemorySpec => Spec /\ Both!Spec
<1>1. MemoryInit => Init /\ Both!Init
  BY DEF MemoryInit
<1>2. [MemoryNext]_<<component, vars, bothState>> => [Next]_vars /\ [Both!Next]_Both!vars
  BY DEF MemoryNext, bothState, Both!vars, vars
<1>3. QED
  BY <1>1, <1>2, PTL DEF MemorySpec, Spec, Both!Spec
=============================================================================
