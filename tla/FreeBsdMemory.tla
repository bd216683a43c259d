--------------------------- MODULE FreeBsdMemory ---------------------------
(***************************************************************************)
(* memory() of src/src/platform/freebsd.rs: five page counts and the size  *)
(* of the ZFS ARC, each read by a sysctl of its own while the kernel goes  *)
(* on moving pages between its queues.  Nobody reports the physical        *)
(* memory: the total is the sum of what was read.                          *)
(*                                                                         *)
(* Memory is counted in pages; the code shifts every count by the same     *)
(* PAGESHIFT (bsd.rs:4-14) before it adds them up.                         *)
(***************************************************************************)
EXTENDS Integers

CONSTANTS
    Phys,       \* pages the kernel manages
    MaxMoves,   \* bound on the page moves during one call
    HasCache,   \* does the kernel have a cache queue, and its sysctl?
    HasZfs      \* is the ARC's sysctl there?

ASSUME ConstantsAssumption ==
    /\ Phys \in Nat
    /\ MaxMoves \in Nat
    /\ HasCache \in BOOLEAN
    /\ HasZfs \in BOOLEAN

Queue == {"active", "inactive", "wired", "cache", "free"}

VARIABLES
    pages,      \* [Queue -> Nat], the queues of the kernel
    arc,        \* the wired pages that belong to the ARC
    pc,         \* "idle", or what memory() reads next
    sample,     \* [Queue -> Nat], the local variables of memory()
    ret,        \* what the last memory() returned
    moves       \* history: page moves since memory() was called

vars == <<pages, arc, pc, sample, ret, moves>>

Zero == [q \in Queue |-> 0]

Outcome(tag) == [tag |-> tag, total |-> 0, free |-> 0, wired |-> 0, moves |-> 0]

PageSum(f) == f["active"] + f["inactive"] + f["wired"] + f["cache"] + f["free"]

\* A subtraction that does not stop at 0.
MonusPlain(a, b) == a - b

\* saturating_sub_bytes
Monus(a, b) == IF a > b THEN a - b ELSE 0

\* The order of the statements of memory().
After(q) ==
    CASE q = "active" -> "inactive"
      [] q = "inactive" -> "wired"
      [] q = "wired" -> "cache"
      [] q = "cache" -> "free"
      [] q = "free" -> "arc"

Init ==
    /\ pages \in [Queue -> 0..Phys]
    /\ PageSum(pages) = Phys
    /\ ~HasCache => pages["cache"] = 0
    /\ arc \in 0..pages["wired"]
    /\ HasZfs \/ arc = 0
    /\ pc = "idle"
    /\ sample = Zero
    /\ ret = Outcome("nothing")
    /\ moves = 0

\* The kernel takes a page from one queue and puts it on another; the pages
\* of the ARC stay wired.
Move(q, r) ==
    /\ moves < MaxMoves
    /\ q # r
    /\ pages[q] > 0
    /\ q = "wired" => arc < pages["wired"]
    /\ r = "cache" => HasCache
    /\ pages' = [pages EXCEPT ![q] = @ - 1, ![r] = @ + 1]
    /\ moves' = moves + 1
    /\ UNCHANGED <<arc, pc, sample, ret>>

\* The ARC claims or returns wired pages.
ResizeArc(n) ==
    /\ HasZfs
    /\ n <= pages["wired"]
    /\ n # arc
    /\ arc' = n
    /\ UNCHANGED <<pages, pc, sample, ret, moves>>

\* memory() is called.
Begin ==
    /\ pc = "idle"
    /\ pc' = "active"
    /\ sample' = Zero
    /\ moves' = 0
    /\ UNCHANGED <<pages, arc, ret>>

\* Every count read through the MIB of the queue after it.
ReadWrongMib(q) ==
    /\ pc = q
    /\ sample' = [sample EXCEPT ![q] = IF q = "free" THEN arc ELSE pages[After(q)]]
    /\ pc' = After(q)
    /\ UNCHANGED <<pages, arc, ret, moves>>

\* The sysctl of a queue answers.  The one of the cache queue may be missing:
\* its result is not checked and the count stays 0.
Read(q) ==
    /\ pc = q
    /\ sample' = IF q = "cache" /\ ~HasCache
                 THEN sample
                 ELSE [sample EXCEPT ![q] = pages[q]]
    /\ pc' = After(q)
    /\ UNCHANGED <<pages, arc, ret, moves>>

\* A sysctl other than the cache queue's fails.
Fails(q) ==
    /\ pc = q
    /\ q # "cache"
    /\ pc' = "idle"
    /\ ret' = Outcome("err")
    /\ UNCHANGED <<pages, arc, sample, moves>>

\* The Memory made of the samples: the ARC is taken out of wired, down to 0.
Memory(s, a) ==
    LET wired == Monus(s["wired"], a)
    IN  [total |-> s["active"] + s["inactive"] + wired + s["cache"] + a + s["free"],
         free  |-> s["inactive"] + s["cache"] + a + s["free"],
         wired |-> wired]

\* The last sysctl, then the result.  Without ZFS the ARC counts as 0.
ReadArc ==
    LET m == Memory(sample, IF HasZfs THEN arc ELSE 0) IN
    /\ pc = "arc"
    /\ pc' = "idle"
    /\ ret' = [tag |-> "ok", total |-> m.total, free |-> m.free, wired |-> m.wired,
               moves |-> moves]
    /\ UNCHANGED <<pages, arc, sample, moves>>

Next ==
    \/ \E q, r \in Queue : Move(q, r)
    \/ \E n \in 0..Phys : ResizeArc(n)
    \/ Begin
    \/ \E q \in Queue : Read(q)
    \/ \E q \in Queue : Fails(q)
    \/ ReadArc

Spec == Init /\ [][Next]_vars

-----------------------------------------------------------------------------

\* Shapes: no count goes below 0, wired least of all (freebsd.rs:95).  The
\* kernel's queues hold exactly the physical pages and the ARC is among the
\* wired ones, which is what makes the sum a total (freebsd.rs:101).
TypeOK ==
    /\ pages \in [Queue -> Nat]
    /\ PageSum(pages) = Phys
    /\ arc \in Nat /\ arc <= pages["wired"]
    /\ ~HasCache => pages["cache"] = 0
    /\ pc \in Queue \cup {"idle", "arc"}
    /\ sample \in [Queue -> Nat]
    /\ ret \in [tag : {"nothing", "err", "ok"}, total : Nat, free : Nat, wired : Nat,
                moves : Nat]
    /\ moves \in Nat

\* The queues this call has read already.
Seen ==
    CASE pc \in {"idle", "active"} -> {}
      [] pc = "inactive" -> {"active"}
      [] pc = "wired" -> {"active", "inactive"}
      [] pc = "cache" -> {"active", "inactive", "wired"}
      [] pc = "free" -> {"active", "inactive", "wired", "cache"}
      [] pc = "arc" -> Queue

\* The samples so far, completed with what the other sysctls would return now.
Projected == [q \in Queue |-> IF q \in Seen THEN sample[q] ELSE pages[q]]

\* How far wired has grown past its sample: the room the ARC can exceed it by.
WiredGrowth == IF "wired" \in Seen THEN Monus(pages["wired"], sample["wired"]) ELSE 0

\* Mid-call, every page move puts the sum being collected off by at most one
\* page, and the growth of wired that the ARC may hide in is paid for by the
\* same moves (freebsd.rs:86-91).
ProjectedNearPhys ==
    /\ PageSum(Projected) + WiredGrowth <= Phys + moves
    /\ PageSum(Projected) >= Phys - moves

\* The count of a cache queue that has no sysctl is the 0 it was declared with,
\* up to the moment it is not read (freebsd.rs:89).  What makes the
\* two invariants above and below inductive.
CacheUnread ==
    pc \in {"active", "inactive", "wired", "cache"} => sample["cache"] = 0

\* The total memory() reports is off by at most one page for each page the
\* kernel moved during the call, though the ARC is read long after the wired
\* pages it is part of (freebsd.rs:85-105).
TotalNearPhys ==
    ret.tag = "ok" => /\ ret.total <= Phys + ret.moves
                      /\ ret.total >= Phys - ret.moves
=============================================================================
