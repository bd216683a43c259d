-------------------------- MODULE WindowsAdapters --------------------------
(***************************************************************************)
(* get() of src/src/platform/windows/network_interfaces.rs: allocate a     *)
(* buffer, ask for the adapters, and when they do not fit ask again with   *)
(* twice the size the system said it needs.  Adapters and addresses come   *)
(* and go meanwhile, so the size that was needed may no longer be enough.  *)
(* The block is private, so the walk over its lists is one step; of the    *)
(* addresses it parses the model keeps one, whichever.                     *)
(***************************************************************************)
EXTENDS Integers, WindowsAddress

CONSTANTS
    Working,    \* WORKING_BUFFER_SIZEL
    MaxNeed,    \* bound on the size of the adapters' description
    Ulong,      \* 2^32: new_size is a ULONG
    Samples,    \* the bytes of the addresses of a run
    Prefixes    \* the lengths of their prefixes

\* The largest description, doubled, is a ULONG.
ASSUME ConstantsAssumption ==
    /\ Working \in Nat \ {0}
    /\ MaxNeed \in Nat \ {0}
    /\ Ulong \in Nat
    /\ Working < Ulong /\ 2 * MaxNeed < Ulong
    /\ Samples \subseteq [0..15 -> 0..255] /\ Prefixes \subseteq 0..255

VARIABLES
    need,       \* the size the system needs to describe the adapters now
    phase,      \* "idle", "alloc", "query", "walk" or "panicked"
    newSize,    \* new_size
    block,      \* the size of the allocated block p_adapter, or 0
    heap,       \* the number of blocks allocated
    ret,        \* what the last get() returned, until the next one
    floor       \* history: Working, doubled with every retry of the call

vars == <<need, phase, newSize, block, heap, ret, floor>>

Outcome(tag) == [tag |-> tag]

Init ==
    /\ need \in 1..MaxNeed
    /\ phase = "idle"
    /\ newSize = 0
    /\ block = 0
    /\ heap = 0
    /\ ret = Outcome("nothing")
    /\ floor = Working

\* Adapters and addresses come and go.
Resize(n) ==
    /\ n # need
    /\ need' = n
    /\ UNCHANGED <<phase, newSize, block, heap, ret, floor>>

\* get() is called.
Call ==
    /\ phase = "idle"
    /\ phase' = "alloc"
    /\ newSize' = Working
    /\ floor' = Working
    /\ ret' = Outcome("nothing")
    /\ UNCHANGED <<need, block, heap>>

\* new_size declared inside the loop.
MallocAfresh ==
    /\ phase = "alloc"
    /\ phase' = "query"
    /\ block' = Working
    /\ newSize' = Working
    /\ heap' = heap + 1
    /\ UNCHANGED <<need, ret, floor>>

Malloc ==
    /\ phase = "alloc"
    /\ phase' = "query"
    /\ block' = newSize
    /\ heap' = heap + 1
    /\ UNCHANGED <<need, newSize, ret, floor>>

\* malloc returns null: panic!
MallocFails ==
    /\ phase = "alloc"
    /\ phase' = "panicked"
    /\ UNCHANGED <<need, newSize, block, heap, ret, floor>>

\* The history of the doublings; beyond 2 * MaxNeed it need not be exact.
FloorDoubles == floor' = IF floor < 2 * MaxNeed THEN 2 * floor ELSE floor

Free ==
    /\ block' = 0
    /\ heap' = heap - 1

\* GetAdaptersAddresses fills the block.
Success ==
    /\ phase = "query"
    /\ need <= block
    /\ phase' = "walk"
    /\ UNCHANGED <<need, newSize, block, heap, ret, floor>>

\* The doubling grown to four times.
OverflowFourfold ==
    /\ phase = "query"
    /\ need > block
    /\ newSize' = (4 * need) % Ulong
    /\ Free
    /\ phase' = "alloc"
    /\ FloorDoubles
    /\ UNCHANGED <<need, ret>>

\* ERROR_BUFFER_OVERFLOW: the system puts the size it needs into new_size, the
\* code doubles it and frees the block.
Overflow ==
    /\ phase = "query"
    /\ need > block
    /\ newSize' = (2 * need) % Ulong
    /\ Free
    /\ phase' = "alloc"
    /\ FloorDoubles
    /\ UNCHANGED <<need, ret>>

\* get() returns: its locals are gone.
Return(outcome) ==
    /\ phase' = "idle"
    /\ newSize' = 0
    /\ floor' = Working
    /\ ret' = outcome

\* An error return that forgets the block.
QueryFailsLeak ==
    /\ phase = "query"
    /\ Return(Outcome("err"))
    /\ block' = 0
    /\ UNCHANGED <<need, heap>>

\* Any other code: free, then last_os_error()?.
QueryFails ==
    /\ phase = "query"
    /\ Free
    /\ Return(Outcome("err"))
    /\ UNCHANGED need

\* The adapters and their addresses are copied into the map, one of them this
\* address with a prefix of that many bits, and the block is freed.
Walk(family, data, bits) ==
    /\ phase = "walk"
    /\ Free
    /\ Return([tag |-> "ok", data |-> data, bits |-> bits,
                parsed |-> ParseAddrAndNetmask(family, data, bits)])
    /\ UNCHANGED need

Get ==
    \/ Malloc
    \/ MallocFails
    \/ Success
    \/ Overflow
    \/ QueryFails
    \/ \E family \in Families, data \in Samples, bits \in Prefixes : Walk(family, data, bits)

Next ==
    \/ \E n \in 1..MaxNeed : Resize(n)
    \/ Call
    \/ Get

\* The thread inside get() goes on: the loop never waits.
Spec == Init /\ [][Next]_vars /\ WF_vars(Get)

-----------------------------------------------------------------------------

\* Shapes; new_size is a 32-bit number, and get() never asks for a block of no
\* size (network_interfaces.rs:108-125).
TypeOK ==
    /\ need \in 1..MaxNeed
    /\ phase \in {"idle", "alloc", "query", "walk", "panicked"}
    /\ newSize \in 0..(Ulong - 1)
    /\ phase \in {"alloc", "query"} => newSize > 0
    /\ block \in 0..(Ulong - 1)
    /\ heap \in Nat
    /\ ret.tag \in {"nothing", "ok", "err"}
    /\ floor \in Nat \ {0}

\* A block is allocated exactly while get() uses one: no path out of the loop
\* and no turn of it leaves one behind (network_interfaces.rs:108-135, 181-183).
HeapBalanced == heap = IF phase \in {"query", "walk"} THEN 1 ELSE 0

\* However the need changes during the call, the k-th retry asks with at least
\* 2^k times the first size (network_interfaces.rs:124-128).
SizesDouble ==
    /\ phase = "alloc" => newSize >= floor
    /\ phase = "query" => block >= floor

\* So the retries are few: their number is at most 1 + log2(MaxNeed / Working),
\* though nothing in the loop counts them (network_interfaces.rs:106-136).
RetriesBounded == floor <= Working \/ floor < 2 * MaxNeed

\* What get() returns is what the system told: the bytes in network order, and
\* the mask of that many bits (network_interfaces.rs:199-297).
AddressCorrect ==
    ret.tag = "ok" =>
        /\ MaskCorrect(ret.parsed, ret.bits)
        /\ OrderCorrect(ret.parsed, ret.data)

\* get() comes to an end, even if the need changes between any two steps of it
\* for ever (network_interfaces.rs:106-136).
Terminates == phase = "alloc" ~> phase \in {"idle", "panicked"}
=============================================================================
