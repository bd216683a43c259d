--------------------------- MODULE WindowsCpuLoad ---------------------------
(***************************************************************************)
(* cpu_load of src/src/platform/windows/mod.rs: four performance counters, *)
(* each in a PDH query of its own.  PDH computes a share over the span     *)
(* from the query's previous collection to the last one, so every done()   *)
(* moves the four baselines, one after the other, and a done() that fails  *)
(* half-way has moved some of them.  Dropping a QueryHandle closes its     *)
(* query.                                                                  *)
(*                                                                         *)
(* A share is represented by the span it was computed over.                *)
(***************************************************************************)
EXTENDS Integers, FiniteSets

CONSTANTS
    MinCpus,    \* CPUs at the start
    MaxCpus,    \* CPUs that can be there at the end: they are only added
    MaxNow      \* bound on the time of a behaviour

ASSUME ConstantsAssumption ==
    /\ MinCpus \in Nat \ {0}
    /\ MaxCpus \in Nat /\ MinCpus <= MaxCpus
    /\ MaxNow \in Nat

\* The counters in the order they are created and read: user, idle, system,
\* interrupt.
Counter == 1..4

VARIABLES
    now,        \* the time
    cpus,       \* the number of CPUs: instances "0", ..., and "_Total"
    open,       \* the queries PDH holds open
    owned,      \* the queries a QueryHandle of the program will close
    last,       \* [Counter -> Nat], when each query was last collected
    phase,      \* "idle", or in cpu_load() "open", "add", "first", in done()
                \* "collect", "format", "assemble"
    k,          \* the counter at work
    items,      \* [Counter -> span and number of instances], what done() has
    live,       \* does the caller hold a measurement?
    ret,        \* what the last call returned
    began,      \* history: when the last call began
    bases       \* history: the span of time in which the baselines were set

world == <<now, cpus>>
history == <<began, bases>>
vars == <<now, cpus, open, owned, last, phase, k, items, live, ret,
          began, bases>>

NoItems == [c \in Counter |-> [from |-> 0, to |-> 0, cpus |-> 0]]

\* What a call returns; "bases" and "call" are history: when the baselines
\* were set, and when done() began and returned.
Outcome(tag) ==
    [tag |-> tag, loads |-> 0, items |-> NoItems, bases |-> <<0, 0>>, call |-> <<0, 0>>]

Init ==
    /\ now = 0
    /\ cpus = MinCpus
    /\ open = {}
    /\ owned = {}
    /\ last = [c \in Counter |-> 0]
    /\ phase = "idle"
    /\ k = 1
    /\ items = NoItems
    /\ live = FALSE
    /\ ret = Outcome("nothing")
    /\ began = 0
    /\ bases = <<0, 0>>

Tick ==
    /\ now < MaxNow
    /\ now' = now + 1
    /\ UNCHANGED <<cpus, open, owned, last, phase, k, items, live, ret, history>>

HotAdd ==
    /\ cpus < MaxCpus
    /\ cpus' = cpus + 1
    /\ UNCHANGED <<now, open, owned, last, phase, k, items, live, ret, history>>

\* cpu_load() is called.  The model follows one measurement at a time.
Create ==
    /\ phase = "idle"
    /\ ~live
    /\ phase' = "open"
    /\ k' = 1
    /\ began' = now
    /\ UNCHANGED <<world, open, owned, last, items, live, ret, bases>>

\* The handle is wrapped only when the counter is complete.
OpenQueryRaw ==
    /\ phase = "open"
    /\ open' = open \cup {k}
    /\ owned' = owned \cup (1..k - 1)
    /\ phase' = "add"
    /\ UNCHANGED <<world, last, k, items, live, ret, history>>

\* PdhOpenQueryA, and the handle goes into a QueryHandle at once.
OpenQuery ==
    /\ phase = "open"
    /\ open' = open \cup {k}
    /\ owned' = owned \cup {k}
    /\ phase' = "add"
    /\ UNCHANGED <<world, last, k, items, live, ret, history>>

\* PdhAddEnglishCounterA
AddCounter ==
    /\ phase = "add"
    /\ phase' = "first"
    /\ UNCHANGED <<world, open, owned, last, k, items, live, ret, history>>

\* The first collection; after the fourth counter the closure takes them all.
FirstCollect ==
    /\ phase = "first"
    /\ last' = [last EXCEPT ![k] = now]
    /\ IF k < 4
       THEN phase' = "open" /\ k' = k + 1 /\ UNCHANGED <<live, ret, bases>>
       ELSE /\ phase' = "idle" /\ k' = 1
            /\ live' = TRUE
            /\ ret' = Outcome("created")
            /\ bases' = <<began, now>>
    /\ UNCHANGED <<world, open, owned, items, began>>

\* A call of PDH fails in cpu_load(): the counters made so far are dropped.
CreateFails ==
    /\ phase \in {"open", "add", "first"}
    /\ open' = open \ owned
    /\ owned' = {}
    /\ phase' = "idle" /\ k' = 1
    /\ ret' = Outcome("err")
    /\ UNCHANGED <<world, last, items, live, history>>

Done ==
    /\ phase = "idle"
    /\ live
    /\ phase' = "collect"
    /\ items' = NoItems
    /\ began' = now
    /\ UNCHANGED <<world, open, owned, last, k, live, ret, bases>>

\* One query for the four counters: a collection is one for all of them.
CollectAll ==
    /\ phase = "collect"
    /\ items' = [items EXCEPT ![k] = [from |-> last[k], to |-> now, cpus |-> cpus]]
    /\ last' = [c \in Counter |-> now]
    /\ phase' = "format"
    /\ UNCHANGED <<world, open, owned, k, live, ret, history>>

\* PdhCollectQueryData in next_value: the span of the counter ends here, and
\* the next one begins.
Collect ==
    /\ phase = "collect"
    /\ items' = [items EXCEPT ![k] = [from |-> last[k], to |-> now, cpus |-> cpus]]
    /\ last' = [last EXCEPT ![k] = now]
    /\ phase' = "format"
    /\ UNCHANGED <<world, open, owned, k, live, ret, history>>

\* The two PdhGetFormattedCounterArrayA: the instances of that collection.
Format ==
    /\ phase = "format"
    /\ IF k < 4
       THEN phase' = "collect" /\ k' = k + 1
       ELSE phase' = "assemble" /\ k' = 1
    /\ UNCHANGED <<world, open, owned, last, items, live, ret, history>>

\* A call of PDH fails in done(), before or after the collection: the counters
\* collected so far have new baselines, the others keep theirs.
DoneFails ==
    /\ phase \in {"collect", "format"}
    /\ phase' = "idle" /\ k' = 1
    /\ ret' = Outcome("err")
    /\ items' = NoItems
    /\ bases' = <<bases[1], now>>
    /\ UNCHANGED <<world, open, owned, last, live, began>>

\* _Total counted as a CPU.
CountWithTotal(item) == item.cpus + 1

\* The same without one CPU.
CountShort(item) == item.cpus - 1

\* count: the instances but for _Total.
Count(item) == item.cpus

\* The loads are as many as the user counter has instances; a counter with
\* more of them indexes past the end, and done() panics.
Assemble ==
    LET count == Count(items[1]) IN
    /\ phase = "assemble"
    /\ phase' = "idle"
    /\ ret' = [tag |-> IF \E c \in Counter : items[c].cpus > count THEN "panic" ELSE "loads",
               loads |-> count,
               items |-> items,
               bases |-> bases,
               call |-> <<began, now>>]
    /\ items' = NoItems
    /\ bases' = <<began, now>>
    /\ UNCHANGED <<world, open, owned, last, k, live, began>>

\* The caller drops the measurement, and with it the four counters.
Drop ==
    /\ phase = "idle"
    /\ live
    /\ live' = FALSE
    /\ open' = open \ owned
    /\ owned' = {}
    /\ UNCHANGED <<world, last, phase, k, items, ret, history>>

Next ==
    \/ Tick \/ HotAdd
    \/ Create \/ OpenQuery \/ AddCounter \/ FirstCollect \/ CreateFails
    \/ Done \/ Collect \/ Format \/ DoneFails \/ Assemble
    \/ Drop

Spec == Init /\ [][Next]_vars

-----------------------------------------------------------------------------

\* Between two calls PDH holds open the four queries of the measurement the
\* caller has, and none if there is no measurement, wherever cpu_load() gave
\* up and however often done() failed (windows/mod.rs:75-81, 97-126).
NoQueryLeft == phase = "idle" => open = IF live THEN Counter ELSE {}

\* The four shares of a result are about the same time: each begins where the
\* baselines were set and ends inside the done() call, so that all four cover
\* everything between the end of the previous call and the begin of this one.
\* Only a done() that failed makes "where the baselines were set" wider than
\* one call (windows/mod.rs:178-182).
SpansInWindow ==
    ret.tag \in {"loads", "panic"} =>
        /\ ret.bases[2] <= ret.call[1]
        /\ \A c \in Counter : /\ ret.items[c].from \in ret.bases[1]..ret.bases[2]
                              /\ ret.items[c].to \in ret.call[1]..ret.call[2]

\* Every load has its four shares: none is left at the 0.0 it was made with
\* (windows/mod.rs:186-224).
EveryLoadMeasured ==
    ret.tag = "loads" => \A c \in Counter : ret.items[c].cpus = ret.loads

\* The index of the loads is out of range only when a CPU was added after the
\* user counter was collected and before the call ended (windows/mod.rs:201-224).
PanicsOnlyOnHotAdd == ret.tag = "panic" => ret.items[1].cpus < ret.items[4].cpus
=============================================================================
