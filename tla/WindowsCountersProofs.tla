----------------------- MODULE WindowsCountersProofs ------------------------
(***************************************************************************)
(* cpu_load of windows/mod.rs for every number of CPUs, every time at      *)
(* which a CPU is added and every call of PDH that may fail, and           *)
(* socket_stats() of Windows and of Linux for every number of sockets and  *)
(* of events during a call.                                                *)
(***************************************************************************)
EXTENDS WindowsCounters, Sequences, TLAPS

Creating == phase \in {"open", "add", "first"}
Measuring == phase \in {"collect", "format", "assemble"}

Typed ==
    /\ now \in Nat /\ cpus \in Nat
    /\ k \in Counter
    /\ phase = "idle" \/ Creating \/ Measuring
    /\ live \in BOOLEAN
    /\ last \in [Counter -> Nat]
    /\ items \in [Counter -> [from : Nat, to : Nat, cpus : Nat]]
    /\ began \in 0..now
    /\ bases \in Nat \X Nat

\* The queries open at each point of the program, all of them owned.
QueriesHeld ==
    /\ owned = open
    /\ phase = "idle" => k = 1 /\ open = IF live THEN Counter ELSE {}
    /\ phase = "assemble" => k = 1
    /\ phase = "open" => ~live /\ open = 1..k - 1
    /\ phase \in {"add", "first"} => ~live /\ open = 1..k
    /\ Measuring => live /\ open = Counter

\* The counters the call has collected: their baselines are of this call.
Collected ==
    {c \in Counter : \/ phase \in {"open", "add", "first", "collect"} /\ c < k
                     \/ phase = "format" /\ c <= k
                     \/ phase = "assemble"}

\* Where the baselines are, in a call and between two calls.
BaselinesKnown ==
    /\ \A c \in Collected : last[c] \in began..now
    /\ live =>
        /\ bases[1] <= bases[2] /\ bases[2] <= now
        /\ Measuring => bases[2] <= began
        /\ \A c \in Counter \ Collected : last[c] \in bases[1]..bases[2]

\* What done() has so far.
ItemsKnown ==
    Measuring =>
        \A c \in Collected :
            /\ items[c].from \in bases[1]..bases[2]
            /\ items[c].to \in began..now
            /\ items[c].cpus <= cpus
            /\ \A d \in Collected : c <= d => items[c].cpus <= items[d].cpus

IInv ==
    /\ Typed
    /\ QueriesHeld
    /\ BaselinesKnown
    /\ ItemsKnown
    /\ SpansInWindow
    /\ EveryLoadMeasured
    /\ PanicsOnlyOnHotAdd

LEMMA InvInit == Init => IInv
<1> SUFFICES ASSUME Init PROVE IInv
  OBVIOUS
<1>1. Typed
  <2>1. /\ items \in [Counter -> [from : Nat, to : Nat, cpus : Nat]]
        /\ last \in [Counter -> Nat]
    BY DEF Init, NoItems
  <2>2. now \in Nat /\ cpus \in Nat /\ k \in Counter /\ began \in 0..now
    BY ConstantsAssumption DEF Init, Counter
  <2>3. bases \in Nat \X Nat /\ live \in BOOLEAN
    BY DEF Init
  <2>4. QED
    BY <2>1, <2>2, <2>3 DEF Init, Typed
<1>2. QueriesHeld /\ BaselinesKnown /\ ItemsKnown
  BY DEF Init, QueriesHeld, BaselinesKnown, ItemsKnown, Collected, Measuring, Counter
<1>3. SpansInWindow /\ EveryLoadMeasured /\ PanicsOnlyOnHotAdd
  BY DEF Init, Outcome, SpansInWindow, EveryLoadMeasured, PanicsOnlyOnHotAdd
<1>4. QED
  BY <1>1, <1>2, <1>3 DEF IInv

\* What is said of the result changes with the result only.
LEMMA ResultKept ==
    ASSUME SpansInWindow, EveryLoadMeasured, PanicsOnlyOnHotAdd, UNCHANGED ret
    PROVE  SpansInWindow' /\ EveryLoadMeasured' /\ PanicsOnlyOnHotAdd'
BY DEF SpansInWindow, EveryLoadMeasured, PanicsOnlyOnHotAdd

\* A result that is no load says nothing.
LEMMA NothingSaid ==
    ASSUME ret'.tag \in {"created", "err"}
    PROVE  SpansInWindow' /\ EveryLoadMeasured' /\ PanicsOnlyOnHotAdd'
BY DEF SpansInWindow, EveryLoadMeasured, PanicsOnlyOnHotAdd

\* The world moves during a call and between two.
LEMMA WorldSteps ==
    ASSUME IInv, Tick \/ HotAdd
    PROVE  IInv'
<1> USE DEF IInv
<1>1. /\ now' \in Nat /\ now <= now' /\ cpus' \in Nat /\ cpus <= cpus'
      /\ UNCHANGED <<open, owned, last, phase, k, items, live, ret, began, bases>>
  BY ConstantsAssumption DEF Tick, HotAdd, Typed, history
<1>2. Typed'
  BY <1>1 DEF Typed, Creating, Measuring
<1>3. QueriesHeld'
  BY <1>1 DEF QueriesHeld, Measuring
<1>4. BaselinesKnown'
  BY <1>1 DEF Typed, BaselinesKnown, Collected, Measuring, Counter
<1>5. ItemsKnown'
  BY <1>1 DEF Typed, ItemsKnown, Collected, Measuring, Counter
<1>6. QED
  BY <1>1, <1>2, <1>3, <1>4, <1>5, ResultKept

\* cpu_load(): a query more, its counter, its first collection.
LEMMA CreateSteps ==
    ASSUME IInv, Create \/ OpenQuery \/ AddCounter \/ FirstCollect \/ CreateFails
    PROVE  IInv'
<1> USE DEF IInv, world, history
<1>1. CASE Create
  <2>1. Typed' /\ QueriesHeld'
    BY <1>1 DEF Create, Typed, QueriesHeld, Creating, Measuring, Counter
  <2>2. BaselinesKnown' /\ ItemsKnown'
    BY <1>1 DEF Create, Typed, BaselinesKnown, ItemsKnown, Collected, Measuring, Counter
  <2>3. QED
    BY <1>1, <2>1, <2>2, ResultKept DEF Create
<1>2. CASE OpenQuery
  <2>1. Typed'
    BY <1>2 DEF OpenQuery, Typed, Creating, Measuring
  <2>2. open' = 1..k /\ owned' = 1..k /\ ~live'
    <3>1. open = 1..(k - 1) /\ owned = open /\ ~live /\ k \in 1..4
      BY <1>2 DEF OpenQuery, Typed, QueriesHeld, Counter
    <3>2. (1..(k - 1)) \cup {k} = 1..k
      BY <3>1
    <3>3. QED
      BY <1>2, <3>1, <3>2 DEF OpenQuery
  <2>3. QueriesHeld'
    BY <1>2, <2>2 DEF OpenQuery, QueriesHeld, Measuring
  <2>4. BaselinesKnown' /\ ItemsKnown'
    BY <1>2, <2>2 DEF OpenQuery, Typed, QueriesHeld, BaselinesKnown, ItemsKnown, Collected,
                      Measuring, Counter
  <2>5. QED
    BY <1>2, <2>1, <2>3, <2>4, ResultKept DEF OpenQuery
<1>3. CASE AddCounter
  <2>1. Typed' /\ QueriesHeld'
    BY <1>3 DEF AddCounter, Typed, QueriesHeld, Creating, Measuring, Counter
  <2>2. BaselinesKnown' /\ ItemsKnown'
    BY <1>3 DEF AddCounter, Typed, QueriesHeld, BaselinesKnown, ItemsKnown, Collected,
                Measuring, Counter
  <2>3. QED
    BY <1>3, <2>1, <2>2, ResultKept DEF AddCounter
<1>4. CASE FirstCollect
  <2>1. Typed' /\ QueriesHeld'
    <3>1. CASE k < 4
      <4>1. k' = k + 1 /\ phase' = "open" /\ UNCHANGED <<live, bases, open, owned>>
        BY <1>4, <3>1 DEF FirstCollect
      <4>2. Typed'
        BY <1>4, <3>1, <4>1 DEF FirstCollect, Typed, Creating, Counter
      <4>3. ~live /\ owned = open /\ open = 1..(k' - 1)
        BY <1>4, <3>1, <4>1 DEF FirstCollect, QueriesHeld, Typed, Counter
      <4>4. QED
        BY <4>1, <4>2, <4>3 DEF QueriesHeld, Measuring
    <3>2. CASE k = 4
      <4>1. /\ k' = 1 /\ phase' = "idle" /\ live' = TRUE /\ bases' = <<began, now>>
            /\ UNCHANGED <<open, owned>>
        BY <1>4, <3>2 DEF FirstCollect
      <4>2. QED
        BY <1>4, <3>2, <4>1 DEF FirstCollect, Typed, QueriesHeld, Measuring, Counter
    <3>3. QED
      BY <3>1, <3>2 DEF Typed, Counter
  <2>2. \A c \in 1..k : last'[c] \in began..now
    BY <1>4 DEF FirstCollect, Typed, BaselinesKnown, Collected, Counter
  <2>3. BaselinesKnown' /\ ItemsKnown'
    <3>1. CASE k < 4
      <4>1. /\ k' = k + 1 /\ phase' = "open" /\ ~live' /\ UNCHANGED <<began, now>>
        BY <1>4, <3>1 DEF FirstCollect, QueriesHeld
      <4>2. Collected' = 1..k
        BY <3>1, <4>1 DEF Collected, Typed, Counter
      <4>3. QED
        BY <2>2, <4>1, <4>2 DEF BaselinesKnown, ItemsKnown, Measuring
    <3>2. CASE k = 4
      <4>1. /\ phase' = "idle" /\ bases' = <<began, now>> /\ UNCHANGED <<began, now>>
            /\ Collected' = {}
        BY <1>4, <3>2 DEF FirstCollect, Collected
      <4>2. QED
        BY <2>2, <3>2, <4>1 DEF BaselinesKnown, ItemsKnown, Measuring, Typed, Counter
    <3>3. QED
      BY <3>1, <3>2 DEF Typed, Counter
  <2>4. UNCHANGED ret \/ ret'.tag = "created"
    BY <1>4 DEF FirstCollect, Outcome
  <2>5. QED
    BY <2>1, <2>3, <2>4, ResultKept, NothingSaid
<1>5. CASE CreateFails
  <2>1. Typed' /\ QueriesHeld'
    BY <1>5 DEF CreateFails, Typed, QueriesHeld, Creating, Measuring, Counter
  <2>2. BaselinesKnown' /\ ItemsKnown'
    BY <1>5 DEF CreateFails, Typed, QueriesHeld, BaselinesKnown, ItemsKnown, Collected,
                Measuring, Counter
  <2>3. QED
    BY <1>5, <2>1, <2>2, NothingSaid DEF CreateFails, Outcome
<1>6. QED
  BY <1>1, <1>2, <1>3, <1>4, <1>5

\* done(): a collection moves one baseline and closes one span.
LEMMA CollectStep ==
    ASSUME IInv, Collect
    PROVE  IInv'
<1> USE DEF IInv, world, history
<1>1. Typed' /\ QueriesHeld'
  BY DEF Collect, Typed, QueriesHeld, Creating, Measuring, Counter
<1>2. k \in Collected' /\ k \notin Collected /\ Collected' = Collected \cup {k}
  BY DEF Collect, Typed, Collected, Counter
<1>3. live /\ bases[2] <= began /\ last[k] \in bases[1]..bases[2]
  BY <1>2 DEF Collect, Typed, QueriesHeld, BaselinesKnown, Measuring
<1>4. BaselinesKnown'
  BY <1>2, <1>3 DEF Collect, Typed, BaselinesKnown, Measuring
<1>5. \A c \in Collected' :
          /\ items'[c].from \in bases[1]..bases[2]
          /\ items'[c].to \in began..now
          /\ items'[c].cpus <= cpus
  BY <1>2, <1>3 DEF Collect, Typed, ItemsKnown, Measuring
<1>6. \A c, d \in Collected' : c <= d => items'[c].cpus <= items'[d].cpus
  <2> SUFFICES ASSUME NEW c \in Collected', NEW d \in Collected', c <= d
               PROVE  items'[c].cpus <= items'[d].cpus
    OBVIOUS
  <2>1. Collected = {e \in Counter : e < k}
    BY DEF Collect, Collected
  <2>2. CASE d = k
    BY <1>5, <2>2 DEF Collect, Typed
  <2>3. CASE d # k
    BY <1>2, <2>1, <2>3 DEF Collect, Typed, ItemsKnown, Measuring, Counter
  <2>4. QED
    BY <2>2, <2>3
<1>7. ItemsKnown'
  BY <1>5, <1>6 DEF Collect, ItemsKnown
<1>8. QED
  BY <1>1, <1>4, <1>7, ResultKept DEF Collect

\* The result of a done() that collected the four counters.
LEMMA AssembleStep ==
    ASSUME IInv, Assemble
    PROVE  IInv'
<1> USE DEF IInv, world, history
<1>1. Collected = Counter /\ Measuring /\ live
  BY DEF Assemble, Collected, Measuring, QueriesHeld
<1>2. \A c \in Counter : /\ items[c].from \in bases[1]..bases[2]
                         /\ items[c].to \in began..now
                         /\ items[1].cpus <= items[c].cpus
                         /\ items[c].cpus <= items[4].cpus
  BY <1>1 DEF ItemsKnown, Typed, Counter
<1>3. Typed' /\ QueriesHeld'
  BY <1>1 DEF Assemble, Typed, QueriesHeld, Creating, Measuring, Counter, NoItems
<1>4. BaselinesKnown' /\ ItemsKnown'
  BY <1>1 DEF Assemble, Typed, BaselinesKnown, ItemsKnown, Collected, Measuring, Counter
<1>5. SpansInWindow'
  BY <1>1, <1>2 DEF Assemble, Typed, BaselinesKnown, SpansInWindow
<1>6. EveryLoadMeasured'
  BY <1>2 DEF Assemble, Typed, EveryLoadMeasured, Count, Counter
<1>7. PanicsOnlyOnHotAdd'
  BY <1>2 DEF Assemble, Typed, PanicsOnlyOnHotAdd, Count, Counter
<1>8. QED
  BY <1>3, <1>4, <1>5, <1>6, <1>7

LEMMA DoneSteps ==
    ASSUME IInv, Done \/ Format \/ DoneFails \/ Drop
    PROVE  IInv'
<1> USE DEF IInv, world, history
<1>1. CASE Done
  <2>1. Typed' /\ QueriesHeld'
    BY <1>1 DEF Done, Typed, QueriesHeld, Creating, Measuring, Counter, NoItems
  <2>2. BaselinesKnown' /\ ItemsKnown'
    <3>1. Collected = {} /\ k = 1 /\ Collected' = {}
      BY <1>1 DEF Done, Typed, QueriesHeld, Collected, Counter
    <3>2. QED
      BY <1>1, <3>1 DEF Done, Typed, BaselinesKnown, ItemsKnown, Measuring
  <2>3. QED
    BY <1>1, <2>1, <2>2, ResultKept DEF Done
<1>2. CASE Format
  <2>1. Typed' /\ QueriesHeld'
    BY <1>2 DEF Format, Typed, QueriesHeld, Creating, Measuring, Counter
  <2>2. Collected' = Collected
    BY <1>2 DEF Format, Typed, Collected, Counter
  <2>3. BaselinesKnown' /\ ItemsKnown'
    BY <1>2, <2>2 DEF Format, Typed, BaselinesKnown, ItemsKnown, Measuring
  <2>4. QED
    BY <1>2, <2>1, <2>3, ResultKept DEF Format
<1>3. CASE DoneFails
  <2>1. Typed' /\ QueriesHeld'
    <3>1. bases' \in Nat \X Nat /\ items' = NoItems
      BY <1>3 DEF DoneFails, Typed
    <3>2. NoItems \in [Counter -> [from : Nat, to : Nat, cpus : Nat]]
      BY DEF NoItems
    <3>3. Typed'
      BY <1>3, <3>1, <3>2 DEF DoneFails, Typed, Counter
    <3>4. QED
      BY <1>3, <3>3 DEF DoneFails, QueriesHeld, Measuring
  <2>2. live /\ Collected' = {} /\ ~Measuring'
    BY <1>3 DEF DoneFails, QueriesHeld, Collected, Measuring, Counter
  <2>3. \A c \in Counter : last[c] \in bases[1]..now
    BY <1>3, <2>2 DEF DoneFails, Typed, BaselinesKnown, Measuring
  <2>4. BaselinesKnown' /\ ItemsKnown'
    BY <1>3, <2>2, <2>3 DEF DoneFails, Typed, BaselinesKnown, ItemsKnown
  <2>5. QED
    BY <1>3, <2>1, <2>4, NothingSaid DEF DoneFails, Outcome
<1>4. CASE Drop
  <2>1. Typed' /\ QueriesHeld'
    BY <1>4 DEF Drop, Typed, QueriesHeld, Creating, Measuring, Counter
  <2>2. BaselinesKnown' /\ ItemsKnown'
    BY <1>4 DEF Drop, Typed, BaselinesKnown, ItemsKnown, Collected, Measuring, Counter
  <2>3. QED
    BY <1>4, <2>1, <2>2, ResultKept DEF Drop
<1>5. QED
  BY <1>1, <1>2, <1>3, <1>4

LEMMA InvPreserved == IInv /\ [Next]_vars => IInv'
<1> SUFFICES ASSUME IInv, [Next]_vars PROVE IInv'
  OBVIOUS
<1>1. CASE UNCHANGED vars
  BY <1>1, ResultKept
     DEF vars, IInv, Typed, QueriesHeld, BaselinesKnown, ItemsKnown, Collected, Creating,
         Measuring
<1>2. QED
  BY <1>1, WorldSteps, CreateSteps, CollectStep, AssembleStep, DoneSteps DEF Next

LEMMA InvAlways == Spec => []IInv
BY InvInit, InvPreserved, PTL DEF Spec

\* PDH holds open the four queries of the measurement there is, and no other,
\* whatever fails.
THEOREM QueriesClosed == Spec => []NoQueryLeft
<1>1. IInv => NoQueryLeft
  BY DEF IInv, QueriesHeld, NoQueryLeft
<1>2. QED
  BY <1>1, InvAlways, PTL

\* The four shares of a result are about the time from the last baselines to
\* the call.
THEOREM SpansHonest == Spec => []SpansInWindow
<1>1. IInv => SpansInWindow
  BY DEF IInv
<1>2. QED
  BY <1>1, InvAlways, PTL

\* No load lacks one of its four shares.
THEOREM LoadsComplete == Spec => []EveryLoadMeasured
<1>1. IInv => EveryLoadMeasured
  BY DEF IInv
<1>2. QED
  BY <1>1, InvAlways, PTL

\* The index of done() leaves the loads only after a CPU was added in the call.
THEOREM PanicExplained == Spec => []PanicsOnlyOnHotAdd
<1>1. IInv => PanicsOnlyOnHotAdd
  BY DEF IInv
<1>2. QED
  BY <1>1, InvAlways, PTL
-----------------------------------------------------------------------------

\* The fields the calls made so far have filled in.
Rest(s) == Len(Sock!Calls(platform)) - Len(s)
Filled == {f \in Sock!Field : \E i \in 1..Rest(todo) : f \in Sock!Calls(platform)[i]}

\* The result if nothing moved any more.
Projected == [f \in Sock!Field |-> IF f \in Filled THEN stats[f] ELSE sockets[f]]

SockTyped ==
    /\ platform \in {"linux", "windows"}
    /\ sockets \in [Sock!Field -> Nat]
    /\ stats \in [Sock!Field -> Nat]
    /\ glances \subseteq [Sock!Field -> Nat]
    /\ events \in Nat

\* The calls left are the last ones of the list.
CallsInOrder ==
    /\ todo \in Seq(SUBSET Sock!Field)
    /\ Len(todo) <= Len(Sock!Calls(platform))
    /\ \A i \in 1..Len(todo) : todo[i] = Sock!Calls(platform)[Rest(todo) + i]

\* Within a call: each call made saw one moment, and the sockets in use cannot
\* end up further from any moment of the call than the events.
GlancesKept ==
    Sock!InCall =>
        /\ sockets \in glances
        /\ \A i \in 1..Rest(todo) :
              \E g \in glances : \A f \in Sock!Calls(platform)[i] : stats[f] = g[f]
        /\ platform = "windows" => stats["orphaned"] = 0
        /\ \A g \in glances :
              Sock!InUse(Projected) \in Sock!InUse(g) - events..Sock!InUse(g) + events

SockInv ==
    /\ SockTyped
    /\ CallsInOrder
    /\ GlancesKept
    /\ sockRet = "ok" => ~Sock!InCall
    /\ SocketsHonest

\* Each field is filled in by one call, and each kind of socket by some call.
LEMMA CallsFacts ==
    ASSUME platform \in {"linux", "windows"}
    PROVE  /\ Sock!Calls(platform) \in Seq(SUBSET Sock!Field)
           /\ Len(Sock!Calls(platform)) \in {2, 4}
           /\ \A i, j \in 1..Len(Sock!Calls(platform)) :
                i # j => Sock!Calls(platform)[i] \cap Sock!Calls(platform)[j] = {}
           /\ \A f \in Sock!Kind : \E i \in 1..Len(Sock!Calls(platform)) :
                f \in Sock!Calls(platform)[i]
           /\ platform = "windows" => \A i \in 1..Len(Sock!Calls(platform)) :
                "orphaned" \notin Sock!Calls(platform)[i]
<1> USE DEF Sock!Calls, Sock!Field, Sock!Kind
<1>1. CASE platform = "linux"
  BY <1>1
<1>2. CASE platform = "windows"
  BY <1>2
<1>3. QED
  BY <1>1, <1>2

LEMMA SockInvInit == Sock!Init => SockInv
<1> SUFFICES ASSUME Sock!Init PROVE SockInv
  OBVIOUS
<1>1. SockTyped
  BY DEF Sock!Init, SockTyped, Sock!Zero
<1>2. CallsInOrder
  BY <1>1, CallsFacts DEF Sock!Init, SockTyped, CallsInOrder
<1>3. QED
  BY <1>1, <1>2 DEF Sock!Init, SockInv, GlancesKept, Sock!InCall, SocketsHonest,
                    Sock!SocketsHonest

\* A socket more or less of one kind.
LEMMA ChangeStep ==
    ASSUME SockInv,
           NEW now_ \in [Sock!Field -> Nat], NEW k_ \in Sock!Kind,
           now_[k_] \in sockets[k_] - 1..sockets[k_] + 1,
           \A f \in Sock!Kind \ {k_} : now_[f] = sockets[f],
           Sock!Change(now_)
    PROVE  SockInv'
<1> USE DEF Sock!Kind, Sock!Field
<1>1. SockTyped' /\ CallsInOrder'
  <2>1. UNCHANGED <<platform, todo, stats>> /\ sockets' = now_
    BY DEF Sock!Change
  <2>2. events' \in Nat /\ glances' \subseteq [Sock!Field -> Nat]
    BY DEF Sock!Change, SockInv, SockTyped
  <2>3. SockTyped'
    BY <2>1, <2>2 DEF SockInv, SockTyped
  <2>4. CallsInOrder'
    BY <2>1 DEF SockInv, CallsInOrder, Rest
  <2>5. QED
    BY <2>3, <2>4
<1>2. Sock!InCall' = Sock!InCall /\ Filled' = Filled /\ Rest(todo)' = Rest(todo)
  BY DEF Sock!Change, Sock!InCall, Filled, Rest
<1>3. CASE ~Sock!InCall
  BY <1>1, <1>2, <1>3 DEF Sock!Change, SockInv, GlancesKept, SocketsHonest, Sock!SocketsHonest
<1>4. CASE Sock!InCall
  <2>1. /\ sockets' = now_ /\ events' = events + 1 /\ glances' = glances \cup {now_}
        /\ UNCHANGED <<platform, todo, stats, sockRet>>
    BY <1>4 DEF Sock!Change
  <2>2. SocketsHonest' /\ (sockRet' = "ok" => ~Sock!InCall')
    BY <1>2, <1>4, <2>1 DEF SockInv, SocketsHonest, Sock!SocketsHonest
  <2>3. /\ sockets' \in glances'
        /\ \A i \in 1..Rest(todo) :
              \E g \in glances' : \A f \in Sock!Calls(platform)[i] : stats[f] = g[f]
        /\ platform = "windows" => stats["orphaned"] = 0
    BY <1>4, <2>1 DEF SockInv, GlancesKept
  <2>4. \A g \in glances :
            Sock!InUse(Projected) \in Sock!InUse(g) - events..Sock!InUse(g) + events
    BY <1>4 DEF SockInv, GlancesKept
  <2>5. /\ Projected \in [Sock!Field -> Nat] /\ Projected' \in [Sock!Field -> Nat]
        /\ \A f \in Sock!Kind \ {k_} : Projected'[f] = Projected[f]
    BY <1>2, <2>1 DEF SockInv, SockTyped, Projected
  <2>6. \/ k_ \in Filled /\ Projected'[k_] = Projected[k_]
        \/ k_ \notin Filled /\ Projected[k_] = sockets[k_] /\ Projected'[k_] = now_[k_]
    BY <1>2, <2>1 DEF Projected
  <2>7. \A g \in glances :
            Sock!InUse(Projected)' \in Sock!InUse(g) - events'..Sock!InUse(g) + events'
    <3> SUFFICES ASSUME NEW g \in glances
                 PROVE  Sock!InUse(Projected)' \in Sock!InUse(g) - events'..Sock!InUse(g) + events'
      OBVIOUS
    <3>1. g \in [Sock!Field -> Nat] /\ events \in Nat /\ sockets \in [Sock!Field -> Nat]
      BY DEF SockInv, SockTyped
    <3>2. Projected'[k_] \in Projected[k_] - 1..Projected[k_] + 1
      BY <2>5, <2>6, <3>1
    <3>3. QED
      BY <2>1, <2>4, <2>5, <3>1, <3>2 DEF Sock!InUse
  <2>8. Sock!InUse(Projected)' \in Sock!InUse(now_) - events'..Sock!InUse(now_) + events'
    <3>1. /\ events \in Nat /\ sockets \in [Sock!Field -> Nat]
          /\ Sock!InUse(Projected) \in Sock!InUse(sockets) - events..Sock!InUse(sockets) + events
      BY <1>4, <2>4 DEF SockInv, SockTyped, GlancesKept
    <3>2. QED
      BY <2>1, <2>5, <2>6, <3>1 DEF Sock!InUse
  <2>9. GlancesKept'
    BY <1>2, <2>1, <2>3, <2>7, <2>8 DEF GlancesKept
  <2>10. QED
    BY <1>1, <2>2, <2>9 DEF SockInv
<1>5. QED
  BY <1>3, <1>4

LEMMA CallStep ==
    ASSUME SockInv, Sock!Call
    PROVE  SockInv'
<1>1. /\ todo' = Sock!Calls(platform) /\ glances' = {sockets} /\ events' = 0
      /\ stats' = Sock!Zero /\ sockRet' = "nothing" /\ UNCHANGED <<platform, sockets>>
  BY DEF Sock!Call
<1>2. SockTyped' /\ CallsInOrder'
  BY <1>1, CallsFacts DEF SockInv, SockTyped, CallsInOrder, Rest, Sock!Zero
<1>3. Rest(todo)' = 0 /\ Filled' = {}
  BY <1>1, CallsFacts DEF SockInv, SockTyped, Rest, Filled
<1>4. Sock!InUse(Projected)' = Sock!InUse(sockets) /\ Sock!InUse(sockets) \in Int
  BY <1>1, <1>3 DEF SockInv, SockTyped, Projected, Sock!InUse, Sock!Field, Sock!Kind
<1>5. GlancesKept'
  BY <1>1, <1>3, <1>4 DEF GlancesKept, Sock!Zero, Sock!Field
<1>6. QED
  BY <1>1, <1>2, <1>5 DEF SockInv, SocketsHonest, Sock!SocketsHonest

LEMMA ReadStep ==
    ASSUME SockInv, Sock!Read
    PROVE  SockInv'
<1> DEFINE calls == Sock!Calls(platform)
           n == Rest(todo)
<1>1. /\ todo # << >> /\ todo' = Tail(todo)
      /\ stats' = [f \in Sock!Field |-> IF f \in Head(todo) THEN sockets[f] ELSE stats[f]]
      /\ sockRet' = IF Len(todo) = 1 THEN "ok" ELSE sockRet
      /\ UNCHANGED <<platform, sockets, events, glances>>
  BY DEF Sock!Read, Sock!InCall
<1>2. /\ todo \in Seq(SUBSET Sock!Field) /\ Len(todo) \in 1..Len(calls)
      /\ calls \in Seq(SUBSET Sock!Field) /\ Len(calls) \in Nat
      /\ n \in 0..(Len(calls) - 1)
  BY <1>1, CallsFacts DEF SockInv, SockTyped, CallsInOrder, Rest
<1>3. \A i, j \in 1..Len(calls) : i # j => calls[i] \cap calls[j] = {}
  BY CallsFacts DEF SockInv, SockTyped
<1>4. \A i \in 1..Len(calls) : calls[i] \subseteq Sock!Field
  BY <1>2
<1>5. Head(todo) = calls[n + 1]
  BY <1>1, <1>2 DEF SockInv, CallsInOrder
<1>6. /\ Len(todo') = Len(todo) - 1 /\ todo' \in Seq(SUBSET Sock!Field)
      /\ \A i \in 1..(Len(todo) - 1) : todo'[i] = todo[i + 1]
  BY <1>1, <1>2
<1>7. Rest(todo)' = n + 1
  BY <1>1, <1>2, <1>6 DEF Rest
<1>8. CallsInOrder'
  <2>1. \A i \in 1..Len(todo') : todo'[i] = calls[n + 1 + i]
    BY <1>2, <1>6 DEF SockInv, CallsInOrder
  <2>2. QED
    BY <1>1, <1>2, <1>6, <1>7, <2>1 DEF CallsInOrder
<1>9. SockTyped'
  BY <1>1 DEF SockInv, SockTyped
<1>10. Filled' = Filled \cup Head(todo) /\ Filled \cap Head(todo) = {}
  <2>1. Filled' = {f \in Sock!Field : \E i \in 1..(n + 1) : f \in calls[i]}
    BY <1>1, <1>7 DEF Filled
  <2>2. \A i \in 1..n : calls[i] \cap calls[n + 1] = {}
    BY <1>2, <1>3
  <2>3. calls[n + 1] \subseteq Sock!Field
    BY <1>2
  <2>4. 1..(n + 1) = 1..n \cup {n + 1}
    BY <1>2
  <2>5. QED
    BY <1>5, <2>1, <2>2, <2>3, <2>4 DEF Filled
<1>11. Projected' = Projected
  BY <1>1, <1>10 DEF Projected
<1>12. \A i \in 1..(n + 1) : \E g \in glances : \A f \in calls[i] : stats'[f] = g[f]
  <2>1. CASE Sock!InCall
    <3>1. \A f \in calls[n + 1] : stats'[f] = sockets[f]
      BY <1>1, <1>2, <1>5
    <3>2. ASSUME NEW i \in 1..n
          PROVE  \E g \in glances : \A f \in calls[i] : stats'[f] = g[f]
      <4>1. calls[i] \subseteq Sock!Field /\ calls[i] \cap Head(todo) = {}
        <5>1. i \in 1..Len(calls) /\ n + 1 \in 1..Len(calls) /\ i # n + 1
          BY <1>2
        <5>2. QED
          BY <1>5, <1>3, <1>4, <5>1
      <4>2. \A f \in calls[i] : stats'[f] = stats[f]
        BY <1>1, <4>1
      <4>3. QED
        BY <2>1, <4>2 DEF SockInv, GlancesKept
    <3>3. sockets \in glances
      BY <2>1 DEF SockInv, GlancesKept
    <3>4. QED
      BY <1>2, <3>1, <3>2, <3>3
  <2>2. QED
    BY <1>1, <2>1 DEF Sock!InCall
<1>13. platform = "windows" => stats'["orphaned"] = 0
  BY <1>1, <1>2, <1>5, CallsFacts DEF SockInv, SockTyped, GlancesKept, Sock!InCall, Sock!Field
<1>14. \A g \in glances : Sock!InUse(Projected) \in Sock!InUse(g) - events..Sock!InUse(g) + events
  BY <1>1 DEF SockInv, GlancesKept, Sock!InCall
<1>15. GlancesKept'
  <2>1. Sock!InUse(Projected)' = Sock!InUse(Projected)
    BY <1>11 DEF Sock!InUse
  <2>2. Sock!InCall' => sockets' \in glances'
    BY <1>1 DEF SockInv, GlancesKept, Sock!InCall
  <2>3. QED
    BY <1>1, <1>7, <1>12, <1>13, <1>14, <2>1, <2>2 DEF GlancesKept
<1>16. sockRet' = "ok" => todo' = << >> /\ Len(todo) = 1
  BY <1>1, <1>2 DEF SockInv, Sock!InCall
<1>17. SocketsHonest'
  <2> SUFFICES ASSUME sockRet' = "ok" PROVE SocketsHonest'
    BY DEF SocketsHonest, Sock!SocketsHonest
  <2>1. n + 1 = Len(calls) /\ DOMAIN calls = 1..Len(calls)
    <3>1. Len(todo) = 1
      BY <1>16
    <3>2. QED
      BY <1>2, <3>1 DEF Rest
  <2>2. \A f \in Sock!Kind : f \in Filled'
    BY <1>1, <1>7, <2>1, CallsFacts DEF SockInv, SockTyped, Filled, Sock!Field
  <2>3. Sock!InUse(Projected) = Sock!InUse(stats')
    BY <1>11, <2>2 DEF Projected, Sock!InUse, Sock!Kind, Sock!Field
  <2>4. \A i \in DOMAIN calls : \E g \in glances : \A f \in calls[i] : stats'[f] = g[f]
    BY <1>12, <2>1
  <2>5. \A g \in glances : Sock!InUse(stats') \in Sock!InUse(g) - events..Sock!InUse(g) + events
    BY <1>14, <2>3
  <2>6. QED
    BY <1>1, <1>13, <2>4, <2>5 DEF SocketsHonest, Sock!SocketsHonest
<1>18. QED
  BY <1>8, <1>9, <1>15, <1>16, <1>17 DEF SockInv, Sock!InCall

LEMMA SockInvPreserved == SockInv /\ [Sock!Next]_sockState => SockInv'
<1> SUFFICES ASSUME SockInv, [Sock!Next]_sockState PROVE SockInv'
  OBVIOUS
<1>1. ASSUME NEW f \in Sock!Kind, Sock!Open(f) \/ Sock!Close(f)
      PROVE  SockInv'
  <2>1. PICK now_ \in {[sockets EXCEPT ![f] = @ + 1], [sockets EXCEPT ![f] = @ - 1]} :
            Sock!Change(now_) /\ (now_[f] = sockets[f] + 1 \/ now_[f] \in Nat)
    BY <1>1 DEF Sock!Open, Sock!Close, SockInv, SockTyped, Sock!Field
  <2>2. /\ now_ \in [Sock!Field -> Nat]
        /\ now_[f] \in sockets[f] - 1..sockets[f] + 1
        /\ \A e \in Sock!Kind \ {f} : now_[e] = sockets[e]
    BY <2>1 DEF SockInv, SockTyped, Sock!Field
  <2>3. QED
    BY <2>1, <2>2, ChangeStep
<1>2. CASE Sock!Orphan
  <2>1. PICK f \in {"tcp", "orphaned"}, g \in {"tcp", "orphaned"} :
            /\ f # g /\ sockets[f] > 0
            /\ Sock!Change([sockets EXCEPT ![f] = @ - 1, ![g] = @ + 1])
    BY <1>2 DEF Sock!Orphan
  <2> DEFINE now_ == [sockets EXCEPT ![f] = @ - 1, ![g] = @ + 1]
  <2>2. /\ now_ \in [Sock!Field -> Nat]
        /\ now_["tcp"] \in sockets["tcp"] - 1..sockets["tcp"] + 1
        /\ \A e \in Sock!Kind \ {"tcp"} : now_[e] = sockets[e]
    BY <2>1 DEF SockInv, SockTyped, Sock!Field, Sock!Kind
  <2>3. "tcp" \in Sock!Kind
    BY DEF Sock!Kind
  <2> HIDE DEF now_
  <2>4. Sock!Change(now_)
    BY <2>1 DEF now_
  <2>5. QED
    BY <2>2, <2>3, <2>4, ChangeStep
<1>3. CASE Sock!Call
  BY <1>3, CallStep
<1>4. CASE Sock!Read
  BY <1>4, ReadStep
<1>5. CASE Sock!ReadFails
  <2>1. CallsInOrder'
    BY <1>5, CallsFacts DEF Sock!ReadFails, SockInv, SockTyped, CallsInOrder, Rest
  <2>2. QED
    BY <1>5, <2>1 DEF Sock!ReadFails, SockInv, SockTyped, GlancesKept, Sock!InCall, SocketsHonest,
                      Sock!SocketsHonest
<1>6. CASE UNCHANGED sockState
  <2>1. UNCHANGED <<platform, sockets, todo, stats, sockRet, events, glances>>
    BY <1>6 DEF sockState
  <2>2. Projected' = Projected /\ Rest(todo)' = Rest(todo) /\ Sock!InCall' = Sock!InCall
    BY <2>1 DEF Projected, Filled, Rest, Sock!InCall
  <2>3. SockTyped' /\ CallsInOrder' /\ SocketsHonest'
    BY <2>1, <2>2 DEF SockInv, SockTyped, CallsInOrder, SocketsHonest, Sock!SocketsHonest
  <2>4. GlancesKept'
    BY <2>1, <2>2 DEF SockInv, GlancesKept, Sock!InUse
  <2>5. QED
    BY <2>1, <2>2, <2>3, <2>4 DEF SockInv
<1>7. QED
  BY <1>1, <1>2, <1>3, <1>4, <1>5, <1>6 DEF Sock!Next

\* What is read call by call was there at a moment of the call, and the sockets
\* in use are as far off as there were events, on both platforms.
THEOREM SocketCountsHonest == Sock!Spec => []SocketsHonest
<1>1. SockInv => SocketsHonest
  BY DEF SockInv
<1>2. SockInv /\ [Sock!Next]_Sock!vars => SockInv'
  BY SockInvPreserved DEF sockState, Sock!vars
<1>3. QED
  BY <1>1, <1>2, SockInvInit, PTL DEF Sock!Spec

\* A behaviour of the composition is one of each component, so that what is
\* proved of either holds of it.
THEOREM CountersCompose == CountersSpec => Spec /\ Sock!Spec
<1>1. CountersInit => Init /\ Sock!Init
  BY DEF CountersInit
<1>2. [CountersNext]_<<component, vars, sockState>> => [Next]_vars
  BY DEF CountersNext
<1>3. [CountersNext]_<<component, vars, sockState>> => [Sock!Next]_Sock!vars
  BY DEF CountersNext, sockState, Sock!vars
<1>4. QED
  BY <1>1, <1>2, <1>3, PTL DEF CountersSpec, Spec, Sock!Spec
=============================================================================
