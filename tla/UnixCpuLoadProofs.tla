------------------------- MODULE UnixCpuLoadProofs -------------------------
(***************************************************************************)
(* OpenBsdCpuLoad keeps its types, samples inside its calls and implements *)
(* CpuWindow; so does FreeBsdCpuLoad, where the first call decides for all *)
(* of them; LinuxCpuLoad keeps what hotplug cannot break.  For every       *)
(* number of CPUs, set of ticking states and bound.  The facts about       *)
(* FreeBSD and Linux begin with Fb and Lx.                                 *)
(***************************************************************************)
EXTENDS UnixCpuLoad, InductionFacts, SequenceTheorems, TLAPS

\* The difference of two samples is a sample (saturating_sub, data.rs:156-170).
LEMMA SubType ==
    ASSUME NEW s \in CpuTime, NEW t \in CpuTime
    PROVE  Sub(s, t) \in CpuTime
BY DEF Sub, Monus, CpuTime

\* A total is a number and no field exceeds it (data.rs:174).
LEMMA TotalBounds ==
    ASSUME NEW t \in CpuTime
    PROVE  /\ Total(t) \in Nat
           /\ \A f \in Field : t[f] <= Total(t)
BY DEF Total, CpuTime, Field

\* For every difference, to_cpuload divides by a positive number and its
\* fields are the shares of one whole, or all zero (data.rs:172-195; the
\* tests at mod.rs:65 and 75 add the fields up).
THEOREM ToCpuLoadCorrect ==
    ASSUME NEW t \in CpuTime
    PROVE  /\ ToCpuLoad(t) \in CpuLoad
           /\ IsPartition(ToCpuLoad(t))
           /\ ToCpuLoad(t).part = t
<1>1. Total(t) \in Nat /\ \A f \in Field : t[f] <= Total(t)
  BY TotalBounds
<1>2. CASE Total(t) = 0
  <2>1. ASSUME NEW f \in Field
        PROVE  t[f] = 0
    <3>1. t[f] \in Nat
      BY DEF CpuTime
    <3>2. QED
      BY <1>1, <1>2, <3>1
  <2>2. t = [f \in Field |-> 0]
    BY <2>1 DEF CpuTime
  <2>3. QED
    BY <1>2, <2>2 DEF ToCpuLoad, ZeroLoad, CpuLoad, IsPartition
<1>3. CASE Total(t) # 0
  BY <1>1, <1>3 DEF ToCpuLoad, CpuLoad, IsPartition, CpuTime
<1>4. QED
  BY <1>2, <1>3

\* A vector of loads has one entry per pair, each made of that pair alone
\* (linux.rs:527-531, openbsd.rs:56-59, freebsd.rs:75-78).
LEMMA LoadsType ==
    ASSUME NEW now \in Seq(CpuTime), NEW prev \in Seq(CpuTime)
    PROVE  /\ Loads(now, prev) \in Seq(CpuLoad)
           /\ Len(Loads(now, prev)) = ZipLen(now, prev)
           /\ \A i \in 1..ZipLen(now, prev) :
                  Loads(now, prev)[i] = ToCpuLoad(Sub(now[i], prev[i]))
<1>1. ZipLen(now, prev) \in Nat
  BY LenProperties DEF ZipLen
<1>2. \A i \in 1..ZipLen(now, prev) :
          now[i] \in CpuTime /\ prev[i] \in CpuTime
  BY LenProperties, ElementOfSeq DEF ZipLen
<1>3. \A i \in 1..ZipLen(now, prev) :
          ToCpuLoad(Sub(now[i], prev[i])) \in CpuLoad
  BY <1>2, SubType, ToCpuLoadCorrect
<1>4. QED
  BY <1>1, <1>3 DEF Loads

\* Saturation is exact when no counter went back (data.rs:162-167).
LEMMA SubExact ==
    ASSUME NEW s \in CpuTime, NEW t \in CpuTime, Before(t, s), NEW f \in Field
    PROVE  Sub(s, t)[f] = s[f] - t[f]
BY DEF Sub, Monus, CpuTime, Before

LEMMA BeforeTransitive ==
    ASSUME NEW r \in CpuTime, NEW s \in CpuTime, NEW t \in CpuTime,
           Before(r, s), Before(s, t)
    PROVE  Before(r, t)
<1> SUFFICES ASSUME NEW f \in Field
             PROVE  r[f] <= t[f]
  BY DEF Before
<1>1. r[f] \in Nat /\ s[f] \in Nat /\ t[f] \in Nat
  BY DEF CpuTime
<1>2. r[f] <= s[f] /\ s[f] <= t[f]
  BY DEF Before
<1>3. QED
  BY <1>1, <1>2

LEMMA BeforeReflexive ==
    ASSUME NEW t \in CpuTime
    PROVE  Before(t, t)
BY DEF Before, CpuTime

-----------------------------------------------------------------------------

\* The record the kernel fills converts to a CpuTime (openbsd.rs:278-289).
LEMMA FromSysctlType ==
    ASSUME NEW k \in KernelTime
    PROVE  FromSysctl(k) \in CpuTime
<1>1. ASSUME NEW f \in Field
      PROVE  (IF f = "other" THEN 0 ELSE k[f]) \in Nat
  BY <1>1 DEF KernelTime, KernelField, Field
<1>2. QED
  BY <1>1 DEF FromSysctl, CpuTime

\* The conversion keeps the order of two readings.
LEMMA FromSysctlOrder ==
    ASSUME NEW j \in KernelTime, NEW k \in KernelTime,
           \A f \in KernelField : j[f] <= k[f]
    PROVE  Before(FromSysctl(j), FromSysctl(k))
<1> SUFFICES ASSUME NEW f \in Field
             PROVE  FromSysctl(j)[f] <= FromSysctl(k)[f]
  BY DEF Before
<1>1. CASE f = "other"
  BY <1>1 DEF FromSysctl
<1>2. CASE f # "other"
  BY <1>2 DEF FromSysctl, Field, KernelField
<1>3. QED
  BY <1>1, <1>2

\* A tick moves the sample of its CPU forward and no other (the kernel's
\* counters only grow).
LEMMA TickForward ==
    ASSUME TypeOK, NEW c \in Cpu, NEW f \in Ticking, Tick(c, f)
    PROVE  /\ time' \in [Cpu -> KernelTime]
           /\ Sampled \in [Cpu -> CpuTime]
           /\ Sampled' \in [Cpu -> CpuTime]
           /\ \A d \in Cpu : Before(Sampled[d], Sampled'[d])
<1> USE ConstantsAssumption
<1>1. f \in KernelField
  OBVIOUS
<1>2. time \in [Cpu -> KernelTime] /\ time' = [time EXCEPT ![c][f] = @ + 1]
  BY DEF Tick, TypeOK
<1>3. time[c] \in [KernelField -> Nat] /\ time[c][f] \in Nat
  BY <1>1, <1>2 DEF KernelTime
<1>4. [time[c] EXCEPT ![f] = @ + 1] \in KernelTime
  BY <1>3 DEF KernelTime
<1>5. time' \in [Cpu -> KernelTime]
  BY <1>2, <1>4
<1>6. \A d \in Cpu : /\ FromSysctl(time[d]) \in CpuTime
                     /\ FromSysctl(time'[d]) \in CpuTime
  BY <1>2, <1>5, FromSysctlType
<1>7. ASSUME NEW d \in Cpu
      PROVE  Before(FromSysctl(time[d]), FromSysctl(time'[d]))
  <2>1. ASSUME NEW g \in KernelField
        PROVE  time[d][g] <= time'[d][g]
    <3>1. time[d][g] \in Nat
      BY <1>2 DEF KernelTime
    <3>2. CASE d = c /\ g = f
      BY <1>2, <1>3, <3>1, <3>2
    <3>3. CASE ~(d = c /\ g = f)
      BY <1>2, <1>3, <3>1, <3>3
    <3>4. QED
      BY <3>2, <3>3
  <2>2. time[d] \in KernelTime /\ time'[d] \in KernelTime
    BY <1>2, <1>5
  <2>3. QED
    BY <2>1, <2>2, FromSysctlOrder
<1>8. QED
  BY <1>5, <1>6, <1>7 DEF Sampled

\* An answered sysctl extends the prefix by a sample of the next CPU.
LEMMA SampleExtends ==
    ASSUME TypeOK, Sample
    PROVE  /\ data' \in Seq(CpuTime)
           /\ Len(data') = Len(data) + 1
           /\ Len(data) + 1 \in Cpu
           /\ \A i \in 1..Len(data) : data'[i] = data[i]
           /\ data'[Len(data) + 1] = FromSysctl(time[Len(data) + 1])
<1> USE ConstantsAssumption
<1>1. data \in Seq(CpuTime) /\ Len(data) \in Nat
  BY LenProperties DEF TypeOK
<1>2. Len(data) + 1 \in Cpu
  BY <1>1 DEF Sample, Cpu
<1>3. FromSysctl(time[Len(data) + 1]) \in CpuTime
  BY <1>2, FromSysctlType DEF TypeOK
<1>4. QED
  BY <1>1, <1>2, <1>3, AppendProperties DEF Sample

-----------------------------------------------------------------------------

\* The loads done() returns (openbsd.rs:56-59): one per CPU, in CpuLoad.
LEMMA ReturnedLoads ==
    ASSUME TypeOK, ReturnLoads
    PROVE  /\ ret'.tag = "loads"
           /\ ret'.loads \in Seq(CpuLoad)
           /\ DOMAIN ret'.loads = Cpu
           /\ \A c \in Cpu : ret'.loads[c] = ToCpuLoad(Sub(data[c], base[c]))
           /\ \A c \in Cpu : data[c] \in CpuTime /\ base[c] \in CpuTime
<1> USE ConstantsAssumption
<1>1. data \in Seq(CpuTime) /\ base \in Seq(CpuTime)
  BY DEF TypeOK
<1>2. base # << >>
  BY DEF TypeOK, ReturnLoads, NoBase
<1>3. Len(data) = N /\ Len(base) = N
  BY <1>1, <1>2, EmptySeq DEF TypeOK, ReturnLoads
<1>4. ZipLen(data, base) = N
  BY <1>3 DEF ZipLen
<1>5. ret' = [tag |-> "loads", loads |-> Loads(data, base)]
  BY DEF ReturnLoads
<1>6. /\ Loads(data, base) \in Seq(CpuLoad)
      /\ Len(Loads(data, base)) = N
      /\ \A c \in 1..N : Loads(data, base)[c] = ToCpuLoad(Sub(data[c], base[c]))
  BY <1>1, <1>4, LoadsType
<1>7. QED
  BY <1>1, <1>3, <1>5, <1>6, LenProperties, ElementOfSeq DEF Cpu

\* Every step of the kernel and of the calls keeps the types.
LEMMA TypePreserved == TypeOK /\ [Next]_vars => TypeOK'
<1> USE ConstantsAssumption
<1> SUFFICES ASSUME TypeOK, [Next]_vars
             PROVE  TypeOK'
  OBVIOUS
<1> USE DEF TypeOK
<1>0. << >> \in Seq(CpuTime) /\ << >> \in Seq(CpuLoad) /\ Len(<< >>) = 0
  BY EmptySeq
<1>1. ASSUME NEW c \in Cpu, NEW f \in Ticking, Tick(c, f)
      PROVE  TypeOK'
  <2>1. time' \in [Cpu -> KernelTime]
    BY <1>1, TickForward
  <2>2. clock' \in Nat
    BY <1>1 DEF Tick
  <2>3. QED
    BY <1>1, <2>1, <2>2 DEF Tick
<1>2. ASSUME NEW op \in {"create", "done"}, Call(op)
      PROVE  TypeOK'
  BY <1>0, <1>2 DEF Call
<1>3. CASE Sample
  <2>1. Len(data) \in Nat
    BY LenProperties
  <2>2. data' \in Seq(CpuTime) /\ Len(data') <= N
    BY <1>3, <2>1, SampleExtends DEF Sample
  <2>3. QED
    BY <1>3, <2>2 DEF Sample
<1>4. CASE SysctlFails
  BY <1>0, <1>4 DEF SysctlFails, Failure
<1>5. CASE ReturnCreated
  BY <1>0, <1>5 DEF ReturnCreated, Created
<1>6. CASE ReturnLoads
  <2>1. ret' \in [tag : {"nothing", "created", "err", "loads"}, loads : Seq(CpuLoad)]
    BY <1>6, ReturnedLoads DEF ReturnLoads
  <2>2. QED
    BY <1>0, <1>6, <2>1 DEF ReturnLoads
<1>7. CASE Drop
  BY <1>0, <1>7 DEF Drop, NoBase
<1>8. CASE UNCHANGED vars
  BY <1>8 DEF vars
<1>9. QED
  BY <1>1, <1>2, <1>3, <1>4, <1>5, <1>6, <1>7, <1>8 DEF Next

\* The type invariant holds whatever the CPUs, the ticks and the failures.
THEOREM TypeCorrect == Spec => []TypeOK
<1> USE ConstantsAssumption
<1>1. Init => TypeOK
  <2> SUFFICES ASSUME Init PROVE TypeOK
    OBVIOUS
  <2>1. << >> \in Seq(CpuTime) /\ << >> \in Seq(CpuLoad) /\ Len(<< >>) = 0
    BY EmptySeq
  <2>2. QED
    BY <2>1 DEF Init, TypeOK, NoBase, Nothing, KernelTime
<1>2. QED
  BY <1>1, TypePreserved, PTL DEF Spec

-----------------------------------------------------------------------------

\* What induction needs: the two bracketing invariants and the types.
SafeInv == TypeOK /\ SampleInsideCall /\ BaseBehind

LEMMA SafeInvStep == SafeInv /\ [Next]_vars => SafeInv'
<1> USE ConstantsAssumption
<1> SUFFICES ASSUME TypeOK, SampleInsideCall, BaseBehind, [Next]_vars, TypeOK'
             PROVE  SampleInsideCall' /\ BaseBehind'
  BY TypePreserved DEF SafeInv
<1>1. \A c \in Cpu : /\ Sampled[c] \in CpuTime
                    /\ SampledWhenBegan[c] \in CpuTime
                    /\ Sampled'[c] \in CpuTime
                    /\ SampledWhenBegan'[c] \in CpuTime
  BY FromSysctlType DEF TypeOK, Sampled, SampledWhenBegan
<1>2. /\ \A c \in 1..Len(data) : c \in Cpu /\ data[c] \in CpuTime
      /\ base # NoBase => \A c \in Cpu : base[c] \in CpuTime
  <2>1. Len(data) \in Nat /\ Len(data) <= N
    BY LenProperties DEF TypeOK
  <2>2. base # NoBase => Len(base) = N
    BY EmptySeq DEF TypeOK, NoBase
  <2>3. \A c \in 1..Len(data) : c \in Cpu /\ data[c] \in CpuTime
    <3>1. data \in Seq(CpuTime)
      BY DEF TypeOK
    <3>2. QED
      BY <2>1, <3>1, ElementOfSeq DEF Cpu
  <2>4. ASSUME base # NoBase, NEW c \in Cpu
        PROVE  base[c] \in CpuTime
    <3>1. base \in Seq(CpuTime) /\ c \in 1..Len(base)
      BY <2>2, <2>4 DEF TypeOK, Cpu
    <3>2. QED
      BY <3>1, ElementOfSeq
  <2>5. QED
    BY <2>3, <2>4
<1>3. ASSUME NEW c \in Cpu, NEW f \in Ticking, Tick(c, f)
      PROVE  SampleInsideCall' /\ BaseBehind'
  <2>1. \A d \in Cpu : Before(Sampled[d], Sampled'[d])
    BY <1>3, TickForward
  <2>2. data' = data /\ base' = base /\ phase' = phase
        /\ SampledWhenBegan' = SampledWhenBegan
    BY <1>3 DEF Tick, SampledWhenBegan
  <2>3. SampleInsideCall'
    BY <1>1, <1>2, <2>1, <2>2, BeforeTransitive DEF SampleInsideCall
  <2>4. BaseBehind'
    BY <1>1, <1>2, <2>1, <2>2, BeforeTransitive DEF BaseBehind
  <2>5. QED
    BY <2>3, <2>4
<1>4. ASSUME NEW op \in {"create", "done"}, Call(op)
      PROVE  SampleInsideCall' /\ BaseBehind'
  <2>1. data' = << >> /\ base' = base /\ Sampled' = Sampled
        /\ SampledWhenBegan' = Sampled
    BY <1>4 DEF Call, Sampled, SampledWhenBegan
  <2>2. SampleInsideCall'
    BY <1>1, <2>1, BeforeReflexive DEF SampleInsideCall
  <2>3. BaseBehind'
    BY <2>1 DEF BaseBehind
  <2>4. QED
    BY <2>2, <2>3
<1>5. CASE Sample
  <2>1. /\ base' = base /\ phase' = phase /\ Sampled' = Sampled
        /\ SampledWhenBegan' = SampledWhenBegan
    BY <1>5 DEF Sample, Sampled, SampledWhenBegan
  <2>2. BaseBehind'
    BY <2>1 DEF BaseBehind
  <2>3. ASSUME NEW c \in 1..Len(data')
        PROVE  Before(SampledWhenBegan[c], data'[c]) /\ Before(data'[c], Sampled[c])
    <3>1. Len(data) \in Nat
      BY LenProperties DEF TypeOK
    <3>2. c \in 1..Len(data) \/ c = Len(data) + 1
      BY <1>5, <3>1, SampleExtends
    <3>3. CASE c \in 1..Len(data)
      BY <1>5, <3>3, SampleExtends DEF SampleInsideCall
    <3>4. CASE c = Len(data) + 1
      <4>1. c \in Cpu /\ data'[c] = Sampled[c]
        BY <1>5, <3>4, SampleExtends DEF Sampled
      <4>2. QED
        BY <1>1, <4>1, BeforeReflexive DEF SampleInsideCall
    <3>5. QED
      BY <3>2, <3>3, <3>4
  <2>4. SampleInsideCall'
    BY <2>1, <2>3 DEF SampleInsideCall
  <2>5. QED
    BY <2>2, <2>4
<1>6. CASE SysctlFails
  BY <1>6 DEF SysctlFails, SampleInsideCall, BaseBehind, Sampled, SampledWhenBegan
<1>7. CASE ReturnCreated
  <2>1. base' = data /\ data' = << >> /\ phase' = "idle" /\ Len(data) = N
        /\ Sampled' = Sampled /\ SampledWhenBegan' = SampledWhenBegan
    BY <1>7 DEF ReturnCreated, Sampled, SampledWhenBegan
  <2>2. QED
    BY <2>1 DEF SampleInsideCall, BaseBehind, Cpu
<1>8. CASE ReturnLoads
  BY <1>8 DEF ReturnLoads, SampleInsideCall, BaseBehind, Sampled, SampledWhenBegan
<1>9. CASE Drop
  BY <1>9 DEF Drop, SampleInsideCall, BaseBehind, Sampled, SampledWhenBegan
<1>10. CASE UNCHANGED vars
  BY <1>10 DEF vars, SampleInsideCall, BaseBehind, Sampled, SampledWhenBegan
<1>11. QED
  BY <1>3, <1>4, <1>5, <1>6, <1>7, <1>8, <1>9, <1>10 DEF Next

LEMMA SafeInvInit == Init => SafeInv
<1> USE ConstantsAssumption
<1> SUFFICES ASSUME Init PROVE SafeInv
  OBVIOUS
<1>1. TypeOK
  <2>1. << >> \in Seq(CpuTime) /\ << >> \in Seq(CpuLoad) /\ Len(<< >>) = 0
    BY EmptySeq
  <2>2. QED
    BY <2>1 DEF Init, TypeOK, NoBase, Nothing, KernelTime
<1>2. \A c \in Cpu : Sampled[c] \in CpuTime /\ SampledWhenBegan[c] = Sampled[c]
  BY <1>1, FromSysctlType DEF Init, TypeOK, Sampled, SampledWhenBegan
<1>3. SampleInsideCall
  BY <1>2, BeforeReflexive DEF Init, SampleInsideCall
<1>4. BaseBehind
  BY DEF Init, BaseBehind
<1>5. QED
  BY <1>1, <1>3, <1>4 DEF SafeInv

\* Every entry of a sample, finished or not, was true at a moment of the call
\* that took it, for every number of CPUs.
THEOREM SamplingIsLocal == Spec => []SampleInsideCall
<1>1. SafeInv => SampleInsideCall
  BY DEF SafeInv
<1>2. QED
  BY SafeInvInit, SafeInvStep, <1>1, PTL DEF Spec

\* The baseline of a measurement never overtakes the kernel nor the start of
\* a done(), so no difference of openbsd.rs:58 saturates.
THEOREM BaselineIsOld == Spec => []BaseBehind
<1>1. SafeInv => BaseBehind
  BY DEF SafeInv
<1>2. QED
  BY SafeInvInit, SafeInvStep, <1>1, PTL DEF Spec

-----------------------------------------------------------------------------

\* The abstract module means the same by the words both use.
LEMMA SameWords ==
    /\ Window!Field = Field
    /\ Window!CpuTime = CpuTime
    /\ Window!CpuLoad = CpuLoad
    /\ \A s, t : Window!Before(s, t) <=> Before(s, t)
    /\ \A l : Window!IsPartition(l) <=> IsPartition(l)
<1>1. Window!Field = Field
  BY DEF Window!Field, Field
<1>2. \A t : Window!Total(t) = Total(t)
  BY DEF Window!Total, Total
<1>3. QED
  BY <1>1, <1>2 DEF Window!CpuTime, CpuTime, Window!CpuLoad, CpuLoad,
                    Window!Before, Before, Window!IsPartition, IsPartition

\* When done() returns, each load is the share of a span from the baseline to
\* a moment of the call.
LEMMA LoadsWithinWindow ==
    ASSUME SafeInv, ReturnLoads
    PROVE  Window!WithinWindow(ret'.loads, base, SampledWhenBegan, Sampled)
<1> USE ConstantsAssumption
<1> SUFFICES ASSUME NEW c \in Cpu
             PROVE  /\ ret'.loads[c] \in CpuLoad
                    /\ IsPartition(ret'.loads[c])
                    /\ \A f \in Field :
                         /\ SampledWhenBegan[c][f] - base[c][f] <= ret'.loads[c].part[f]
                         /\ ret'.loads[c].part[f] <= Sampled[c][f] - base[c][f]
  BY SameWords DEF Window!WithinWindow
<1>1. /\ ret'.loads[c] = ToCpuLoad(Sub(data[c], base[c]))
      /\ data[c] \in CpuTime
      /\ base[c] \in CpuTime
  BY ReturnedLoads DEF SafeInv
<1>2. Sub(data[c], base[c]) \in CpuTime
  BY <1>1, SubType
<1>3. /\ ret'.loads[c] \in CpuLoad
      /\ IsPartition(ret'.loads[c])
      /\ ret'.loads[c].part = Sub(data[c], base[c])
  BY <1>1, <1>2, ToCpuLoadCorrect
<1>4. Sampled[c] \in CpuTime /\ SampledWhenBegan[c] \in CpuTime
  BY FromSysctlType DEF SafeInv, TypeOK, Sampled, SampledWhenBegan
<1>5. Before(SampledWhenBegan[c], data[c]) /\ Before(data[c], Sampled[c])
  BY DEF SafeInv, SampleInsideCall, ReturnLoads, Cpu
<1>6. Before(base[c], SampledWhenBegan[c])
  BY DEF SafeInv, BaseBehind, TypeOK, ReturnLoads
<1>7. Before(base[c], data[c])
  BY <1>1, <1>4, <1>5, <1>6, BeforeTransitive
<1>8. ASSUME NEW f \in Field
      PROVE  /\ SampledWhenBegan[c][f] - base[c][f] <= ret'.loads[c].part[f]
             /\ ret'.loads[c].part[f] <= Sampled[c][f] - base[c][f]
  <2>1. ret'.loads[c].part[f] = data[c][f] - base[c][f]
    BY <1>1, <1>3, <1>7, SubExact
  <2>2. SampledWhenBegan[c][f] <= data[c][f] /\ data[c][f] <= Sampled[c][f]
    BY <1>5 DEF Before
  <2>3. /\ SampledWhenBegan[c][f] \in Nat /\ data[c][f] \in Nat
        /\ Sampled[c][f] \in Nat /\ base[c][f] \in Nat
    BY <1>1, <1>4 DEF CpuTime
  <2>4. QED
    BY <2>1, <2>2, <2>3
<1>9. QED
  BY <1>3, <1>8

LEMMA InitImplements == Init => Window!Init
<1> SUFFICES ASSUME Init PROVE Window!Init
  OBVIOUS
<1>1. \A c \in Cpu : FromSysctl(time[c]) \in CpuTime
  BY FromSysctlType DEF Init, KernelTime
<1>2. Sampled \in [Cpu -> CpuTime] /\ SampledWhenBegan = Sampled
  BY <1>1 DEF Init, Sampled, SampledWhenBegan
<1>3. QED
  BY <1>2, SameWords DEF Init, Window!Init, NoBase, Window!NoBase, Nothing, Window!Nothing

LEMMA StepImplements ==
    SafeInv /\ SafeInv' /\ [Next]_vars => [Window!Next]_(Window!wvars)
<1> USE ConstantsAssumption
<1> SUFFICES ASSUME SafeInv, SafeInv', [Next]_vars
             PROVE  Window!Next \/ UNCHANGED Window!wvars
  OBVIOUS
<1> USE DEF Window!NoBase, NoBase
<1>1. ASSUME NEW c \in Cpu, NEW f \in Ticking, Tick(c, f)
      PROVE  Window!Advance
  <2>1. /\ Sampled' \in [Cpu -> CpuTime]
        /\ \A d \in Cpu : Before(Sampled[d], Sampled'[d])
    BY <1>1, TickForward DEF SafeInv
  <2>2. QED
    BY <1>1, <2>1, SameWords DEF Tick, Window!Advance, Window!AllBefore, SampledWhenBegan
<1>2. ASSUME NEW op \in {"create", "done"}, Call(op)
      PROVE  Window!Call(op)
  BY <1>2 DEF Call, Window!Call, Sampled, SampledWhenBegan
<1>3. CASE Sample
  BY <1>3 DEF Sample, Window!wvars, Sampled, SampledWhenBegan
<1>4. CASE SysctlFails
  BY <1>4 DEF SysctlFails, Window!Next, Window!ReturnFailure, Failure, Window!Failure,
              Sampled, SampledWhenBegan
<1>5. CASE ReturnCreated
  <2>1. data \in [Cpu -> CpuTime]
    BY <1>5, LenProperties DEF SafeInv, TypeOK, ReturnCreated, Cpu
  <2>2. \A c \in Cpu : /\ Before(SampledWhenBegan[c], data[c])
                      /\ Before(data[c], Sampled[c])
    BY <1>5 DEF SafeInv, SampleInsideCall, ReturnCreated, Cpu
  <2>3. Window!ReturnCreated
    BY <1>5, <2>1, <2>2, SameWords DEF ReturnCreated, Window!ReturnCreated, Window!AllBefore,
                            Created, Window!Created, Sampled, SampledWhenBegan
  <2>4. QED
    BY <2>3 DEF Window!Next
<1>6. CASE ReturnLoads
  <2>1. Window!WithinWindow(ret'.loads, base, SampledWhenBegan, Sampled)
    BY <1>6, LoadsWithinWindow
  <2>2. ret'.tag = "loads" /\ DOMAIN ret'.loads = Cpu
    BY <1>6, ReturnedLoads DEF SafeInv
  <2>3. Window!ReturnLoads
    BY <1>6, <2>1, <2>2 DEF ReturnLoads, Window!ReturnLoads, Sampled, SampledWhenBegan
  <2>4. QED
    BY <2>3 DEF Window!Next
<1>7. CASE Drop
  BY <1>7 DEF Drop, Window!Next, Window!Drop, Sampled, SampledWhenBegan
<1>8. CASE UNCHANGED vars
  BY <1>8 DEF vars, Window!wvars, Sampled, SampledWhenBegan
<1>9. QED
  BY <1>1, <1>2, <1>3, <1>4, <1>5, <1>6, <1>7, <1>8 DEF Next, Window!Next

\* The per-CPU sampling loop implements the promise of a delayed measurement:
\* each load covers at least the time between cpu_load() and done() and at
\* most the two calls with it, however the loop is interleaved with the
\* kernel and wherever it fails.
THEOREM Implementation == Spec => ImplementsWindow
<1>1. SafeInv /\ [Next]_vars => SafeInv'
  BY SafeInvStep
<1>2. QED
  BY SafeInvInit, <1>1, InitImplements, StepImplements, PTL
     DEF Spec, ImplementsWindow, Window!Spec

-----------------------------------------------------------------------------
\* FreeBSD.  FreeBsdCpuLoad has words of its own for the arithmetic of data.rs.
LEMMA FbWords ==
    /\ FreeBsd!Field = Field /\ FreeBsd!CpuTime = CpuTime /\ FreeBsd!CpuLoad = CpuLoad
    /\ \A s, t : FreeBsd!Before(s, t) <=> Before(s, t)
    /\ \A now, prev : FreeBsd!Loads(now, prev) = Loads(now, prev)
<1>1. FreeBsd!Field = Field
  BY DEF FreeBsd!Field, Field
<1>2. /\ FreeBsd!CpuTime = CpuTime /\ FreeBsd!CpuLoad = CpuLoad
      /\ \A s, t : FreeBsd!Before(s, t) <=> Before(s, t)
      /\ \A s, t : FreeBsd!Sub(s, t) = Sub(s, t)
  BY <1>1 DEF FreeBsd!CpuTime, CpuTime, FreeBsd!CpuLoad, CpuLoad, FreeBsd!Before, Before,
              FreeBsd!Sub, Sub, FreeBsd!Monus, Monus
<1>3. \A t : FreeBsd!ToCpuLoad(t) = ToCpuLoad(t)
  BY <1>1 DEF FreeBsd!ToCpuLoad, ToCpuLoad, FreeBsd!Total, Total, FreeBsd!ZeroLoad, ZeroLoad
<1>4. \A s, t : FreeBsd!ZipLen(s, t) = ZipLen(s, t)
  BY DEF FreeBsd!ZipLen, ZipLen
<1>5. QED
  BY <1>1, <1>2, <1>3, <1>4 DEF FreeBsd!Loads, Loads

USE FbWords, FreeBsdAssumption

\* The record the kernel fills converts to a CpuTime (bsd.rs:27-38).
LEMMA FbFromSysctlType ==
    ASSUME NEW k \in FreeBsd!KernelTime
    PROVE  FreeBsd!FromSysctl(k) \in CpuTime
<1>1. ASSUME NEW f \in Field
      PROVE  (IF f = "other" THEN 0 ELSE k[f]) \in Nat
  BY <1>1 DEF FreeBsd!KernelTime, FreeBsd!KernelField, Field
<1>2. QED
  BY <1>1 DEF FreeBsd!FromSysctl, CpuTime

\* A tick moves the sample of its CPU forward and no other (the kernel's
\* counters only grow).
LEMMA FbTickForward ==
    ASSUME FreeBsd!TypeOK, NEW c \in FreeBsd!Cpu, NEW f \in FbTicking, FreeBsd!Tick(c, f)
    PROVE  /\ fbTime' \in [FreeBsd!Cpu -> FreeBsd!KernelTime]
           /\ FreeBsd!Sampled' \in [FreeBsd!Cpu -> CpuTime]
           /\ \A d \in FreeBsd!Cpu : Before(FreeBsd!Sampled[d], FreeBsd!Sampled'[d])
<1>1. fbTime \in [FreeBsd!Cpu -> FreeBsd!KernelTime] /\ fbTime' = [fbTime EXCEPT ![c][f] = @ + 1]
  BY DEF FreeBsd!Tick, FreeBsd!TypeOK
<1>2. f \in FreeBsd!KernelField
  BY DEF FreeBsd!ConstantsAssumption
<1>3. [fbTime[c] EXCEPT ![f] = @ + 1] \in FreeBsd!KernelTime
  BY <1>1, <1>2 DEF FreeBsd!KernelTime
<1>4. fbTime' \in [FreeBsd!Cpu -> FreeBsd!KernelTime]
  BY <1>1, <1>3
<1>5. ASSUME NEW d \in FreeBsd!Cpu, NEW g \in Field
      PROVE  FreeBsd!Sampled[d][g] <= FreeBsd!Sampled'[d][g]
  <2>1. CASE g = "other"
    BY <2>1 DEF FreeBsd!Sampled, FreeBsd!FromSysctl
  <2>2. CASE g # "other"
    <3>1. g \in FreeBsd!KernelField
      BY <2>2 DEF Field, FreeBsd!KernelField
    <3>2. fbTime[d][g] \in Nat
      BY <1>1, <3>1 DEF FreeBsd!KernelTime
    <3>3. fbTime'[d][g] = IF d = c /\ g = f THEN fbTime[d][g] + 1 ELSE fbTime[d][g]
      BY <1>1, <1>2, <3>1 DEF FreeBsd!KernelTime
    <3>4. QED
      BY <2>2, <3>2, <3>3 DEF FreeBsd!Sampled, FreeBsd!FromSysctl
  <2>3. QED
    BY <2>1, <2>2
<1>6. FreeBsd!Sampled' \in [FreeBsd!Cpu -> CpuTime]
  BY <1>4, FbFromSysctlType DEF FreeBsd!Sampled
<1>7. QED
  BY <1>4, <1>5, <1>6 DEF Before

-----------------------------------------------------------------------------

\* The samples are vectors of CpuTime with one entry per CPU (freebsd.rs:176-183).
LEMMA FbSampledIsVector ==
    ASSUME FreeBsd!TypeOK
    PROVE  /\ FreeBsd!Sampled \in Seq(CpuTime) /\ Len(FreeBsd!Sampled) = N
           /\ \A c \in FreeBsd!Cpu : FreeBsd!Sampled[c] \in CpuTime
                    /\ FreeBsd!SampledWhenBegan[c] \in CpuTime
           /\ fbBase # FreeBsd!NoBase => Len(fbBase) = N
              /\ \A c \in FreeBsd!Cpu : fbBase[c] \in CpuTime
<1>1. \A c \in FreeBsd!Cpu : FreeBsd!Sampled[c] \in CpuTime
      /\ FreeBsd!SampledWhenBegan[c] \in CpuTime
  BY FbFromSysctlType DEF FreeBsd!TypeOK, FreeBsd!Sampled, FreeBsd!SampledWhenBegan
<1>2. FreeBsd!Sampled \in [1..N -> CpuTime]
  BY <1>1 DEF FreeBsd!Sampled, FreeBsd!Cpu
<1>3. FreeBsd!Sampled \in Seq(CpuTime) /\ Len(FreeBsd!Sampled) = N
  BY <1>2, SeqDef, LenProperties DEF FreeBsd!ConstantsAssumption
<1>4. fbBase # FreeBsd!NoBase => Len(fbBase) = N
  BY EmptySeq DEF FreeBsd!TypeOK, FreeBsd!NoBase
<1>5. QED
  BY <1>1, <1>3, <1>4, ElementOfSeq DEF FreeBsd!TypeOK, FreeBsd!Cpu, FreeBsd!ConstantsAssumption

\* The loads done() returns (freebsd.rs:75-78): one per CPU, in CpuLoad.
LEMMA FbReturnedLoads ==
    ASSUME FreeBsd!TypeOK, FreeBsd!ReturnLoads
    PROVE  /\ fbRet' = [tag |-> "loads", loads |-> Loads(FreeBsd!Sampled, fbBase)]
           /\ Loads(FreeBsd!Sampled, fbBase) \in Seq(CpuLoad)
           /\ DOMAIN Loads(FreeBsd!Sampled, fbBase) = FreeBsd!Cpu
           /\ \A c \in FreeBsd!Cpu :
                  Loads(FreeBsd!Sampled, fbBase)[c]
                    = ToCpuLoad(Sub(FreeBsd!Sampled[c], fbBase[c]))
<1>1. fbBase # FreeBsd!NoBase
  BY DEF FreeBsd!TypeOK, FreeBsd!ReturnLoads
<1>2. Len(FreeBsd!Sampled) = N /\ Len(fbBase) = N /\ FreeBsd!Sampled \in Seq(CpuTime)
      /\ fbBase \in Seq(CpuTime)
  BY <1>1, FbSampledIsVector DEF FreeBsd!TypeOK
<1>3. ZipLen(FreeBsd!Sampled, fbBase) = N
  BY <1>2 DEF ZipLen
<1>4. /\ Loads(FreeBsd!Sampled, fbBase) \in Seq(CpuLoad)
      /\ Len(Loads(FreeBsd!Sampled, fbBase)) = N
      /\ \A c \in 1..N :
            Loads(FreeBsd!Sampled, fbBase)[c] = ToCpuLoad(Sub(FreeBsd!Sampled[c], fbBase[c]))
  BY <1>2, <1>3, LoadsType
<1>5. QED
  BY <1>4, LenProperties DEF FreeBsd!ReturnLoads, FreeBsd!Return, FreeBsd!Cpu

\* Every step of the kernel and of the calls keeps the types.
LEMMA FbTypePreserved ==
    ASSUME FreeBsd!TypeOK, [FreeBsd!Next]_(FreeBsd!vars)
    PROVE  FreeBsd!TypeOK'
<1> USE DEF FreeBsd!TypeOK
<1>0. << >> \in Seq(CpuTime) /\ << >> \in Seq(CpuLoad) /\ Len(<< >>) = 0
  BY EmptySeq
<1>1. ASSUME NEW c \in FreeBsd!Cpu, NEW f \in FbTicking, FreeBsd!Tick(c, f)
      PROVE  FreeBsd!TypeOK'
  <2>1. fbTime' \in [FreeBsd!Cpu -> FreeBsd!KernelTime]
    BY <1>1, FbTickForward
  <2>2. fbClock' \in Nat
    BY <1>1 DEF FreeBsd!Tick
  <2>3. QED
    BY <1>1, <2>1, <2>2 DEF FreeBsd!Tick
<1>2. ASSUME NEW op \in {"create", "done"}, FreeBsd!Call(op)
      PROVE  FreeBsd!TypeOK'
  BY <1>2 DEF FreeBsd!Call
<1>3. CASE FreeBsd!Probe
  BY <1>3 DEF FreeBsd!Probe, FreeBsd!ConstantsAssumption, FreeBsd!Unread
<1>4. CASE FreeBsd!Panic
  BY <1>0, <1>4 DEF FreeBsd!Panic, FreeBsd!Return, FreeBsd!Panicked
<1>5. CASE FreeBsd!SysctlFails
  BY <1>0, <1>5 DEF FreeBsd!SysctlFails, FreeBsd!Return, FreeBsd!Failure
<1>6. CASE FreeBsd!ReturnCreated
  <2>1. fbBase' \in Seq(CpuTime) /\ Len(fbBase') = N
    BY <1>6, FbSampledIsVector DEF FreeBsd!ReturnCreated
  <2>2. fbRet' = FreeBsd!Created
    BY <1>6 DEF FreeBsd!ReturnCreated, FreeBsd!Return
  <2>3. QED
    BY <1>0, <1>6, <2>1, <2>2 DEF FreeBsd!ReturnCreated, FreeBsd!Return, FreeBsd!Created
<1>7. CASE FreeBsd!ReturnLoads
  <2>1. fbRet' \in [tag : {"nothing", "created", "err", "panic", "loads"}, loads : Seq(CpuLoad)]
    BY <1>7, FbReturnedLoads
  <2>2. QED
    BY <1>7, <2>1 DEF FreeBsd!ReturnLoads, FreeBsd!Return
<1>8. CASE FreeBsd!Drop
  BY <1>0, <1>8 DEF FreeBsd!Drop, FreeBsd!NoBase
<1>9. CASE UNCHANGED FreeBsd!vars
  BY <1>9 DEF FreeBsd!vars
<1>10. QED
  BY <1>1, <1>2, <1>3, <1>4, <1>5, <1>6, <1>7, <1>8, <1>9 DEF FreeBsd!Next

LEMMA FbTypeInit == ASSUME FreeBsd!Init PROVE FreeBsd!TypeOK
<1>1. << >> \in Seq(CpuTime) /\ << >> \in Seq(CpuLoad) /\ Len(<< >>) = 0
  BY EmptySeq
<1>2. QED
  BY <1>1 DEF FreeBsd!Init, FreeBsd!TypeOK, FreeBsd!NoBase, FreeBsd!Nothing, FreeBsd!KernelTime

\* The type invariant: above all, that a measurement exists only when the size
\* is known and right, and then has an entry for every CPU.
THEOREM FbTypeCorrect == FreeBsd!Spec => []FreeBsd!TypeOK
<1>1. FreeBsd!Init => FreeBsd!TypeOK
  BY FbTypeInit
<1>2. FreeBsd!TypeOK /\ [FreeBsd!Next]_(FreeBsd!vars) => FreeBsd!TypeOK'
  BY FbTypePreserved
<1>3. QED
  BY <1>1, <1>2, PTL DEF FreeBsd!Spec

-----------------------------------------------------------------------------

\* What was told so far goes with the size that was read.
FbToldByCpus ==
    /\ fbCpus = FreeBsd!Unread => fbTold = {}
    /\ fbCpus = 0 => fbTold \subseteq {"panic"}
    /\ fbCpus = N => "panic" \notin fbTold

LEMMA FbToldByCpusStep ==
    ASSUME FreeBsd!TypeOK, FbToldByCpus, [FreeBsd!Next]_(FreeBsd!vars)
    PROVE  FbToldByCpus'
<1>0. FreeBsd!Unread # 0 /\ FreeBsd!Unread # N /\ N # 0 /\ fbCpus \in {FreeBsd!Unread, 0, N}
  BY DEF FreeBsd!ConstantsAssumption, FreeBsd!Unread, FreeBsd!TypeOK
<1>1. ASSUME NEW c \in FreeBsd!Cpu, NEW f \in FbTicking, FreeBsd!Tick(c, f)
      PROVE  FbToldByCpus'
  BY <1>1 DEF FreeBsd!Tick, FbToldByCpus
<1>2. ASSUME NEW op \in {"create", "done"}, FreeBsd!Call(op)
      PROVE  FbToldByCpus'
  BY <1>2 DEF FreeBsd!Call, FbToldByCpus
<1>3. CASE FreeBsd!Probe
  BY <1>0, <1>3 DEF FreeBsd!Probe, FbToldByCpus
<1>4. CASE FreeBsd!Panic
  BY <1>0, <1>4 DEF FreeBsd!Panic, FreeBsd!Return, FreeBsd!Panicked, FbToldByCpus
<1>5. CASE FreeBsd!SysctlFails
  BY <1>0, <1>5 DEF FreeBsd!SysctlFails, FreeBsd!Return, FreeBsd!Failure, FbToldByCpus
<1>6. CASE FreeBsd!ReturnCreated
  BY <1>0, <1>6 DEF FreeBsd!ReturnCreated, FreeBsd!Return, FreeBsd!Created, FbToldByCpus
<1>7. CASE FreeBsd!ReturnLoads
  BY <1>0, <1>7 DEF FreeBsd!ReturnLoads, FreeBsd!Return, FbToldByCpus
<1>8. CASE FreeBsd!Drop
  BY <1>8 DEF FreeBsd!Drop, FbToldByCpus
<1>9. CASE UNCHANGED FreeBsd!vars
  BY <1>9 DEF FreeBsd!vars, FbToldByCpus
<1>10. QED
  BY <1>1, <1>2, <1>3, <1>4, <1>5, <1>6, <1>7, <1>8, <1>9 DEF FreeBsd!Next

\* Every call panics or none does: what the first call reads holds for the
\* life of the process (freebsd.rs:56-61).
THEOREM FirstCallDecides == FreeBsd!Spec => []AllOrNothing
<1> DEFINE Inv == FreeBsd!TypeOK /\ FbToldByCpus
<1>1. FreeBsd!Init => Inv
  BY FbTypeInit DEF FreeBsd!Init, FbToldByCpus
<1>2. Inv /\ [FreeBsd!Next]_(FreeBsd!vars) => Inv'
  BY FbTypePreserved, FbToldByCpusStep
<1>3. Inv => AllOrNothing
  BY DEF AllOrNothing, FreeBsd!TypeOK, FbToldByCpus, FreeBsd!AllOrNothing,
       FreeBsd!ConstantsAssumption, FreeBsd!Unread
<1>4. QED
  BY <1>1, <1>2, <1>3, PTL DEF FreeBsd!Spec

-----------------------------------------------------------------------------

LEMMA FbBaseBehindStep ==
    ASSUME FreeBsd!TypeOK, FreeBsd!BaseBehind, [FreeBsd!Next]_(FreeBsd!vars)
    PROVE  FreeBsd!BaseBehind'
<1>0. /\ \A c \in FreeBsd!Cpu : FreeBsd!Sampled[c] \in CpuTime
            /\ FreeBsd!SampledWhenBegan[c] \in CpuTime
      /\ fbBase # FreeBsd!NoBase => \A c \in FreeBsd!Cpu : fbBase[c] \in CpuTime
  BY FbSampledIsVector
<1>1. ASSUME NEW c \in FreeBsd!Cpu, NEW f \in FbTicking, FreeBsd!Tick(c, f)
      PROVE  FreeBsd!BaseBehind'
  <2>1. /\ FreeBsd!Sampled' \in [FreeBsd!Cpu -> CpuTime]
        /\ \A d \in FreeBsd!Cpu : Before(FreeBsd!Sampled[d], FreeBsd!Sampled'[d])
    BY <1>1, FbTickForward
  <2>2. fbBase' = fbBase /\ fbPhase' = fbPhase
        /\ FreeBsd!SampledWhenBegan' = FreeBsd!SampledWhenBegan
    BY <1>1 DEF FreeBsd!Tick, FreeBsd!SampledWhenBegan
  <2>3. QED
    BY <1>0, <2>1, <2>2, BeforeTransitive DEF FreeBsd!BaseBehind
<1>2. ASSUME NEW op \in {"create", "done"}, FreeBsd!Call(op)
      PROVE  FreeBsd!BaseBehind'
  BY <1>2 DEF FreeBsd!Call, FreeBsd!BaseBehind, FreeBsd!Sampled, FreeBsd!SampledWhenBegan
<1>3. CASE FreeBsd!Probe
  BY <1>3 DEF FreeBsd!Probe, FreeBsd!BaseBehind, FreeBsd!Sampled, FreeBsd!SampledWhenBegan
<1>4. CASE FreeBsd!Panic
  BY <1>4 DEF FreeBsd!Panic, FreeBsd!Return, FreeBsd!BaseBehind, FreeBsd!Sampled,
       FreeBsd!SampledWhenBegan
<1>5. CASE FreeBsd!SysctlFails
  BY <1>5 DEF FreeBsd!SysctlFails, FreeBsd!Return, FreeBsd!BaseBehind, FreeBsd!Sampled,
       FreeBsd!SampledWhenBegan
<1>6. CASE FreeBsd!ReturnCreated
  <2>1. fbBase' = FreeBsd!Sampled /\ FreeBsd!Sampled' = FreeBsd!Sampled /\ fbPhase' = "idle"
    BY <1>6 DEF FreeBsd!ReturnCreated, FreeBsd!Return, FreeBsd!Sampled
  <2>2. QED
    BY <1>0, <2>1, BeforeReflexive DEF FreeBsd!BaseBehind
<1>7. CASE FreeBsd!ReturnLoads
  BY <1>7 DEF FreeBsd!ReturnLoads, FreeBsd!Return, FreeBsd!BaseBehind, FreeBsd!Sampled,
       FreeBsd!SampledWhenBegan
<1>8. CASE FreeBsd!Drop
  BY <1>8 DEF FreeBsd!Drop, FreeBsd!BaseBehind, FreeBsd!Sampled, FreeBsd!SampledWhenBegan
<1>9. CASE UNCHANGED FreeBsd!vars
  BY <1>9 DEF FreeBsd!vars, FreeBsd!BaseBehind, FreeBsd!Sampled, FreeBsd!SampledWhenBegan
<1>10. QED
  BY <1>1, <1>2, <1>3, <1>4, <1>5, <1>6, <1>7, <1>8, <1>9 DEF FreeBsd!Next

\* A call in progress began no later than now.
FbBeganBehind == \A c \in FreeBsd!Cpu : Before(FreeBsd!SampledWhenBegan[c], FreeBsd!Sampled[c])

LEMMA FbBeganBehindStep ==
    ASSUME FreeBsd!TypeOK, FbBeganBehind, [FreeBsd!Next]_(FreeBsd!vars)
    PROVE  FbBeganBehind'
<1>0. \A c \in FreeBsd!Cpu : FreeBsd!Sampled[c] \in CpuTime
      /\ FreeBsd!SampledWhenBegan[c] \in CpuTime
  BY FbSampledIsVector
<1>1. ASSUME NEW c \in FreeBsd!Cpu, NEW f \in FbTicking, FreeBsd!Tick(c, f)
      PROVE  FbBeganBehind'
  <2>1. /\ FreeBsd!Sampled' \in [FreeBsd!Cpu -> CpuTime]
        /\ \A d \in FreeBsd!Cpu : Before(FreeBsd!Sampled[d], FreeBsd!Sampled'[d])
    BY <1>1, FbTickForward
  <2>2. FreeBsd!SampledWhenBegan' = FreeBsd!SampledWhenBegan
    BY <1>1 DEF FreeBsd!Tick, FreeBsd!SampledWhenBegan
  <2>3. QED
    BY <1>0, <2>1, <2>2, BeforeTransitive DEF FbBeganBehind
<1>2. ASSUME NEW op \in {"create", "done"}, FreeBsd!Call(op)
      PROVE  FbBeganBehind'
  <2>1. FreeBsd!Sampled' = FreeBsd!Sampled /\ FreeBsd!SampledWhenBegan' = FreeBsd!Sampled
    BY <1>2 DEF FreeBsd!Call, FreeBsd!Sampled, FreeBsd!SampledWhenBegan
  <2>2. QED
    BY <1>0, <2>1, BeforeReflexive DEF FbBeganBehind
<1>3. ASSUME UNCHANGED <<fbTime, fbBegan>>
      PROVE  FbBeganBehind'
  BY <1>3 DEF FbBeganBehind, FreeBsd!Sampled, FreeBsd!SampledWhenBegan
<1>4. QED
  BY <1>1, <1>2, <1>3
     DEF FreeBsd!Next, FreeBsd!Probe, FreeBsd!Panic, FreeBsd!SysctlFails,
          FreeBsd!ReturnCreated, FreeBsd!ReturnLoads, FreeBsd!Return, FreeBsd!Drop, FreeBsd!vars

FbSafeInv == FreeBsd!TypeOK /\ FreeBsd!BaseBehind /\ FbBeganBehind

LEMMA FbSafeInvInit == ASSUME FreeBsd!Init PROVE FbSafeInv
<1>1. FreeBsd!TypeOK
  BY FbTypeInit
<1>2. FreeBsd!SampledWhenBegan = FreeBsd!Sampled
  BY DEF FreeBsd!Init, FreeBsd!Sampled, FreeBsd!SampledWhenBegan
<1>3. FbBeganBehind
  BY <1>1, <1>2, FbSampledIsVector, BeforeReflexive DEF FbBeganBehind
<1>4. QED
  BY <1>1, <1>3 DEF FreeBsd!Init, FbSafeInv, FreeBsd!BaseBehind

LEMMA FbSafeInvStep ==
    ASSUME FbSafeInv, [FreeBsd!Next]_(FreeBsd!vars)
    PROVE  FbSafeInv'
BY FbTypePreserved, FbBaseBehindStep, FbBeganBehindStep DEF FbSafeInv

-----------------------------------------------------------------------------

\* The abstract module means the same by the words both use.
LEMMA FbSameWords ==
    /\ FreeBsd!Window!Field = Field
    /\ FreeBsd!Window!CpuTime = CpuTime
    /\ FreeBsd!Window!CpuLoad = CpuLoad
    /\ \A s, t : FreeBsd!Window!Before(s, t) <=> Before(s, t)
    /\ \A l : FreeBsd!Window!IsPartition(l) <=> IsPartition(l)
<1>1. FreeBsd!Window!Field = Field
  BY DEF FreeBsd!Window!Field, Field
<1>2. \A t : FreeBsd!Window!Total(t) = Total(t)
  BY DEF FreeBsd!Window!Total, Total
<1>3. QED
  BY <1>1, <1>2 DEF FreeBsd!Window!CpuTime, CpuTime, FreeBsd!Window!CpuLoad, CpuLoad,
                    FreeBsd!Window!Before, Before, FreeBsd!Window!IsPartition, IsPartition

\* When done() returns, each load is the share of the span from the baseline to
\* now, which is a moment of the call.
LEMMA FbLoadsWithinWindow ==
    ASSUME FbSafeInv, FreeBsd!ReturnLoads
    PROVE  FreeBsd!Window!WithinWindow(Loads(FreeBsd!Sampled, fbBase), fbBase,
      FreeBsd!SampledWhenBegan, FreeBsd!Sampled)
<1> SUFFICES ASSUME NEW c \in FreeBsd!Cpu
             PROVE  /\ Loads(FreeBsd!Sampled, fbBase)[c] \in CpuLoad
                    /\ IsPartition(Loads(FreeBsd!Sampled, fbBase)[c])
                    /\ \A f \in Field :
                         /\ FreeBsd!SampledWhenBegan[c][f] - fbBase[c][f]
                                <= Loads(FreeBsd!Sampled, fbBase)[c].part[f]
                         /\ Loads(FreeBsd!Sampled, fbBase)[c].part[f]
                                <= FreeBsd!Sampled[c][f] - fbBase[c][f]
  BY FbSameWords DEF FreeBsd!Window!WithinWindow
<1>1. fbBase # FreeBsd!NoBase /\ fbPhase = "done"
  BY DEF FbSafeInv, FreeBsd!TypeOK, FreeBsd!ReturnLoads
<1>2. FreeBsd!Sampled[c] \in CpuTime /\ FreeBsd!SampledWhenBegan[c] \in CpuTime
      /\ fbBase[c] \in CpuTime
  BY <1>1, FbSampledIsVector DEF FbSafeInv
<1>3. Loads(FreeBsd!Sampled, fbBase)[c] = ToCpuLoad(Sub(FreeBsd!Sampled[c], fbBase[c]))
  BY FbReturnedLoads DEF FbSafeInv
<1>4. Sub(FreeBsd!Sampled[c], fbBase[c]) \in CpuTime
  BY <1>2, SubType
<1>5. /\ Loads(FreeBsd!Sampled, fbBase)[c] \in CpuLoad
      /\ IsPartition(Loads(FreeBsd!Sampled, fbBase)[c])
      /\ Loads(FreeBsd!Sampled, fbBase)[c].part = Sub(FreeBsd!Sampled[c], fbBase[c])
  BY <1>3, <1>4, ToCpuLoadCorrect
<1>6. /\ Before(fbBase[c], FreeBsd!Sampled[c])
      /\ Before(FreeBsd!SampledWhenBegan[c], FreeBsd!Sampled[c])
  BY <1>1 DEF FbSafeInv, FreeBsd!BaseBehind, FbBeganBehind
<1>7. ASSUME NEW f \in Field
      PROVE  /\ FreeBsd!SampledWhenBegan[c][f] - fbBase[c][f]
                    <= Loads(FreeBsd!Sampled, fbBase)[c].part[f]
             /\ Loads(FreeBsd!Sampled, fbBase)[c].part[f] <= FreeBsd!Sampled[c][f] - fbBase[c][f]
  <2>1. Loads(FreeBsd!Sampled, fbBase)[c].part[f] = FreeBsd!Sampled[c][f] - fbBase[c][f]
    BY <1>2, <1>5, <1>6, SubExact
  <2>2. FreeBsd!SampledWhenBegan[c][f] <= FreeBsd!Sampled[c][f]
    BY <1>6 DEF Before
  <2>3. FreeBsd!SampledWhenBegan[c][f] \in Nat /\ FreeBsd!Sampled[c][f] \in Nat
        /\ fbBase[c][f] \in Nat
    BY <1>2 DEF CpuTime
  <2>4. QED
    BY <2>1, <2>2, <2>3
<1>8. QED
  BY <1>5, <1>7

LEMMA FbInitImplements == ASSUME FreeBsd!Init PROVE FreeBsd!Window!Init
<1>1. FreeBsd!Sampled \in [FreeBsd!Cpu -> CpuTime] /\ FreeBsd!SampledWhenBegan = FreeBsd!Sampled
  BY FbFromSysctlType DEF FreeBsd!Init, FreeBsd!KernelTime, FreeBsd!Sampled,
       FreeBsd!SampledWhenBegan
<1>2. QED
  BY <1>1, FbSameWords DEF FreeBsd!Init, FreeBsd!Window!Init, FreeBsd!NoBase,
       FreeBsd!Window!NoBase, FreeBsd!Nothing, FreeBsd!Window!Nothing, FreeBsd!Answer

LEMMA FbStepImplements ==
    ASSUME FbSafeInv, [FreeBsd!Next]_(FreeBsd!vars)
    PROVE  [FreeBsd!Window!Next]_(FreeBsd!Window!wvars)
<1> USE DEF FreeBsd!Window!NoBase, FreeBsd!NoBase
<1>1. ASSUME NEW c \in FreeBsd!Cpu, NEW f \in FbTicking, FreeBsd!Tick(c, f)
      PROVE  FreeBsd!Window!Advance
  <2>1. /\ FreeBsd!Sampled' \in [FreeBsd!Cpu -> CpuTime]
        /\ \A d \in FreeBsd!Cpu : Before(FreeBsd!Sampled[d], FreeBsd!Sampled'[d])
    BY <1>1, FbTickForward DEF FbSafeInv
  <2>2. QED
    BY <1>1, <2>1, FbSameWords
       DEF FreeBsd!Tick, FreeBsd!Window!Advance, FreeBsd!Window!AllBefore,
            FreeBsd!SampledWhenBegan, FreeBsd!Answer
<1>2. ASSUME NEW op \in {"create", "done"}, FreeBsd!Call(op)
      PROVE  FreeBsd!Window!Call(op)
  BY <1>2 DEF FreeBsd!Call, FreeBsd!Window!Call, FreeBsd!Sampled, FreeBsd!SampledWhenBegan,
       FreeBsd!Answer
<1>3. CASE FreeBsd!Probe
  BY <1>3 DEF FreeBsd!Probe, FreeBsd!Window!wvars, FreeBsd!Sampled, FreeBsd!SampledWhenBegan,
       FreeBsd!Answer
<1>4. CASE FreeBsd!Panic \/ FreeBsd!SysctlFails
  <2>1. FreeBsd!Answer' = FreeBsd!Failure
    BY <1>4 DEF FreeBsd!Panic, FreeBsd!SysctlFails, FreeBsd!Return, FreeBsd!Panicked,
         FreeBsd!Failure, FreeBsd!Answer
  <2>2. FreeBsd!Window!ReturnFailure
    BY <1>4, <2>1 DEF FreeBsd!Panic, FreeBsd!SysctlFails, FreeBsd!Return,
         FreeBsd!Window!ReturnFailure, FreeBsd!Failure,
                      FreeBsd!Window!Failure, FreeBsd!Sampled, FreeBsd!SampledWhenBegan
  <2>3. QED
    BY <2>2 DEF FreeBsd!Window!Next
<1>5. CASE FreeBsd!ReturnCreated
  <2>1. FreeBsd!Sampled \in [FreeBsd!Cpu -> CpuTime]
    BY FbFromSysctlType DEF FbSafeInv, FreeBsd!TypeOK, FreeBsd!Sampled
  <2>2. \A c \in FreeBsd!Cpu : /\ Before(FreeBsd!SampledWhenBegan[c], FreeBsd!Sampled[c])
                      /\ Before(FreeBsd!Sampled[c], FreeBsd!Sampled[c])
    BY <2>1, BeforeReflexive DEF FbSafeInv, FbBeganBehind
  <2>3. FreeBsd!Answer' = FreeBsd!Created
    BY <1>5 DEF FreeBsd!ReturnCreated, FreeBsd!Return, FreeBsd!Created, FreeBsd!Answer
  <2>4. FreeBsd!Window!ReturnCreated
    BY <1>5, <2>1, <2>2, <2>3, FbSameWords
       DEF FreeBsd!ReturnCreated, FreeBsd!Return, FreeBsd!Window!ReturnCreated,
            FreeBsd!Window!AllBefore, FreeBsd!Created,
           FreeBsd!Window!Created, FreeBsd!Sampled, FreeBsd!SampledWhenBegan
  <2>5. QED
    BY <2>4 DEF FreeBsd!Window!Next
<1>6. CASE FreeBsd!ReturnLoads
  <2>1. FreeBsd!Window!WithinWindow(Loads(FreeBsd!Sampled, fbBase), fbBase,
    FreeBsd!SampledWhenBegan, FreeBsd!Sampled)
    BY <1>6, FbLoadsWithinWindow
  <2>2. DOMAIN Loads(FreeBsd!Sampled, fbBase) = FreeBsd!Cpu
    BY <1>6, FbReturnedLoads DEF FbSafeInv
  <2>3. FreeBsd!Answer' = [tag |-> "loads", loads |-> Loads(FreeBsd!Sampled, fbBase)]
    BY <1>6 DEF FreeBsd!ReturnLoads, FreeBsd!Return, FreeBsd!Answer
  <2>4. fbPhase = "done" /\ fbPhase' = "idle" /\ fbBase' = fbBase
        /\ FreeBsd!Sampled' = FreeBsd!Sampled
           /\ FreeBsd!SampledWhenBegan' = FreeBsd!SampledWhenBegan
    BY <1>6 DEF FreeBsd!ReturnLoads, FreeBsd!Return, FreeBsd!Sampled, FreeBsd!SampledWhenBegan
  <2>5. FreeBsd!Window!ReturnLoads
    BY <2>1, <2>2, <2>3, <2>4 DEF FreeBsd!Window!ReturnLoads
  <2>6. QED
    BY <2>5 DEF FreeBsd!Window!Next
<1>7. CASE FreeBsd!Drop
  BY <1>7 DEF FreeBsd!Drop, FreeBsd!Window!Next, FreeBsd!Window!Drop, FreeBsd!Sampled,
       FreeBsd!SampledWhenBegan, FreeBsd!Answer
<1>8. CASE UNCHANGED FreeBsd!vars
  BY <1>8 DEF FreeBsd!vars, FreeBsd!Window!wvars, FreeBsd!Sampled, FreeBsd!SampledWhenBegan,
       FreeBsd!Answer
<1>9. QED
  BY <1>1, <1>2, <1>3, <1>4, <1>5, <1>6, <1>7, <1>8 DEF FreeBsd!Next, FreeBsd!Window!Next

\* FreeBSD's sampler, one sysctl over a size read once, implements the same
\* delayed measurement as OpenBSD's loop, a panic counting as a failure.
THEOREM FreeBsdImplementation == FreeBsd!Spec => SamplerImplementsWindow
<1>1. FreeBsd!Init => FbSafeInv /\ FreeBsd!Window!Init
  BY FbSafeInvInit, FbInitImplements
<1>2. FbSafeInv /\ [FreeBsd!Next]_(FreeBsd!vars) => FbSafeInv'
  BY FbSafeInvStep
<1>3. FbSafeInv /\ [FreeBsd!Next]_(FreeBsd!vars) => [FreeBsd!Window!Next]_(FreeBsd!Window!wvars)
  BY FbStepImplements
<1>4. QED
  BY <1>1, <1>2, <1>3, PTL
     DEF FreeBsd!Spec, SamplerImplementsWindow, FreeBsd!SamplerImplementsWindow,
         FreeBsd!Window!Spec

\* LinuxCpuLoad means the same by the words both use.
LEMMA LxWords ==
    /\ Linux!Field = Field /\ Linux!CpuTime = CpuTime /\ Linux!CpuLoad = CpuLoad
    /\ \A s, t : Linux!Sub(s, t) = Sub(s, t)
    /\ \A s, t : Linux!ZipLen(s, t) = ZipLen(s, t)
    /\ \A l : Linux!IsPartition(l) <=> IsPartition(l)
    /\ \A now, prev : Linux!Loads(now, prev) = Loads(now, prev)
<1>1. Linux!Field = Field
  BY DEF Linux!Field, Field
<1>2. /\ Linux!CpuTime = CpuTime /\ Linux!CpuLoad = CpuLoad
      /\ \A s, t : Linux!Sub(s, t) = Sub(s, t)
  BY <1>1 DEF Linux!CpuTime, CpuTime, Linux!CpuLoad, CpuLoad, Linux!Sub, Sub, Linux!Monus, Monus
<1>3. \A t : Linux!Total(t) = Total(t)
  BY DEF Linux!Total, Total
<1>4. \A t : Linux!ToCpuLoad(t) = ToCpuLoad(t)
  BY <1>1, <1>3 DEF Linux!ToCpuLoad, ToCpuLoad, Linux!ZeroLoad, ZeroLoad
<1>5. \A s, t : Linux!ZipLen(s, t) = ZipLen(s, t)
  BY DEF Linux!ZipLen, ZipLen
<1>6. \A l : Linux!IsPartition(l) <=> IsPartition(l)
  BY <1>1, <1>3 DEF Linux!IsPartition, IsPartition
<1>7. \A now, prev : Linux!Loads(now, prev) = Loads(now, prev)
  BY <1>4, <1>2, <1>5 DEF Linux!Loads, Loads
<1>8. QED
  BY <1>1, <1>2, <1>5, <1>6, <1>7

USE LxWords, LinuxAssumption

LEMMA TimesMonotone ==
    ASSUME NEW a \in Nat, NEW b \in Nat, NEW k \in Nat, a <= b
    PROVE  a * k <= b * k
OBVIOUS

LEMMA TimesNat ==
    ASSUME NEW a \in Nat, NEW b \in Nat
    PROVE  a * b \in Nat
OBVIOUS

\* The operands of avg_add are numbers, and so is what it makes of them
\* (data.rs:128-139).
LEMMA AvgAddType ==
    ASSUME NEW a \in CpuLoad, NEW b \in CpuLoad
    PROVE  /\ Linux!AvgAdd(a, b) \in CpuLoad
           /\ Linux!AvgAdd(a, b).whole = 2 * a.whole * b.whole
           /\ \A f \in Field : Linux!AvgAdd(a, b).part[f]
                                = a.part[f] * b.whole + b.part[f] * a.whole
<1>1. a.whole \in Nat \ {0} /\ b.whole \in Nat \ {0}
  BY DEF CpuLoad
<1>2. 2 * a.whole * b.whole \in Nat \ {0}
  BY <1>1
<1>3. ASSUME NEW f \in Field
      PROVE  a.part[f] * b.whole + b.part[f] * a.whole \in Nat
  <2>1. a.part[f] \in Nat /\ b.part[f] \in Nat
    BY DEF CpuLoad
  <2>2. a.part[f] * b.whole \in Nat /\ b.part[f] * a.whole \in Nat
    BY <1>1, <2>1, TimesNat
  <2>3. QED
    BY <2>2
<1>4. QED
  BY <1>2, <1>3 DEF Linux!AvgAdd, CpuLoad

\* The mean of two shares is at least one of them: it is above the first's
\* lower bound, or above the second.
LEMMA MeanAbove ==
    ASSUME NEW a \in CpuLoad, NEW b \in CpuLoad, NEW x \in CpuLoad, NEW f \in Field,
           Linux!ShareLeq(x, a, f)
    PROVE  \/ Linux!ShareLeq(x, Linux!AvgAdd(a, b), f)
           \/ Linux!ShareLeq(b, Linux!AvgAdd(a, b), f)
<1> DEFINE ap == a.part[f]    aw == a.whole
           bp == b.part[f]    bw == b.whole
           xp == x.part[f]    xw == x.whole
<1>1. ap \in Nat /\ aw \in Nat /\ bp \in Nat /\ bw \in Nat /\ xp \in Nat /\ xw \in Nat
  BY DEF CpuLoad
<1>2. xp * aw <= ap * xw
  BY DEF Linux!ShareLeq
<1>3. /\ xp * (2 * aw * bw) <= (ap * bw + bp * aw) * xw
           => Linux!ShareLeq(x, Linux!AvgAdd(a, b), f)
      /\ bp * (2 * aw * bw) <= (ap * bw + bp * aw) * bw
           => Linux!ShareLeq(b, Linux!AvgAdd(a, b), f)
  BY AvgAddType DEF Linux!ShareLeq
<1> HIDE DEF ap, aw, bp, bw, xp, xw
<1>4. CASE bp * aw <= ap * bw
  <2>1. (bp * aw) * bw <= (ap * bw) * bw
    BY <1>1, <1>4, TimesMonotone, TimesNat
  <2>2. /\ bp * (2 * aw * bw) = (bp * aw) * bw + (bp * aw) * bw
        /\ (ap * bw + bp * aw) * bw = (ap * bw) * bw + (bp * aw) * bw
    BY <1>1
  <2>3. QED
    BY <1>1, <1>3, <2>1, <2>2
<1>5. CASE ap * bw <= bp * aw
  <2>1. (xp * aw) * bw <= (ap * xw) * bw /\ (ap * bw) * xw <= (bp * aw) * xw
    BY <1>1, <1>2, <1>5, TimesMonotone, TimesNat
  <2>2. /\ xp * (2 * aw * bw) = (xp * aw) * bw + (xp * aw) * bw
        /\ (ap * bw + bp * aw) * xw = (ap * bw) * xw + (bp * aw) * xw
        /\ (ap * xw) * bw = (ap * bw) * xw
    BY <1>1
  <2>3. QED
    BY <1>1, <1>3, <2>1, <2>2
<1>6. ap * bw \in Nat /\ bp * aw \in Nat
  BY <1>1, TimesNat
<1>7. QED
  BY <1>4, <1>5, <1>6

\* The mean of two shares is at most one of them: it is below the first's
\* upper bound, or below the second.
LEMMA MeanBelow ==
    ASSUME NEW a \in CpuLoad, NEW b \in CpuLoad, NEW x \in CpuLoad, NEW f \in Field,
           Linux!ShareLeq(a, x, f)
    PROVE  \/ Linux!ShareLeq(Linux!AvgAdd(a, b), x, f)
           \/ Linux!ShareLeq(Linux!AvgAdd(a, b), b, f)
<1> DEFINE ap == a.part[f]    aw == a.whole
           bp == b.part[f]    bw == b.whole
           xp == x.part[f]    xw == x.whole
<1>1. ap \in Nat /\ aw \in Nat /\ bp \in Nat /\ bw \in Nat /\ xp \in Nat /\ xw \in Nat
  BY DEF CpuLoad
<1>2. ap * xw <= xp * aw
  BY DEF Linux!ShareLeq
<1>3. /\ (ap * bw + bp * aw) * xw <= xp * (2 * aw * bw)
           => Linux!ShareLeq(Linux!AvgAdd(a, b), x, f)
      /\ (ap * bw + bp * aw) * bw <= bp * (2 * aw * bw)
           => Linux!ShareLeq(Linux!AvgAdd(a, b), b, f)
  BY AvgAddType DEF Linux!ShareLeq
<1> HIDE DEF ap, aw, bp, bw, xp, xw
<1>4. CASE ap * bw <= bp * aw
  <2>1. (ap * bw) * bw <= (bp * aw) * bw
    BY <1>1, <1>4, TimesMonotone, TimesNat
  <2>2. /\ bp * (2 * aw * bw) = (bp * aw) * bw + (bp * aw) * bw
        /\ (ap * bw + bp * aw) * bw = (ap * bw) * bw + (bp * aw) * bw
    BY <1>1
  <2>3. QED
    BY <1>1, <1>3, <2>1, <2>2
<1>5. CASE bp * aw <= ap * bw
  <2>1. (ap * xw) * bw <= (xp * aw) * bw /\ (bp * aw) * xw <= (ap * bw) * xw
    BY <1>1, <1>2, <1>5, TimesMonotone, TimesNat
  <2>2. /\ xp * (2 * aw * bw) = (xp * aw) * bw + (xp * aw) * bw
        /\ (ap * bw + bp * aw) * xw = (ap * bw) * xw + (bp * aw) * xw
        /\ (ap * xw) * bw = (ap * bw) * xw
    BY <1>1
  <2>3. QED
    BY <1>1, <1>3, <2>1, <2>2
<1>6. ap * bw \in Nat /\ bp * aw \in Nat
  BY <1>1, TimesNat
<1>7. QED
  BY <1>4, <1>5, <1>6

\* The average of two loads lies between two loads when they do.
LEMMA AvgAddInHull ==
    ASSUME NEW ls \in Seq(CpuLoad), NEW a \in CpuLoad, Linux!InHull(a, ls),
           NEW i \in 1..Len(ls)
    PROVE  /\ Linux!AvgAdd(a, ls[i]) \in CpuLoad
           /\ Linux!InHull(Linux!AvgAdd(a, ls[i]), ls)
<1>1. DOMAIN ls = 1..Len(ls) /\ \A j \in DOMAIN ls : ls[j] \in CpuLoad
  BY LenProperties, ElementOfSeq
<1>2. ASSUME NEW f \in Field
      PROVE  /\ \E j \in DOMAIN ls : Linux!ShareLeq(ls[j], Linux!AvgAdd(a, ls[i]), f)
             /\ \E j \in DOMAIN ls : Linux!ShareLeq(Linux!AvgAdd(a, ls[i]), ls[j], f)
  <2>1. PICK j \in DOMAIN ls : Linux!ShareLeq(ls[j], a, f)
    BY DEF Linux!InHull
  <2>2. PICK k \in DOMAIN ls : Linux!ShareLeq(a, ls[k], f)
    BY DEF Linux!InHull
  <2>3. /\ \/ Linux!ShareLeq(ls[j], Linux!AvgAdd(a, ls[i]), f)
           \/ Linux!ShareLeq(ls[i], Linux!AvgAdd(a, ls[i]), f)
        /\ \/ Linux!ShareLeq(Linux!AvgAdd(a, ls[i]), ls[k], f)
           \/ Linux!ShareLeq(Linux!AvgAdd(a, ls[i]), ls[i], f)
    BY <1>1, <2>1, <2>2, MeanAbove, MeanBelow
  <2>4. QED
    BY <1>1, <2>3
<1>3. QED
  BY <1>1, <1>2, AvgAddType DEF Linux!InHull

\* The fold over a vector of loads, step by step.
LEMMA FoldedSteps ==
    ASSUME NEW ls \in Seq(CpuLoad), ls # << >>
    PROVE  /\ Linux!Folded(ls) \in [1..Len(ls) -> CpuLoad]
           /\ Linux!Folded(ls)[1] = ls[1]
           /\ \A i \in 2..Len(ls) :
                  Linux!Folded(ls)[i] = Linux!AvgAdd(Linux!Folded(ls)[i - 1], ls[i])
<1> DEFINE n == Len(ls)
           step == [k \in 1..n - 1 |-> [a \in CpuLoad |-> Linux!AvgAdd(a, ls[k + 1])]]
           F(g) == [k \in DOMAIN ls |->
                        IF k = 1 THEN ls[1] ELSE Linux!AvgAdd(g[k - 1], ls[k])]
<1>1. n \in Nat \ {0} /\ DOMAIN ls = 1..n /\ \A k \in 1..n : ls[k] \in CpuLoad
  BY LenProperties, ElementOfSeq, EmptySeq
<1>2. step \in [1..n - 1 -> [CpuLoad -> CpuLoad]]
  <2>1. ASSUME NEW k \in 1..n - 1, NEW a \in CpuLoad
        PROVE  Linux!AvgAdd(a, ls[k + 1]) \in CpuLoad
    BY <1>1, AvgAddType
  <2>2. QED
    BY <2>1
<1>3. PICK f \in [0..n - 1 -> CpuLoad] :
         /\ f[0] = ls[1]
         /\ \A k \in 1..n - 1 : f[k] = step[k][f[k - 1]]
  <2> DEFINE m == n - 1
             base1 == ls[1]
  <2>1. m \in Nat /\ base1 \in CpuLoad /\ step \in [1..m -> [CpuLoad -> CpuLoad]]
    BY <1>1, <1>2
  <2> HIDE DEF m, base1, step
  <2>2. \E f : Stepwise(f, m, CpuLoad, base1, step)
    BY <2>1, Recursion
  <2>3. QED
    BY <2>2 DEF m, base1, Stepwise
<1>4. ASSUME NEW k \in 1..n - 1
      PROVE  f[k] = Linux!AvgAdd(f[k - 1], ls[k + 1])
  <2>1. f[k - 1] \in CpuLoad
    BY <1>1
  <2>2. step[k][f[k - 1]] = Linux!AvgAdd(f[k - 1], ls[k + 1])
    BY <2>1
  <2>3. QED
    BY <1>3, <2>2
<1> DEFINE g == [k \in 1..n |-> f[k - 1]]
<1>5. g \in [1..n -> CpuLoad]
  BY <1>1
<1>6. g[1] = ls[1]
  BY <1>1, <1>3
<1>7. ASSUME NEW k \in 1..n, k # 1
      PROVE  g[k] = Linux!AvgAdd(g[k - 1], ls[k])
  <2>1. k - 1 \in 1..n - 1 /\ k - 1 \in 1..n /\ (k - 1) + 1 = k
    BY <1>1, <1>7
  <2>2. g[k] = f[k - 1] /\ g[k - 1] = f[(k - 1) - 1]
    BY <2>1
  <2>3. QED
    BY <1>4, <2>1, <2>2
<1>8. \E h : h = F(h)
  <2> HIDE DEF g
  <2>1. g = F(g)
    BY <1>1, <1>5, <1>6, <1>7
  <2>2. QED
    BY <2>1
<1>9. Linux!Folded(ls) = F(Linux!Folded(ls))
  <2>1. Linux!Folded(ls) = CHOOSE h : h = F(h)
    BY DEF Linux!Folded
  <2> HIDE DEF F
  <2>2. QED
    BY <1>8, <2>1
<1>10. /\ DOMAIN Linux!Folded(ls) = 1..n
       /\ Linux!Folded(ls) = [k \in 1..n |-> Linux!Folded(ls)[k]]
       /\ Linux!Folded(ls)[1] = ls[1]
       /\ \A k \in 2..n : Linux!Folded(ls)[k] = Linux!AvgAdd(Linux!Folded(ls)[k - 1], ls[k])
  <2> HIDE DEF n
  <2>1. \A k \in 2..n : k \in 1..n /\ k # 1
    BY <1>1
  <2>2. QED
    BY <1>1, <1>9, <2>1
<1> DEFINE T == {k \in Nat : k \in 1..n => Linux!Folded(ls)[k] \in CpuLoad}
<1>11. 0 \in T
  BY <1>1
<1>12. ASSUME NEW k \in Nat, k \in T
       PROVE  k + 1 \in T
  <2>1. CASE k + 1 = 1
    BY <1>1, <1>10, <2>1
  <2>2. CASE k + 1 \in 2..n
    <3>1. k \in 1..n /\ (k + 1) - 1 = k /\ k + 1 \in 1..n
      BY <1>1, <2>2
    <3>2. Linux!AvgAdd(Linux!Folded(ls)[k], ls[k + 1]) \in CpuLoad
      BY <1>1, <1>12, <3>1, AvgAddType
    <3>3. Linux!Folded(ls)[k + 1] = Linux!AvgAdd(Linux!Folded(ls)[k], ls[k + 1])
      BY <1>10, <2>2, <3>1
    <3>4. QED
      BY <3>2, <3>3
  <2>3. CASE k + 1 \notin 1..n
    BY <2>3
  <2>4. QED
    BY <1>1, <2>1, <2>2, <2>3
<1>13. \A k \in Nat : k \in T
  <2> HIDE DEF T
  <2>1. QED
    BY <1>11, <1>12, Induction
<1>14. \A k \in 1..n : Linux!Folded(ls)[k] \in CpuLoad
  BY <1>1, <1>13
<1>15. QED
  BY <1>10, <1>14

\* The aggregate of some loads is a load between them (common.rs:20-28).
LEMMA AggregateInHull ==
    ASSUME NEW ls \in Seq(CpuLoad), ls # << >>
    PROVE  Linux!Aggregate(ls) \in CpuLoad /\ Linux!InHull(Linux!Aggregate(ls), ls)
<1> DEFINE n == Len(ls)
           T == {k \in Nat : k \in 1..n => Linux!InHull(Linux!Folded(ls)[k], ls)}
<1>1. n \in Nat \ {0} /\ DOMAIN ls = 1..n /\ \A k \in 1..n : ls[k] \in CpuLoad
  BY LenProperties, ElementOfSeq, EmptySeq
<1>2. /\ Linux!Folded(ls) \in [1..n -> CpuLoad]
      /\ Linux!Folded(ls)[1] = ls[1]
      /\ \A k \in 2..n : Linux!Folded(ls)[k] = Linux!AvgAdd(Linux!Folded(ls)[k - 1], ls[k])
  BY FoldedSteps
<1>3. Linux!InHull(ls[1], ls)
  <2>1. 1 \in DOMAIN ls /\ ls[1] \in CpuLoad
    BY <1>1
  <2>2. \A f \in Field : Linux!ShareLeq(ls[1], ls[1], f)
    BY <2>1, TimesNat DEF Linux!ShareLeq, CpuLoad
  <2>3. QED
    BY <2>1, <2>2 DEF Linux!InHull
<1>4. 0 \in T
  BY <1>1
<1>5. ASSUME NEW k \in Nat, k \in T
      PROVE  k + 1 \in T
  <2>1. CASE k + 1 = 1
    BY <1>2, <1>3, <2>1
  <2>2. CASE k + 1 \in 2..n
    <3>1. k \in 1..n /\ (k + 1) - 1 = k /\ k + 1 \in 1..n
      BY <1>1, <2>2
    <3>2. Linux!InHull(Linux!AvgAdd(Linux!Folded(ls)[k], ls[k + 1]), ls)
      BY <1>2, <1>5, <3>1, AvgAddInHull
    <3>3. QED
      BY <1>2, <2>2, <3>1, <3>2
  <2>3. CASE k + 1 \notin 1..n
    BY <2>3
  <2>4. QED
    BY <1>1, <2>1, <2>2, <2>3
<1>6. \A k \in Nat : k \in T
  <2> HIDE DEF T
  <2>1. QED
    BY <1>4, <1>5, Induction
<1>7. QED
  BY <1>1, <1>2, <1>6 DEF Linux!Aggregate

-----------------------------------------------------------------------------

\* A line of /proc/stat as ProcStat makes it.
LxLine == [cpu : Linux!Cpu, t : CpuTime]

\* The list of some CPUs exists, and holds nothing but them.
LEMMA ListedType ==
    ASSUME NEW cpus \in SUBSET Linux!Cpu
    PROVE  \E n \in 0..LxN : Linux!Listed(cpus) \in [1..n -> cpus]
<1> DEFINE Good(s) == /\ \A c \in cpus : \E i \in DOMAIN s : s[i] = c
                      /\ \A i, j \in DOMAIN s : i < j => s[i] < s[j]
           all == UNION {[1..n -> cpus] : n \in 0..LxN}
<1>1. \E s \in all : Good(s)
  <2>1. PICK n, f : n \in 0..LxN /\ Lists(cpus, n, f)
    BY InOrder DEF Linux!ConstantsAssumption, Linux!Cpu
  <2>2. f \in all /\ DOMAIN f = 1..n
    BY <2>1 DEF Lists
  <2>3. QED
    BY <2>1, <2>2 DEF Lists
<1>2. Linux!Listed(cpus) \in all
  <2>1. Linux!Listed(cpus) = CHOOSE s \in all : Good(s)
    BY DEF Linux!Listed
  <2> HIDE DEF all, Good
  <2>2. QED
    BY <1>1, <2>1
<1>3. QED
  BY <1>2

\* /proc/stat has a line with its counters for each CPU of the list.
LEMMA ProcStatLines ==
    ASSUME lxOnline \in SUBSET Linux!Cpu, lxTime \in [Linux!Cpu -> CpuTime]
    PROVE  /\ Linux!ProcStat \in Seq(LxLine)
           /\ \A i \in 1..Len(Linux!ProcStat) :
                  /\ Linux!ProcStat[i].cpu = Linux!Listed(lxOnline)[i]
                  /\ Linux!ProcStat[i].t = lxTime[Linux!ProcStat[i].cpu]
<1> DEFINE nth == Linux!Listed(lxOnline)
<1>1. PICK n \in 0..LxN : nth \in [1..n -> lxOnline]
  BY ListedType
<1>2. n \in Nat
  BY DEF Linux!ConstantsAssumption
<1> HIDE DEF nth
<1>3. Linux!ProcStat = [i \in 1..n |-> [cpu |-> nth[i], t |-> lxTime[nth[i]]]]
  BY <1>1 DEF Linux!ProcStat, nth
<1>4. \A i \in 1..n : nth[i] \in Linux!Cpu /\ [cpu |-> nth[i], t |-> lxTime[nth[i]]] \in LxLine
  BY <1>1 DEF LxLine
<1>5. [i \in 1..n |-> [cpu |-> nth[i], t |-> lxTime[nth[i]]]] \in [1..n -> LxLine]
  BY <1>4
<1>6. Linux!ProcStat \in Seq(LxLine) /\ Len(Linux!ProcStat) = n
  BY <1>2, <1>3, <1>5
<1>7. QED
  BY <1>3, <1>6 DEF nth

\* What the parser keeps is a prefix of the lines (linux.rs:107-116).
LEMMA ParsedLines ==
    ASSUME NEW lines \in Seq(LxLine)
    PROVE  /\ Linux!ProcStatCpuTimes(lines) \in Seq(LxLine)
           /\ Len(Linux!ProcStatCpuTimes(lines)) <= Len(lines)
           /\ \A i \in 1..Len(Linux!ProcStatCpuTimes(lines)) :
                  Linux!ProcStatCpuTimes(lines)[i] = lines[i]
<1> DEFINE bad == {i \in DOMAIN lines : ~Linux!Parses(lines[i])}
<1>1. Len(lines) \in Nat /\ DOMAIN lines = 1..Len(lines)
  BY LenProperties
<1>2. CASE bad = {}
  BY <1>1, <1>2 DEF Linux!ProcStatCpuTimes
<1>3. CASE bad # {}
  <2>1. bad \in SUBSET Nat
    BY <1>1
  <2>2. PICK m \in bad : \A k \in bad : m <= k
    <3> HIDE DEF bad
    <3>1. QED
      BY <1>3, <2>1, LeastNumber
  <2>3. Linux!Min(bad) \in bad
    <3> HIDE DEF bad
    <3>1. QED
      BY <2>2 DEF Linux!Min
  <2>4. Linux!Min(bad) \in 1..Len(lines)
    BY <1>1, <2>3
  <2>5. Linux!ProcStatCpuTimes(lines) = SubSeq(lines, 1, Linux!Min(bad) - 1)
    BY <1>3 DEF Linux!ProcStatCpuTimes
  <2> HIDE DEF bad
  <2> DEFINE m1 == Linux!Min(bad) - 1
  <2>6. m1 \in 0..Len(lines) /\ 1..m1 \subseteq 1..Len(lines) /\ m1 <= Len(lines)
    BY <1>1, <2>4
  <2> HIDE DEF m1
  <2>7. /\ SubSeq(lines, 1, m1) \in Seq(LxLine)
        /\ Len(SubSeq(lines, 1, m1)) = m1
        /\ \A i \in 1..m1 : SubSeq(lines, 1, m1)[i] = lines[i]
    BY <1>1, <2>6, SubSeqProperties
  <2>8. QED
    BY <2>5, <2>6, <2>7 DEF m1
<1>4. QED
  BY <1>2, <1>3

-----------------------------------------------------------------------------

\* A captured line is what its CPU had before the ticks since then.
LxBaseMoves ==
    \A i \in DOMAIN lxBase : \A f \in Field :
        lxTime[lxBase[i].cpu][f] = lxBase[i].t[f] + lxSince[lxBase[i].cpu][f]

\* Without hotplug the captured lines are of the CPUs /proc/stat still lists.
LxBaseListed ==
    lxPlugs = lxBornPlugs =>
        \A i \in DOMAIN lxBase : lxBase[i].cpu = Linux!Listed(lxOnline)[i]

LxInv ==
    /\ Linux!TypeOK
    /\ lxBase \in Seq(LxLine)
    /\ lxPlugs \in Nat /\ lxBornPlugs \in Nat /\ lxBornPlugs <= lxPlugs
    /\ LxBaseMoves
    /\ LxBaseListed
    /\ Linux!AlignedLoadsExact
    /\ Linux!NoPlugNoMix
    /\ Linux!AggregateSound

\* What says nothing yet keeps the promises about what is said.
LEMMA LxNothingSaid ==
    ASSUME NEW tag \in {"nothing", "created", "err"}, lxRet' = Linux!Outcome(tag)
    PROVE  /\ lxRet'.tag \in {"nothing", "created", "err", "per_cpu", "aggregate", "panic"}
           /\ lxRet'.loads \in Seq(CpuLoad)
           /\ \A i \in DOMAIN lxRet'.loads : IsPartition(lxRet'.loads[i])
           /\ Linux!AlignedLoadsExact' /\ Linux!NoPlugNoMix' /\ Linux!AggregateSound'
<1>1. lxRet'.tag = tag /\ lxRet'.loads = << >>
  BY DEF Linux!Outcome
<1>2. << >> \in Seq(CpuLoad) /\ DOMAIN << >> = {}
  BY EmptySeq
<1>3. tag # "per_cpu" /\ tag # "aggregate" /\ tag # "panic"
  OBVIOUS
<1>4. QED
  BY <1>1, <1>2, <1>3 DEF Linux!AlignedLoadsExact, Linux!NoPlugNoMix, Linux!AggregateSound

LEMMA LxInvInit == ASSUME Linux!Init PROVE LxInv
<1>1. << >> \in Seq(CpuLoad) /\ << >> \in Seq(LxLine) /\ DOMAIN << >> = {}
  BY EmptySeq
<1>2. /\ lxRet.tag = "nothing" /\ lxRet.loads = << >>
      /\ lxBase = << >> /\ lxPlugs = 0 /\ lxBornPlugs = 0
  BY DEF Linux!Init, Linux!Outcome, Linux!NoBase
<1>3. lxTime \in [Linux!Cpu -> CpuTime] /\ lxSince = lxTime
  BY DEF Linux!Init, Linux!Zero, CpuTime
<1>4. Linux!TypeOK
  BY <1>1, <1>2, <1>3 DEF Linux!Init, Linux!TypeOK
<1>5. Linux!AlignedLoadsExact /\ Linux!NoPlugNoMix /\ Linux!AggregateSound
  BY <1>2 DEF Linux!AlignedLoadsExact, Linux!NoPlugNoMix, Linux!AggregateSound
<1>6. QED
  BY <1>1, <1>2, <1>4, <1>5 DEF LxInv, LxBaseMoves, LxBaseListed

\* A tick is charged to the CPU and to its time since the measurement alike.
LEMMA LxTickMoves ==
    ASSUME LxInv, NEW c \in lxOnline, NEW f \in LxTicking, Linux!Tick(c, f)
    PROVE  LxInv'
<1>1. /\ lxTime \in [Linux!Cpu -> CpuTime] /\ lxSince \in [Linux!Cpu -> CpuTime]
      /\ c \in Linux!Cpu /\ f \in Field
      /\ lxBase \in Seq(LxLine)
  BY DEF LxInv, Linux!TypeOK, Linux!ConstantsAssumption
<1>2. /\ lxTime' = [lxTime EXCEPT ![c][f] = @ + 1]
      /\ lxSince' = [lxSince EXCEPT ![c][f] = @ + 1]
      /\ UNCHANGED <<lxOnline, lxPlugs, lxBase, lxKind, lxBornPlugs>>
      /\ lxRet' = Linux!Outcome("nothing")
  BY DEF Linux!Tick
<1>3. ASSUME NEW t \in [Linux!Cpu -> CpuTime]
      PROVE  /\ [t EXCEPT ![c][f] = @ + 1] \in [Linux!Cpu -> CpuTime]
             /\ \A d \in Linux!Cpu, g \in Field :
                   [t EXCEPT ![c][f] = @ + 1][d][g]
                     = IF d = c /\ g = f THEN t[d][g] + 1 ELSE t[d][g]
  <2>1. t[c] \in [Field -> Nat] /\ t[c][f] + 1 \in Nat
    BY <1>1 DEF CpuTime
  <2>2. [t[c] EXCEPT ![f] = @ + 1] \in CpuTime
    BY <2>1 DEF CpuTime
  <2>3. ASSUME NEW d \in Linux!Cpu, NEW g \in Field
        PROVE  [t EXCEPT ![c][f] = @ + 1][d][g]
                 = IF d = c /\ g = f THEN t[d][g] + 1 ELSE t[d][g]
    BY <1>1, <2>1
  <2>4. QED
    BY <1>1, <2>2, <2>3
<1>4. lxTime' \in [Linux!Cpu -> CpuTime] /\ lxSince' \in [Linux!Cpu -> CpuTime]
  BY <1>1, <1>2, <1>3
<1>5. LxBaseMoves'
  <2>1. ASSUME NEW i \in DOMAIN lxBase, NEW g \in Field
        PROVE  lxTime'[lxBase[i].cpu][g] = lxBase[i].t[g] + lxSince'[lxBase[i].cpu][g]
    <3> DEFINE d == lxBase[i].cpu
               b == lxBase[i].t[g]
    <3>1. d \in Linux!Cpu /\ b \in Nat
      <4>1. lxBase[i] \in LxLine
        BY <1>1, LenProperties, ElementOfSeq
      <4>2. QED
        BY <4>1 DEF LxLine, CpuTime
    <3>2. lxTime[d][g] = b + lxSince[d][g] /\ lxTime[d][g] \in Nat /\ lxSince[d][g] \in Nat
      BY <1>1, <3>1 DEF LxInv, LxBaseMoves, CpuTime
    <3>3. /\ lxTime'[d][g] = IF d = c /\ g = f THEN lxTime[d][g] + 1 ELSE lxTime[d][g]
          /\ lxSince'[d][g] = IF d = c /\ g = f THEN lxSince[d][g] + 1 ELSE lxSince[d][g]
      BY <1>1, <1>2, <1>3, <3>1
    <3> HIDE DEF d, b
    <3>4. lxTime'[d][g] = b + lxSince'[d][g]
      BY <3>1, <3>2, <3>3
    <3>5. QED
      BY <3>4 DEF d, b
  <2>2. QED
    BY <1>2, <2>1 DEF LxBaseMoves
<1>6. LxBaseListed'
  BY <1>2 DEF LxInv, LxBaseListed
<1>7. Linux!TypeOK'
  BY <1>2, <1>4, LxNothingSaid DEF LxInv, Linux!TypeOK
<1>8. QED
  BY <1>2, <1>5, <1>6, <1>7, LxNothingSaid DEF LxInv

\* Hotplug moves no counter, and is counted.
LEMMA LxPlugMoves ==
    ASSUME LxInv, NEW c \in Linux!Cpu, Linux!Plug(c)
    PROVE  LxInv'
<1>1. /\ lxPlugs' = lxPlugs + 1
      /\ lxOnline' \in (SUBSET Linux!Cpu) \ {{}}
      /\ UNCHANGED <<lxTime, lxBase, lxKind, lxSince, lxBornPlugs>>
      /\ lxRet' = Linux!Outcome("nothing")
  <2>1. lxOnline \in SUBSET Linux!Cpu
    BY DEF LxInv, Linux!TypeOK
  <2>2. lxOnline' # {} /\ (lxOnline' = lxOnline \ {c} \/ lxOnline' = lxOnline \cup {c})
    BY DEF Linux!Plug
  <2>3. lxOnline' \in SUBSET Linux!Cpu
    BY <2>1, <2>2
  <2>4. lxOnline' \in (SUBSET Linux!Cpu) \ {{}}
    BY <2>2, <2>3
  <2>5. QED
    BY <2>4 DEF Linux!Plug
<1>2. Linux!TypeOK'
  BY <1>1, LxNothingSaid DEF LxInv, Linux!TypeOK
<1>3. lxPlugs' \in Nat /\ lxBornPlugs' \in Nat /\ lxBornPlugs' <= lxPlugs'
      /\ lxPlugs' # lxBornPlugs'
  BY <1>1 DEF LxInv
<1>4. LxBaseMoves' /\ LxBaseListed'
  BY <1>1, <1>3 DEF LxInv, LxBaseMoves, LxBaseListed
<1>5. QED
  BY <1>1, <1>2, <1>3, <1>4, LxNothingSaid DEF LxInv

\* The lines a call reads: a prefix of the CPUs that are listed, with what they
\* have at that moment.
LEMMA LxLinesRead ==
    ASSUME Linux!TypeOK
    PROVE  LET lines == Linux!ProcStatCpuTimes(Linux!ProcStat)
           IN  /\ lines \in Seq(LxLine)
               /\ \A i \in DOMAIN lines : /\ lines[i].cpu \in Linux!Cpu
                                         /\ lines[i].cpu = Linux!Listed(lxOnline)[i]
                                         /\ lines[i].t = lxTime[lines[i].cpu]
<1> DEFINE all == Linux!ProcStat
           lines == Linux!ProcStatCpuTimes(all)
<1>1. /\ all \in Seq(LxLine)
      /\ \A i \in 1..Len(all) : /\ all[i].cpu = Linux!Listed(lxOnline)[i]
                               /\ all[i].t = lxTime[all[i].cpu]
  BY ProcStatLines DEF Linux!TypeOK
<1> HIDE DEF all
<1>2. /\ lines \in Seq(LxLine)
      /\ Len(lines) <= Len(all)
      /\ \A i \in 1..Len(lines) : lines[i] = all[i]
  BY <1>1, ParsedLines
<1> HIDE DEF lines
<1>3. ASSUME NEW i \in DOMAIN lines
      PROVE  /\ lines[i].cpu \in Linux!Cpu
             /\ lines[i].cpu = Linux!Listed(lxOnline)[i]
             /\ lines[i].t = lxTime[lines[i].cpu]
  <2>1. i \in 1..Len(lines) /\ Len(lines) \in Nat /\ Len(all) \in Nat
    BY <1>1, <1>2, LenProperties
  <2>2. i \in 1..Len(all) /\ lines[i] = all[i]
    BY <1>2, <2>1
  <2>3. lines[i] \in LxLine
    BY <1>2, <2>1, ElementOfSeq
  <2>4. QED
    BY <1>1, <2>2, <2>3 DEF LxLine
<1>4. QED
  BY <1>2, <1>3 DEF all, lines

\* A measurement begins with what the kernel shows now.
LEMMA LxCreated ==
    ASSUME LxInv, NEW k \in {"per_cpu", "aggregate"}, Linux!CpuLoadCall(k)
    PROVE  LxInv'
<1> DEFINE lines == Linux!ProcStatCpuTimes(Linux!ProcStat)
<1>1. /\ lines \in Seq(LxLine)
      /\ \A i \in DOMAIN lines : /\ lines[i].cpu \in Linux!Cpu
                                /\ lines[i].cpu = Linux!Listed(lxOnline)[i]
                                /\ lines[i].t = lxTime[lines[i].cpu]
  BY LxLinesRead DEF LxInv
<1>2. /\ lxBase' = lines /\ lxKind' = k /\ lxBornPlugs' = lxPlugs
      /\ lxSince' = [c \in Linux!Cpu |-> Linux!Zero]
      /\ lxRet' = Linux!Outcome("created")
      /\ UNCHANGED <<lxTime, lxClock, lxOnline, lxPlugs>>
  BY DEF Linux!CpuLoadCall
<1> HIDE DEF lines
<1>3. Linux!Zero \in CpuTime /\ \A f \in Field : Linux!Zero[f] = 0
  BY DEF Linux!Zero, CpuTime
<1>4. lxTime \in [Linux!Cpu -> CpuTime]
  BY DEF LxInv, Linux!TypeOK
<1>5. \A i \in DOMAIN lines : lines[i].t \in CpuTime
  BY <1>1, <1>4
<1>6. Linux!TypeOK'
  BY <1>1, <1>2, <1>3, <1>5, LxNothingSaid DEF LxInv, Linux!TypeOK
<1>7. LxBaseMoves'
  <2>1. ASSUME NEW i \in DOMAIN lines, NEW f \in Field
        PROVE  lxTime[lines[i].cpu][f] = lines[i].t[f] + Linux!Zero[f]
    <3>1. lines[i].t = lxTime[lines[i].cpu] /\ lines[i].t[f] \in Nat
      BY <1>1, <1>5 DEF CpuTime
    <3>2. QED
      BY <1>3, <3>1
  <2>2. QED
    BY <1>1, <1>2, <2>1 DEF LxBaseMoves
<1>8. LxBaseListed'
  BY <1>1, <1>2 DEF LxBaseListed
<1>9. lxPlugs \in Nat /\ lxPlugs <= lxPlugs
  BY DEF LxInv
<1>10. QED
  BY <1>1, <1>2, <1>6, <1>7, <1>8, <1>9, LxNothingSaid DEF LxInv

\* What done() returns: the shares of the pairs, never a panic.
LEMMA LxDone ==
    ASSUME LxInv, Linux!Done
    PROVE  LxInv'
<1> DEFINE lines == Linux!ProcStatCpuTimes(Linux!ProcStat)
           now == [i \in DOMAIN lines |-> lines[i].t]
           prev == [i \in DOMAIN lxBase |-> lxBase[i].t]
           loads == Loads(now, prev)
           one == IF lxKind = "aggregate" THEN Linux!Aggregate(loads) ELSE Linux!ZeroLoad
<1>1. /\ lxBase # << >> /\ lines # << >>
      /\ lxRet' = [tag |-> IF one = Linux!Panic THEN "panic" ELSE lxKind,
                   loads |-> loads,
                   of |-> [i \in DOMAIN loads |-> <<lines[i].cpu, lxBase[i].cpu>>],
                   one |-> one]
      /\ UNCHANGED <<lxTime, lxClock, lxOnline, lxPlugs, lxBase, lxKind, lxSince, lxBornPlugs>>
  BY DEF Linux!Done, Linux!NoBase, Linux!Readable
<1>2. /\ lines \in Seq(LxLine)
      /\ \A i \in DOMAIN lines : /\ lines[i].cpu \in Linux!Cpu
                                /\ lines[i].cpu = Linux!Listed(lxOnline)[i]
                                /\ lines[i].t = lxTime[lines[i].cpu]
  BY LxLinesRead DEF LxInv
<1> HIDE DEF lines
<1>3. /\ DOMAIN lines = 1..Len(lines) /\ Len(lines) \in Nat \ {0}
      /\ DOMAIN lxBase = 1..Len(lxBase) /\ Len(lxBase) \in Nat \ {0}
      /\ \A i \in DOMAIN lines : lines[i] \in LxLine
      /\ \A i \in DOMAIN lxBase : lxBase[i] \in LxLine
  BY <1>1, <1>2, LenProperties, EmptySeq, ElementOfSeq DEF LxInv
<1>4. /\ now \in Seq(CpuTime) /\ Len(now) = Len(lines)
      /\ prev \in Seq(CpuTime) /\ Len(prev) = Len(lxBase)
  <2>1. /\ now \in [1..Len(lines) -> CpuTime] /\ prev \in [1..Len(lxBase) -> CpuTime]
    BY <1>3 DEF LxLine
  <2> HIDE DEF now, prev
  <2>2. QED
    BY <1>3, <2>1
<1>5. /\ \A i \in DOMAIN lines : now[i] = lines[i].t
      /\ \A i \in DOMAIN lxBase : prev[i] = lxBase[i].t
  OBVIOUS
<1> HIDE DEF now, prev
<1>6. /\ ZipLen(now, prev) \in Nat \ {0}
      /\ \A i \in 1..ZipLen(now, prev) : i \in DOMAIN lines /\ i \in DOMAIN lxBase
  BY <1>3, <1>4 DEF ZipLen
<1>7. /\ loads \in Seq(CpuLoad) /\ Len(loads) = ZipLen(now, prev)
      /\ DOMAIN loads = 1..ZipLen(now, prev)
      /\ \A i \in DOMAIN loads : loads[i] = ToCpuLoad(Sub(now[i], prev[i]))
  <2>1. /\ loads \in Seq(CpuLoad) /\ Len(loads) = ZipLen(now, prev)
        /\ \A i \in 1..ZipLen(now, prev) : loads[i] = ToCpuLoad(Sub(now[i], prev[i]))
    BY <1>4, LoadsType
  <2> HIDE DEF loads
  <2>2. DOMAIN loads = 1..ZipLen(now, prev)
    BY <2>1, LenProperties
  <2>3. QED
    BY <2>1, <2>2
<1> HIDE DEF loads
<1>8. ASSUME NEW i \in DOMAIN loads
      PROVE  /\ i \in DOMAIN lines /\ i \in DOMAIN lxBase
             /\ now[i] = lxTime[lines[i].cpu] /\ now[i] \in CpuTime
             /\ prev[i] = lxBase[i].t /\ prev[i] \in CpuTime
             /\ IsPartition(loads[i])
             /\ loads[i].part = Sub(now[i], prev[i])
  <2>1. i \in DOMAIN lines /\ i \in DOMAIN lxBase
    BY <1>6, <1>7
  <2>2. now[i] = lines[i].t /\ prev[i] = lxBase[i].t
    BY <1>5, <2>1
  <2>3. now[i] \in CpuTime /\ prev[i] \in CpuTime
    BY <1>3, <2>1, <2>2 DEF LxLine
  <2>4. IsPartition(loads[i]) /\ loads[i].part = Sub(now[i], prev[i])
    BY <1>7, <2>3, SubType, ToCpuLoadCorrect
  <2>5. QED
    BY <1>2, <2>1, <2>2, <2>3, <2>4
<1>9. loads # << >>
  BY <1>6, <1>7, EmptySeq
<1>10. one # Linux!Panic /\ (lxKind = "aggregate" => Linux!InHull(one, loads))
  <2>1. CASE lxKind = "aggregate"
    <3>1. one = Linux!Aggregate(loads)
      BY <2>1
    <3>2. Linux!Aggregate(loads) \in CpuLoad /\ Linux!InHull(Linux!Aggregate(loads), loads)
      BY <1>7, <1>9, AggregateInHull
    <3>3. one.whole # 0
      BY <3>1, <3>2 DEF CpuLoad
    <3>4. QED
      BY <3>1, <3>2, <3>3 DEF Linux!Panic
  <2>2. CASE lxKind # "aggregate"
    BY <2>2 DEF Linux!ZeroLoad, Linux!Panic
  <2>3. QED
    BY <2>1, <2>2
<1> HIDE DEF one
<1>11. /\ lxRet'.tag = lxKind /\ lxRet'.loads = loads /\ lxRet'.one = one
       /\ lxRet'.of = [i \in DOMAIN loads |-> <<lines[i].cpu, lxBase[i].cpu>>]
       /\ lxKind \in {"per_cpu", "aggregate"}
  BY <1>1, <1>10 DEF LxInv, Linux!TypeOK
<1>12. /\ DOMAIN lxRet'.of = DOMAIN loads
       /\ \A i \in DOMAIN loads : /\ lxRet'.of[i][1] = lines[i].cpu
                                 /\ lxRet'.of[i][2] = lxBase[i].cpu
  BY <1>11
<1>13. Linux!TypeOK'
  BY <1>1, <1>7, <1>8, <1>11 DEF LxInv, Linux!TypeOK
<1>14. Linux!AlignedLoadsExact'
  <2>1. ASSUME NEW i \in DOMAIN loads, lines[i].cpu = lxBase[i].cpu
        PROVE  loads[i].part = lxSince[lines[i].cpu]
    <3> DEFINE c == lines[i].cpu
    <3>1. c \in Linux!Cpu /\ lxSince[c] \in CpuTime
      BY <1>2, <1>8 DEF LxInv, Linux!TypeOK
    <3>2. ASSUME NEW f \in Field
          PROVE  Sub(now[i], prev[i])[f] = lxSince[c][f]
      <4>1. now[i][f] = prev[i][f] + lxSince[c][f]
        BY <1>8, <2>1 DEF LxInv, LxBaseMoves
      <4>2. now[i][f] \in Nat /\ prev[i][f] \in Nat /\ lxSince[c][f] \in Nat
        BY <1>8, <3>1 DEF CpuTime
      <4>3. QED
        BY <4>1, <4>2 DEF Sub, Monus
    <3>3. Sub(now[i], prev[i]) \in CpuTime
      BY <1>8, SubType
    <3>4. Sub(now[i], prev[i]) = lxSince[c]
      BY <3>1, <3>2, <3>3 DEF CpuTime
    <3>5. QED
      BY <1>8, <3>4
  <2>2. QED
    BY <1>1, <1>11, <1>12, <2>1 DEF Linux!AlignedLoadsExact
<1>15. Linux!NoPlugNoMix'
  <2>1. ASSUME lxPlugs = lxBornPlugs, NEW i \in DOMAIN loads
        PROVE  lines[i].cpu = lxBase[i].cpu
    BY <1>2, <1>8, <2>1 DEF LxInv, LxBaseListed
  <2>2. QED
    BY <1>1, <1>12, <2>1 DEF Linux!NoPlugNoMix
<1>16. Linux!AggregateSound'
  BY <1>10, <1>11 DEF Linux!AggregateSound
<1>17. QED
  BY <1>1, <1>13, <1>14, <1>15, <1>16 DEF LxInv, LxBaseMoves, LxBaseListed

LEMMA LxInvStep ==
    ASSUME LxInv, [Linux!Next]_(Linux!vars)
    PROVE  LxInv'
<1>1. CASE Linux!Fails
  <2>1. /\ lxRet' = Linux!Outcome("err")
        /\ UNCHANGED <<lxTime, lxOnline, lxPlugs, lxBase, lxKind, lxSince, lxBornPlugs>>
    BY <1>1 DEF Linux!Fails
  <2>2. QED
    BY <2>1, LxNothingSaid DEF LxInv, Linux!TypeOK, LxBaseMoves, LxBaseListed
<1>2. CASE Linux!Drop
  <2>1. /\ lxBase' = << >>
        /\ UNCHANGED <<lxTime, lxOnline, lxPlugs, lxKind, lxRet, lxSince, lxBornPlugs>>
    BY <1>2 DEF Linux!Drop, Linux!NoBase
  <2>2. << >> \in Seq(LxLine) /\ DOMAIN << >> = {}
    BY EmptySeq
  <2>3. QED
    BY <2>1, <2>2 DEF LxInv, Linux!TypeOK, LxBaseMoves, LxBaseListed,
                      Linux!AlignedLoadsExact, Linux!NoPlugNoMix, Linux!AggregateSound
<1>3. CASE UNCHANGED Linux!vars
  BY <1>3 DEF Linux!vars, LxInv, Linux!TypeOK, LxBaseMoves, LxBaseListed,
              Linux!AlignedLoadsExact, Linux!NoPlugNoMix, Linux!AggregateSound
<1>4. QED
  BY <1>1, <1>2, <1>3, LxTickMoves, LxPlugMoves, LxCreated, LxDone DEF Linux!Next

LEMMA LxInvAlways == Linux!Spec => []LxInv
<1>1. Linux!Init => LxInv
  BY LxInvInit
<1>2. LxInv /\ [Linux!Next]_(Linux!vars) => LxInv'
  BY LxInvStep
<1>3. QED
  BY <1>1, <1>2, PTL DEF Linux!Spec

\* A load made of two samples of one CPU is that CPU's time since the
\* measurement was created, for every pattern of hotplug (linux.rs:523-535).
THEOREM LinuxAlignedExact == Linux!Spec => []AlignedLoadsExact
<1>1. LxInv => AlignedLoadsExact
  BY DEF LxInv, AlignedLoadsExact
<1>2. QED
  BY LxInvAlways, <1>1, PTL

\* Loads mix two CPUs only after hotplug, however short the parser cuts the
\* lists (linux.rs:107-116 and 527-531).
THEOREM LinuxOnlyPlugsMix == Linux!Spec => []NoPlugNoMix
<1>1. LxInv => NoPlugNoMix
  BY DEF LxInv, NoPlugNoMix
<1>2. QED
  BY LxInvAlways, <1>1, PTL

\* The aggregate of any number of loads exists and lies, field by field,
\* between two of them (common.rs:20-28, data.rs:128-139).
THEOREM LinuxAggregateSound == Linux!Spec => []AggregateSound
<1>1. LxInv => AggregateSound
  BY DEF LxInv, AggregateSound
<1>2. QED
  BY LxInvAlways, <1>1, PTL

-----------------------------------------------------------------------------

\* The samplers of a run of UnixCpuLoad behave as they do alone: what is proved
\* of each holds of the run.
THEOREM UnixComposes == UnixSpec => Spec /\ FreeBsd!Spec /\ Linux!Spec
<1>1. UnixInit => Init /\ FreeBsd!Init /\ Linux!Init
  BY DEF UnixInit
<1> DEFINE uvars == <<component, vars, freeBsdState, linuxState>>
<1>2. [UnixNext]_uvars => [Next]_vars
  BY DEF UnixNext
<1>3. [UnixNext]_uvars => [FreeBsd!Next]_(FreeBsd!vars)
  BY DEF UnixNext, freeBsdState, FreeBsd!vars
<1>4. [UnixNext]_uvars => [Linux!Next]_(Linux!vars)
  BY DEF UnixNext, linuxState, Linux!vars
<1>5. QED
  BY <1>1, <1>2, <1>3, <1>4, PTL DEF UnixSpec, Spec, FreeBsd!Spec, Linux!Spec
=============================================================================
