# A verification of systemstat

systemstat is a Rust library that asks the operating system about itself: CPU
load, memory, filesystems, interfaces, batteries, time. It keeps almost no state
and starts no thread. What makes it hard to get right is the other side: every
answer is put together from several system calls, and the kernel does not stand
still between them. This directory models those calls step by step, checks on
small instances with TLC what the answers still mean, and proves it for every
instance with TLAPS.

## The system

`src/src/lib.rs` and `platform/mod.rs` select one `PlatformImpl` at compile time.
`platform/common.rs` is the trait `Platform` with the defaults; each platform file
implements it; `data.rs` has the types and the arithmetic they share.

| Component | State it keeps | Operations | What is hard |
|---|---|---|---|
| `CpuTime`, `CPULoad` (data.rs) | none | `sub`, `to_cpuload`, `avg_add` | empty spans, counters that go back |
| `DelayedMeasurement` (data.rs) | a closure with the first sample (or, on Windows, four PDH handles) | `new`, `done`, drop | two samples at different times; `done` can be called again, and can fail |
| trait defaults (common.rs) | none | `cpu_load_aggregate`, `memory_and_swap`, `uptime`, `boot_time`, `mount_at` | folding, mutual definition, order of calls |
| Linux (linux.rs) | none | reads and parses /proc and /sys; `statvfs`; `sysinfo` | several reads per answer, truncating parsers, hotplug, fallbacks |
| FreeBSD (freebsd.rs, bsd.rs) | `lazy_static` MIBs, page shift, sample size | `sysctl`, `getmntinfo` | six torn reads summed up; sizes cached for ever; a static buffer |
| OpenBSD (openbsd.rs) | the same | `sysctl` per CPU, `/dev/apm`, `getifaddrs` | torn samples, failure midway, integer widths |
| NetBSD, macOS, illumos | the same, or none | few operations | memory arithmetic |
| Windows (windows/*.rs) | PDH queries inside a measurement | PDH, `GetAdaptersAddresses`, volumes, sockets | resources on error paths, retry loop, hot-add |
| unix.rs | none (a list of `getifaddrs` during a call) | `networks`, `load_average` | grouping, names that are not UTF-8, byte order, who frees the list |

The components interact by calls only: `cpu_load_aggregate` wraps the
measurement of `cpu_load`, the default `mount_at` filters `mounts`, a
`DelayedMeasurement` carries data from one call into a later one, perhaps on
another thread. What is shared is the kernel.

What makes the components correct:

* a load accounts for one CPU's time from the first call to the second, and for
  nothing else; its shares make up one whole;
* an aggregate stays between the loads it stands for;
* numbers read one after the other still fit each other, within a bound that
  follows from what happened meanwhile;
* a Filesystem has the numbers of something that was really mounted there, and
  one bad mount does not hide the others;
* a failed call leaks nothing, and leaves a live measurement usable;
* threads that ask at the same time do not get worse answers than they must;
* what the system does not know is not reported as a number;
* every loop ends.

`PROJECT.json` lists the hazards of this code at their lines, with the
properties that cover them, and maps every definition to its source.

## The modules

Each module is one component. An action is a system call together with the code
up to the next one: what another thread or the kernel does can only fall between
two of them. Actions of the kernel (ticks, mounts, packets) are external and are
assumptions of this project, not code.

**CpuTimes** — `CpuTime`, `Sub`, `ToCpuLoad`, `AvgAdd`, and `Loads`, the closure at
the end of every Unix `cpu_load`. The `f32` quotients are exact fractions
(`part[f] / whole`): rounding is out of the model, 0/0 is in it.

**CpuWindow** — the abstract specification of a delayed measurement. `cpu_load()`
fixes a baseline for each CPU at some moment of the call; each `done()` reports,
per CPU, the time from the baseline to some moment of the `done()`. It knows no
system calls.

**OpenBsdCpuLoad** — the detailed one: `HW_NCPU` and then one sysctl per CPU
(`Sample`), each of which may fail (`SysctlFails`), while `Tick` goes on. `phase`
and `data` are the local state of `measure_cpu`, `base` is what the closure
captured. `spin` is dropped by the conversion, as in the code. One measurement is
modelled; two of them share nothing but the kernel.

**FreeBsdCpuLoad** — the same promise implemented otherwise: one sysctl for all CPUs,
so a sample is atomic, but over a size (`cpus`) that `Probe` asks for once in the
life of the process, with nobody looking at the error. A size of 0 makes
`measure_cpu` index an empty vector (`Panic`); the caller may survive that, and for
`CpuWindow` a panic is one more way to fail.

**CpuAggregate**, **LinuxCpuLoad** — one read of `/proc/stat` per sample, so a sample
is atomic, but it lists only the CPUs that are online, the parser stops at the
first line that does not convert, and the pairing is by position. `Plug` is
hotplug; a line carries its CPU only for the properties. `Done` is one action:
one read, one result.

**FreeBsdMemory** — `memory()`: `pc` walks through the six sysctls in their order,
`sample` is the local variables. `Move` takes a page from one queue to another,
`ResizeArc` changes which wired pages belong to the ARC. Units are pages, as the code
multiplies all counts by the same page size. That the ARC's pages are wired is an
assumption.

**LinuxMounts** — `mounts()` and `mount_at()`: the table is read once (`lines`), then
`Stat` or `StatFails` works off `rest`, with `Mount` and `Unmount` in between.
Filesystems may be stacked on a directory. A name is a directory and whether
`/proc/mounts` had to escape it. Sizes are one opaque value per filesystem.

**BsdMounts** — `mounts()` of FreeBSD, OpenBSD and macOS by several threads. `buffer` is
the one buffer of `getmntinfo`, an address and cells; the next call refills it in place,
or frees it for another when the list has outgrown it (`Refill`, external: this is how
the C libraries of these systems do it). `StatfsToFs` is one read of `statfs_to_fs`, of
a field or of a piece of the target, through the pointer the thread was given (`Cell`);
another thread's `getmntinfo` may fall between any two of them, so that one Filesystem
may have fields of several entries, and the pointer may dangle by then: the read gives
`Junk`. The constant `Reads` is the sequence of these reads; what they say is reduced to
which entry they are from, so a Filesystem is a sequence of what each read gave (`Whole`
when nobody interferes). `mount_at` is a `statfs` (`StatfsMountAt`) or, on macOS, the
default that searches `mounts()` (`ReturnMountAt`). `longest` and `there` remember what
others did meanwhile. Assumptions: `getmntinfo` itself is one step, and a target put
together from pieces of two paths is not the path of a third (`Found`).

**LinuxNetStats** — `network_stats()`: `next` walks through six files. Packets,
errors, removal and re-creation of the interface (`epoch`) fall in between. That
the driver adds a packet and its bytes in one step is an assumption.

**IfAddrs** — `network_stats()` of OpenBSD and `networks()` of unix.rs over the list of
`getifaddrs`. A call allocates its list (`Listed`), or fails to (`Unlisted`, which goes
on with no list, and `NetworksFails`, which returns); it walks the list and gives it
back by the pointer it kept (`NetworkStats`, `Networks`), or leaves in the middle of it
(`NameRefused`). The list is the caller's own, so the walk is one step, and the kernel's
interfaces are chosen at the start; `heap` counts the lists that are allocated. The
first insists on names in UTF-8 and leaves the loop early, the second maps them
(`Lossy`, a constant). `endian` is the byte order of the machine, on which depends what
`transmute` makes of an IPv6 address. Netmasks are parsed as addresses are, and are left
out; the six counters are one number.

**WindowsAdapters** — `network_interfaces::get()`: `Malloc`, the query (`Success`,
`Overflow`, `QueryFails`), `Walk`. `Resize` changes the size the system needs. `heap`
counts blocks; `newSize` is modulo 2^32. `Walk` is one step, as the block is private;
of the addresses it parses the model returns one. **WindowsAddress** has the
operators of that parsing: the byte order of an IPv6 address, and the netmask of
a prefix with the shift that wraps.

**WindowsDrives** — `drives()`: `AskLength` and `AskList` are the two calls for the
list, `Volume`, `Type` and `Space` the calls for each drive; each of the five may fail
(`LengthFails`, `ListFails`, ...), not always noticed. Drives are attached and detached
and media changed in between (`Attach`, `Detach`, `Load`). The label of a drive without
a volume comes from a buffer nobody filled, and is any label here.

**WindowsCpuLoad** — the four PDH queries: `OpenQuery`, `AddCounter` and
`FirstCollect` for each counter in turn, `Collect` and `Format` for each in
`done()`, with a failure at every point. `owned` is what a `QueryHandle` would
close; `open` is what PDH has open. Unlike on Unix, `done()` moves the baseline:
PDH measures from one collection to the next. The branch of `next_value` that
returns an empty list is left out: PDH answers a question without a buffer
with `PDH_MORE_DATA`, as there is always an instance.

**LinuxPower** — `battery_life()` and `on_ac_power()`: `left` is what the scan of the
directory has still to visit, `at` and `got` the battery being read and its values so
far; `sum` and `onAc` are the local variables. A battery may have files that count
energy, files that count charge, or any mixture (the constant `Files`). Each of the
three values is read as energy (`ReadValue`) or, if that fails or is not there
(`FallBack`), as charge, or not at all (`ValueFails`); `unit` is the one being tried. So
one battery may be added with its full charge in one unit and the present one in
another: `Mixed` notes that, for the property, and `CapacityInHull` says when it cannot
happen. `Time` has the cast that makes a negative current exceed every dividend.
Outside, batteries charge and drain, each value by itself, and supplies come and go.
Assumptions: a battery's full charge is constant and above 0, it never shows less than 0
or more than that, one put back is the same battery, the listing of the directory is one
step, and the sums fit an `i32`.

**Battery** — `battery_life()` and `on_ac_power()` of FreeBSD, OpenBSD and Windows. One
look each, but for the two sysctls of FreeBSD, between which the battery may change.
What is not known arrives as -1, 255 or all ones, and goes through the casts of the code
(`AsUnsigned`, modulo `IntValues`). `LifeUnchecked` and `AcUnchecked` are the failure of
`GetSystemPowerStatus`, which nobody notices. Capacities are in hundredths. `LifeHonest`
measures a result by what the battery has (`Share`, `Seconds`), and names each
platform's deviation from it: a factor of 100, a factor of 60, the number for "not
known".

**Clock** — `uptime()` and `boot_time()` on all platforms. `Overrides` is the table of
who overrides what; `stack` holds a call and, by `Delegate`, the one it makes by
default; `SubtractFromNow` reads the clock on the wall only after the inner call has
returned (`held`), with `Advance` and `SetClock` in between. `Timeval` adds `tv_usec`
as nanoseconds, as the code does.

**SocketStats** — `socket_stats()` of Linux (two files) and Windows (four calls). `todo` has, for each
call left to make, the fields it fills in.

**MemoryAndSwap** — `memory()`, `swap()` and `memory_and_swap()` of Linux, OpenBSD,
NetBSD, macOS and Windows in one module, as they differ in two things only: how many
times they look at the kernel (`Calls`, `Look`, `FallBack`, `LookFails`) and what they
make of it (`LinuxFree`, `OpenBsdFree`, `MemoryFree`, `WindowsSwap`, `Swap`). Pages
change their use and go to swap and back between two looks; a page on its way out is of
the use "paging" until it is free, while its copy already has a slot in swap
(`PageOut`). On Windows the demand is the commit charge. `demand` remembers what was in
use during the call.

Components that share nothing but the machine are put side by side, so that a run
or a theorem speaks of one of them while the others stay where they are
(`component`, chosen by the initial state):

| Composition | Its components | Their instances |
|---|---|---|
| **UnixCpuLoad** | OpenBsdCpuLoad, FreeBsdCpuLoad, LinuxCpuLoad | itself, `FreeBsd!`, `Linux!` |
| **SystemMemory** | FreeBsdMemory, MemoryAndSwap | itself, `Both!` |
| **Mounts** | LinuxMounts, BsdMounts | itself, `Bsd!` |
| **UnixNetwork** | LinuxNetStats, IfAddrs | itself, `IfList!` |
| **PowerAndClock** | LinuxPower, Battery, Clock | itself, `Apm!`, `Clocks!` |
| **WindowsCounters** | WindowsCpuLoad, SocketStats | itself, `Sock!` |
| **WindowsDevices** | WindowsAdapters with WindowsAddress, WindowsDrives | itself, `Drives!` |

The composition EXTENDS its first component and has the others by INSTANCE, and states
their properties again under its own names. Each has a module `...Proofs` with
the theorems, which EXTENDS it; the `MC...` modules only hold values for TLC.
**InductionFacts** has what all proofs share: induction over the naturals, the function
a recursion defines, and a finite set of numbers put in order.

Operators with names like `SampleFirst` or `OverflowFourfold` are not part of any
specification: each is a plausible mistake in the definition after it, kept to
see that the properties notice it (`mutants` in `PROJECT.json`).

## The runs

`tlc -config X.cfg M` with the module and the configuration that `PROJECT.json` names for the
run; the states are distinct states.

| Run | Bounds | What it shows |
|---|---|---|
| unix_cpu_load | OpenBSD and FreeBSD: 2 CPUs, 4 ticks, in a kept field and in the dropped one; Linux: 3 CPUs, 3 ticks, 2 plugs, usize up to 1; 241,360 states | each entry of a torn sample belongs to its call, both BSD samplers implement `CpuWindow` at every `done()`, also after one that failed, and on FreeBSD the first call decides whether calls panic; on Linux loads of one CPU are exact, nothing mixes without hotplug even when a list is cut short, the aggregate has no panic and stays in the hull of the loads |
| linux_cpu_load_mean | 3 CPUs, no plug | *violated:* `common.rs` calls the aggregate an average; the fold is not one from three CPUs on |
| linux_cpu_load_hotplug | 2 CPUs, 1 plug | *violated:* one object per CPU; a pair can be of two CPUs |
| system_memory | FreeBSD: 3 pages, 2 moves per call, ARC, no cache queue; the others: 2 pages, 1 page of swap, 2 moves per call, 5 platforms; 441,421 states | FreeBSD's total is off by at most the pages moved; no amount is below 0 and no free amount above its total but for the pages moved, and memory and swap of one answer fit together up to the pages moved |
| linux_mounts | Linux: 3 filesystems, 3 directories (one with a space), 3 changes; the others: 2 threads, 3 filesystems, 3 directories, one or two of them mounted at the start, 2 changes, 4 reads per entry, 2 of them of the target; 909,905 states, symmetric in the filesystems and the threads | numbers were there, labels fit unless stacked or changed, nothing is lost by one failure, override and default agree; a thread alone has the kernel's list, and what overlapping threads can get is bounded field by field |
| linux_mounts_space | the same | *violated:* a mount on a name with a space is not found |
| unix_network | packets of 1 and 2 bytes, 3 events; lists of up to 3 entries of 3 names, 2 of which are one to `to_string_lossy`, up to 2 lists lost, both byte orders; 740,682 states | packets can carry the bytes, nothing goes backwards; each list is freed by its call but those of refused calls, counters and addresses are those of the interface |
| windows_devices | first size 2, sizes up to 15, ULONG of 32, 13 prefixes; a fixed drive and a CD drive, 2 media, 2 changes; 22,807 states | no leak, `get()` ends, addresses and masks are right; drives were there with their labels and sizes, and `drives()` fails only for a reason |
| windows_counters | 1 to 2 CPUs, 3 time steps; 1 socket of each kind, 2 events; 626,338 states | no query left open, spans agree, loads are complete, the one way to panic; socket counts are each of a moment of the call, and their sum is off by no more than the events |
| linux_power | Linux: 2 batteries, one with full and present charge in both units and the current in one, one that counts charge, 2 adapters, currents below and above 0, 2 changes; others: charges 0, 7 and 100 %, times -1, 0 and 59 minutes, ints of 16 bits, 1 change; clocks: seconds of 3 microseconds, 7 units of time, 2 settings forward by 2 or back by 3; 1,700,705 states, symmetric in the adapters | the capacity is between those of the batteries unless one was added in two units, "missing" and AC are the truth of some moment, a quiet call is exact, and its time is no longer than the batteries last; the other systems' batteries are what they had, in the units the property names; uptime and boot time are right but for their resolution |
| battery_life_range | the same | *violated:* a test asserts a capacity of at most 100; FreeBSD's -1 becomes a large number |
| battery_life_units | the same | *violated:* the example prints a capacity of 1 as 100% and seconds as hours; OpenBSD gives a percentage, FreeBSD and OpenBSD minutes |

The bounds are small on purpose and large enough for the cases that matter: two CPUs
tear a sample and three tell a fold from a mean; three ticks put one before, one inside
and one after a call; two changes let a list outgrow the buffer while another thread
copies from it, and shrink again; two reads of the target and two before them let a
refill fall between fields and within the target; a page can leave a queue that was read
for one that was not, and back; three changes mount over, unmount and remount during one
call; two changes swap one adapter for another, or drain a battery and take it away;
three events are enough for an interface to carry a packet, go, and come back. In
windows_devices the first size is far below the largest so that several retries happen,
and twice the largest size just fits the ULONG. The clock runs for more than a second of
the model and can be set back to before what it showed at the boot.

Fairness is assumed in one place: weak fairness of `Get` in WindowsAdapters, the
thread inside `get()` goes on. The loop has no wait and needs no partner, so this
is what any scheduler gives; `Resize` is not fair and may happen for ever.
`Terminates` is the only liveness property. The other components promise nothing
that must eventually happen: each is a fixed number of system calls.

## What the runs found

Five statements of the documentation, the tests and the example are not what the code
does (`findings`): the aggregate is a fold of pairwise means and not the average; the
loads are paired by position and not by CPU; `mount_at` compares the name as
`/proc/mounts` escapes it; a FreeBSD battery whose charge is not known is reported as
charged to 42949672.95, since -1 is read as an unsigned number; and what
`examples/info.rs` prints of a battery, the capacity times 100 and the seconds over
3600, is not what the battery has, as OpenBSD hands over a percentage and both BSDs pass
minutes to `Duration::from_secs`. Around each of them a property says what does hold:
the hull, alignment without hotplug, and a complete list of the names without spaces,
and capacity and time of a battery that is known, in the units they are in.

Further observations that are not disagreements with any text: the label of a stacked
mount comes from the oldest line and its numbers from the newest (`ListComplete`
excludes it), and an interface created anew in mid-call gives a result that mixes both
(`ret.tag` = "mixed", which the code cannot see). Of two adapters of which one takes
over from the other, `on_ac_power` may see neither, which is why `SaidOfSupplies` asks
of "off" only that no adapter was on throughout. On OpenBSD a buffer that becomes a free
page between the two sysctls counts twice, so free memory may exceed the total by the
pages moved (`FreeWithinTotal`).

A Linux battery with files in both units, of which one cannot be read for a moment, is
added with the full charge of one unit and the present one of the other; its share then
means nothing (`CapacityInHull`). Of the systems compared in Battery: -1 minutes become
136 years on OpenBSD, and on Windows so do all ones. Of the lists of `getifaddrs`: one
interface whose name is not UTF-8 makes OpenBSD's `network_stats` fail for every
interface, and each such call leaves a list allocated (`ListsFreed`); on a big-endian
machine the bytes of each group of an IPv6 address are swapped (`NetworksComplete`).
`tv_usec` taken for nanoseconds makes a boot time too early by less than a second, which
`ClockHonest` allows. Two threads in `mounts()` on a BSD read one buffer: as long as no
list is longer than the one before, each gets fields of entries that were mounted during
its call, but of several of them in one Filesystem, in whatever mixture; else it reads
freed memory (`OverlapBounded`).

## What is proved

Every invariant and every action property of the passing runs, and both refinements, are
theorems, for every value of the constants: any number of CPUs, of supplies,
of threads and of mounts, lists of any length, memory of any size, any bound on what the
kernel does meanwhile. Left to TLC is `Terminates` alone. The constants are
subject to the assumption named `ConstantsAssumption` of their module
(`DrivesAssumption` in WindowsDrives) and to nothing else; TLC evaluates them in every
run. The ones that say something of the world are: the root is a directory and its name
has no space (LinuxMounts, BsdMounts); twice the largest description of the
adapters fits a ULONG (WindowsAdapters); the time a battery has left, counted in
seconds, fits an `int` of at least 16 bits (Battery); a second is a whole
number of microseconds (Clock); the batteries and the drives are finitely
many (LinuxPower, WindowsDrives);
the full charge of a battery is above 0 (LinuxPower); `statfs_to_fs` reads a target
(BsdMounts); and the bytes of an address are bytes.

Each of the modules ends with a theorem `...Compose(s)`: a behaviour of the
composition is one of each of its components. What is proved of a component
holds therefore of the specification its run checks.

* **UnixCpuLoadProofs**
  * `ToCpuLoadCorrect`: a load has a positive denominator and its shares add up to it. With
    lemmas on `Sub`, `Loads` and `Before` that the other proofs cite: no difference
    saturates when the older sample is behind.
  * OpenBSD: `TypeOK`, `SampleInsideCall` and `BaseBehind` are invariants, and
    `Spec => Window!Spec`. The refinement maps `time` and `began` through `FromSysctl`
    and keeps `phase`, `base` and `ret`; `Sample` stutters. The step that matters is
    `ReturnLoads`: the load of a CPU lies in the window since its base is behind
    `began`, its sample between `began` and now, and so nothing saturates.
    `BaseBehind` alone is not inductive, it needs that a sample being collected is
    inside its call.
  * FreeBSD: `AllOrNothing` is inductive with the fact that a panic was told only
    with a size of 0, anything else only with a size of N, and nothing at all
    before the size was asked for. In the refinement, `Panic` and `SysctlFails` are both
    `ReturnFailure` and `Probe` stutters.
  * Linux: `LxInv` adds to the four properties that a captured line is what its
    CPU had before the ticks since then (`LxBaseMoves`), and that without hotplug the
    captured lines are those of the CPUs still listed (`LxBaseListed`), however
    short the parser cut them. `AggregateSound` is an induction along the fold: a
    pairwise mean of two loads is a load between them (`MeanAbove`, `MeanBelow`), and
    so every partial aggregate is in the hull of the loads folded so far.
* **SystemMemoryProofs**
  * FreeBSD: `TotalNearPhys` speaks of the result only; what makes it inductive is
    `ProjectedNearPhys`, on the samples taken so far completed by the queues as they
    are now: a move changes it by one page at most. The growth of `wired` after its
    read is counted in, which is the room in which the ARC can exceed the sample.
  * The others: `KernelHeld` has the sums of the pages, `CallHeld` says per platform how far
    a call has come and what its looks have shown already (`LinuxTrue`, `NetBsdTrue`,
    `OpenBsdTrue`, `MacBothTrue`, `WindowsTrue`): the amounts are in range, and the
    use they add up to was the demand of some moment of the call, off by the
    pages that moved. On Windows the demand is what was promised, and what the result
    shows in use is that unless the swap cannot take up the difference. Where two looks make one answer, the first one is completed by what the
    kernel has now, and a move changes that by at most one (`OnePageAtMost`).
* **MountsProofs**
  * Linux (`LinuxInv`): what is reachable now was so during the call (`SeenNow`), and
    what is collected was too (`FoundThere`); in a call without mounts the table is the
    one that was read (`CalmTable`), what is left is the end of its lines
    (`RestOfLines`), and the Filesystems are those of the lines worked off
    (`FoundListed`). For tables of any length: places in a table are found as least and
    greatest numbers of a bounded set.
  * The BSDs (`BsdInv`, a conjunct per thread): the buffer of a thread that is copying
    holds entries that were mounted during its call, or was freed for a list longer than
    its own (`BufferBounded`); so each read of an entry, also those of the entry at work
    (`PartTold`), gave a field of an entry of the call or what is behind a dangling pointer
    (`Told`). If nobody called meanwhile, buffer, copy and the part read of the entry at
    work are those of the list it was given (`AloneCopies`).
* **UnixNetworkProofs**
  * Linux: `BytesCarried`, and the action property `NeverBackwards`, from seven named
    invariants: in each direction the bytes sampled are carried by the packets
    there are, and by the packets sampled once those are read; a counter is
    never below its last reported value on the same incarnation.
  * `getifaddrs`: by induction along the loops, the sums of `network_stats()` are the counters
    of the one link entry of the interface (`SumIsCounters`), and the entries of `networks()`
    hold the addresses so far, in order, under their names (`Holds`, `EnteredTrue`);
    `RightAddr` says when the bytes of an IPv6 address are in order: on a little-endian
    machine, or if they can be swapped in pairs.
* **PowerAndClockProofs**
  * Linux: what there is now has been seen (`GlanceSeen`), what was read of the battery
    at work was so (`ReadsTrue`), every battery and every adapter counts, is still to
    come or was off (`BatteriesCounted`, `AdaptersCounted`), and the sums are
    in the hull of the shares (`SumInHull`) unless a battery was added in two units, since a mediant lies between its two
    fractions (`MediantAbove`, `MediantBelow`).
  * `CalmIsExact`: while nothing happens, the sums are those over the batteries the loop has
    done with (`CalmSums`), each in the unit its files ask for, and the time follows from the
    sums (`TimeBound`). A sum over a finite set does not depend on the order
    the directory lists it in; the lemmas on `Total` prove it by induction on the
    cardinality.
  * Clocks: `StackShape` says that at most one definition by default is in use, and
    `HeldHonest` what the inner answer is worth until the clock on the wall is
    read. The others' batteries: what FreeBSD read first was there
    (`BetweenSysctls`), and no conversion of a known number wraps, so that results differ from
    what the battery had by the named factors only.
* **WindowsCountersProofs** — the queries that are open at each point of the program
  and nothing else (`QueriesHeld`), where the baselines are (`BaselinesKnown`) and what
  `done()` has so far (`ItemsKnown`) give the four properties of the CPU load, through every
  failure. Sockets: each call made saw one moment, and the result completed by the
  present (`Projected`) is no further from any moment of the call than its events
  (`GlancesKept`).
* **WindowsDevicesProofs**
  * `TypeOK`, `HeapBalanced`, `SizesDouble` and `RetriesBounded`. The history `floor`
    doubles with each retry and never exceeds the size asked for; a retry happens only
    when the need exceeds the size, so `floor` is below twice the largest need.
  * `AddressesCorrect`: the netmask of every length from 0 to 255 bit by bit
    (`GroupBits`, `MaskBits`), for the octets of IPv4 and the words of IPv6, with the
    shift by a whole width that wraps to none; and the bytes of an IPv6 address after
    two reversals.
  * Drives (`DrivesInv`): the entries, the drive being asked and those left are a list
    there was (`ListVisited`), each entry was there (`EntrySeen`), and what the
    call believes of its drive was true when it was asked (`CallKnows`).

Data of any length is dealt with by induction over the naturals. The provers cannot
instantiate the induction rules of the library, which take an operator; InductionFacts
states induction of a set closed under the successor instead, which follows from the
well-foundedness of `<` (`WFMin`), and from it that a recursive function exists
(`Recursion`).

`BaseBehind`, `SizesDouble` and `RetriesBounded` are only proved: TLC checked them
too while they were developed, but no run needs them, as `ImplementsWindow` and
`Terminates` fail where they do.

Only model-checked: `Terminates`. Liveness under fairness is out of the prover's
reach; its argument without time is proved, though, as `RetriesBounded`: between a
call and its return lie at most 1 + log2(MaxNeed / Working) retries. The five runs that
expect a violation are refutations and have nothing to prove.

## Not modelled

`f32` and `f64` rounding; the text side of the parsers, except where it drops or
truncates; units and field copies, and with them two hazards of the list: the page count
of OpenBSD that is shifted as a `c_int`, and Linux's `f_blocks` multiplied by
`f_bsize`. Linux's disk statistics and temperature, FreeBSD's temperature and the load
average are one call and a copy without any state: a model would only restate
them. The rest of illumos and the platform selection have no behaviour. The components in
`PROJECT.json` with the status partly or not_modelled give their reasons.

## Plan

Done: the components of the table, their compositions, and the proofs of all that the
runs check but `Terminates`. What is left:

1. Abstract specifications of more components, in the manner of CpuWindow: a snapshot of
   several counters of which FreeBsdMemory, MemoryAndSwap, LinuxNetStats and SocketStats are
   implementations, so that their bounds follow from one theorem.
2. `ListComplete` and `OverrideAgrees` for tables that change, which would have to say
   what of a list outlives a change.
3. FreeBSD's temperature and Linux's disk statistics, if they come to have state.
