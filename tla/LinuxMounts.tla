---------------------------- MODULE LinuxMounts ----------------------------
(***************************************************************************)
(* mounts() and mount_at() of src/src/platform/linux.rs.  Both read        *)
(* /proc/mounts once and then call statvfs for the lines they are          *)
(* interested in.  A line gives the type and the source of a filesystem,   *)
(* statvfs the numbers of whatever is on top of the target when it is      *)
(* called: filesystems are mounted and unmounted in between, and a target  *)
(* may carry a stack of them.                                              *)
(*                                                                         *)
(* The kernel writes a space in a target as \040 and the code never        *)
(* converts it back.                                                       *)
(***************************************************************************)
EXTENDS Integers, SequencesExt

CONSTANTS
    Fs,         \* the filesystems
    Dir,        \* the directories to mount on
    Root,       \* "/"
    Spaced,     \* the directories with a space in their name
    MaxChanges  \* bound on the mounts and unmounts of a behaviour

NoFs == "none"

ASSUME ConstantsAssumption ==
    /\ NoFs \notin Fs
    /\ Root \in Dir
    /\ Spaced \subseteq Dir \ {Root}
    /\ MaxChanges \in Nat

VARIABLES
    table,      \* the mount table: a sequence of [fs, on], oldest first
    changes,    \* mounts and unmounts so far
    phase,      \* "idle", or the call in progress: "mounts" or "mount_at"
    path,       \* the directory mount_at() was asked for
    rest,       \* the lines left to stat
    found,      \* the Filesystems collected so far
    ret,        \* what the last call returned
    lines,      \* history: the lines the last call read
    seen,       \* history: what was reachable where during the last call
    calm        \* history: no change and no failed statvfs in the last call

kernel == <<table, changes>>
vars == <<table, changes, phase, path, rest, found, ret, lines, seen, calm>>

Outcome(tag) == [tag |-> tag, list |-> << >>]

\* Names: a directory's own, and the one /proc/mounts has for it.
Name == [dir : Dir, escaped : BOOLEAN]

Plain(d) == [dir |-> d, escaped |-> FALSE]

Target(e) == [dir |-> e.on, escaped |-> e.on \in Spaced]

\* The places of the entries of t on directory d.
On(t, d) == {i \in DOMAIN t : t[i].on = d}

\* What a directory shows: the last filesystem mounted on it, or else the root
\* filesystem it is a plain directory of.
Top(t, d) ==
    LET stack == On(t, d)
    IN  t[Max(IF stack = {} THEN On(t, Root) ELSE stack)].fs

\* statvfs on a name.  Nothing is called literally \040.
Statvfs(name) == IF name.escaped THEN NoFs ELSE Top(table, name.dir)

Reachable(t) == {<<d, Top(t, d)>> : d \in Dir}

Init ==
    /\ \E f \in Fs : table = <<[fs |-> f, on |-> Root]>>
    /\ changes = 0
    /\ phase = "idle"
    /\ path = Root
    /\ rest = << >>
    /\ found = << >>
    /\ ret = Outcome("nothing")
    /\ lines = << >>
    /\ seen = {}
    /\ calm = TRUE

\* The kernel changes its table under whatever call is in progress.
ChangeTable(t) ==
    /\ changes < MaxChanges
    /\ changes' = changes + 1
    /\ table' = t
    /\ IF phase = "idle"
       THEN UNCHANGED <<seen, calm>>
       ELSE seen' = seen \cup Reachable(t) /\ calm' = FALSE
    /\ UNCHANGED <<phase, path, rest, found, ret, lines>>

Mount(f, d) ==
    /\ d # Root
    /\ \A i \in DOMAIN table : table[i].fs # f
    /\ ChangeTable(Append(table, [fs |-> f, on |-> d]))

\* The top of a stack goes; the root stays.
Unmount(i) ==
    /\ table[i].on # Root
    /\ \A j \in i + 1..Len(table) : table[j].on # table[i].on
    /\ ChangeTable(RemoveAt(table, i))

\* The lines of mounts(): every one that the parser gets, proc_mounts.
CallMounts ==
    /\ phase = "idle"
    /\ phase' = "mounts"
    /\ rest' = table
    /\ lines' = table
    /\ seen' = Reachable(table)
    /\ calm' = TRUE
    /\ UNCHANGED <<kernel, path, found, ret>>

\* The lines whose target is the path.
Hits(t, d) == {i \in DOMAIN t : Target(t[i]) = Plain(d)}

\* find from the wrong end.
FindLast(t, d) == IF Hits(t, d) = {} THEN << >> ELSE <<t[Max(Hits(t, d))]>>

\* The first such line, if there is one.
Find(t, d) == IF Hits(t, d) = {} THEN << >> ELSE <<t[Min(Hits(t, d))]>>

CallMountAt(d) ==
    /\ phase = "idle"
    /\ path' = d
    /\ lines' = table
    /\ seen' = Reachable(table)
    /\ calm' = TRUE
    /\ rest' = Find(table, d)
    /\ IF rest' = << >>
       THEN phase' = "idle" /\ ret' = Outcome("not_found")
       ELSE phase' = "mount_at" /\ UNCHANGED ret
    /\ UNCHANGED <<kernel, found>>

\* /proc/mounts cannot be read or parsed.
ReadFails ==
    /\ phase = "idle"
    /\ ret' = Outcome("err")
    /\ lines' = << >>
    /\ seen' = {}
    /\ calm' = TRUE
    /\ UNCHANGED <<kernel, phase, path, rest, found>>

\* statvfs called with the source of the line, a file of the root filesystem.
FilesystemOfSource(line, f) ==
    [label |-> line.fs, on |-> Target(line), numbers |-> Top(table, Root)]

\* The Filesystem stat_mount makes of a line and of what statvfs found.
Filesystem(line, f) == [label |-> line.fs, on |-> Target(line), numbers |-> f]

\* The loop takes what stat_mount made of the next line.
Collect(f) ==
    LET filesystem == Filesystem(Head(rest), f) IN
    /\ rest' = Tail(rest)
    /\ IF phase = "mounts"
       THEN /\ found' = Append(found, filesystem)
            /\ UNCHANGED <<phase, ret>>
       ELSE /\ phase' = "idle"
            /\ ret' = [tag |-> "one", list |-> <<filesystem>>]
            /\ UNCHANGED found
    /\ UNCHANGED <<kernel, path, lines, seen, calm>>

\* stat_mount succeeds on the next line.
Stat ==
    /\ rest # << >>
    /\ Statvfs(Target(Head(rest))) # NoFs
    /\ Collect(Statvfs(Target(Head(rest))))

\* collect() into a Result: the first failure ends the list.
StatFailsForAll ==
    /\ rest # << >>
    /\ rest' = << >>
    /\ calm' = (calm /\ Statvfs(Target(Head(rest))) = NoFs)
    /\ IF phase = "mounts"
       THEN UNCHANGED <<phase, ret>>
       ELSE phase' = "idle" /\ ret' = Outcome("err")
    /\ UNCHANGED <<kernel, path, found, lines, seen>>

\* stat_mount fails on the next line: there is nothing of that name, or the
\* file server is gone, or permission is missing.  mounts() skips the line.
StatFails ==
    /\ rest # << >>
    /\ rest' = Tail(rest)
    /\ calm' = (calm /\ Statvfs(Target(Head(rest))) = NoFs)
    /\ IF phase = "mounts"
       THEN UNCHANGED <<phase, ret>>
       ELSE phase' = "idle" /\ ret' = Outcome("err")
    /\ UNCHANGED <<kernel, path, found, lines, seen>>

ReturnMounts ==
    /\ phase = "mounts"
    /\ rest = << >>
    /\ phase' = "idle"
    /\ ret' = [tag |-> "all", list |-> found]
    /\ found' = << >>
    /\ UNCHANGED <<kernel, path, rest, lines, seen, calm>>

Next ==
    \/ \E f \in Fs, d \in Dir : Mount(f, d)
    \/ \E i \in DOMAIN table : Unmount(i)
    \/ CallMounts
    \/ \E d \in Dir : CallMountAt(d)
    \/ ReadFails
    \/ Stat
    \/ StatFails
    \/ ReturnMounts

Spec == Init /\ [][Next]_vars

-----------------------------------------------------------------------------

Returned == phase = "idle"

\* The numbers of a Filesystem are those of a filesystem that could be reached
\* at fs_mounted_on at some moment of the call, however often the table
\* changed while the lines were worked off, and no Filesystem is made of a
\* failed statvfs (linux.rs:641-654, 430-449).
NumbersWereThere ==
    Returned => \A i \in DOMAIN ret.list :
                    <<ret.list[i].on, ret.list[i].numbers>> \in {<<Plain(r[1]), r[2]>> : r \in seen}

\* The list has a Filesystem for each of the first n lines, in order, but for
\* the targets with a space.
ListsAll(list, n) ==
    \E line \in [DOMAIN list -> 1..n] :
        /\ \A i, j \in DOMAIN list : i < j => line[i] < line[j]
        /\ \A k \in 1..n :
              lines[k].on \notin Spaced <=> \E i \in DOMAIN list : line[i] = k
        /\ \A i \in DOMAIN list :
              list[i] = Filesystem(lines[line[i]], Top(lines, lines[line[i]].on))

\* When nothing changes and no statvfs fails on a name that exists, mounts()
\* has one Filesystem for each line, in order, but for the targets with a
\* space in their name: with the type and the source of the line, and the
\* numbers of the filesystem on top of its target, which is another one for
\* all but the last of several lines (linux.rs:436-445, 648-653).
ListComplete ==
    Returned /\ calm /\ ret.tag = "all" => ListsAll(ret.list, Len(lines))

\* Platform::mount_at (common.rs:77-85), which this platform overrides: the
\* first of mounts() with the path for its target.
DefaultMountAt ==
    LET fits == {i \in DOMAIN lines : Target(lines[i]) = Plain(path)}
    IN  IF fits = {}
        THEN Outcome("not_found")
        ELSE LET first == CHOOSE i \in fits : \A j \in fits : i <= j
             IN  [tag |-> "one", list |-> <<Filesystem(lines[first], Top(lines, path))>>]

\* When nothing changes and no statvfs fails, the override that stats one line
\* returns what the default made of all of them (linux.rs:656-670).
OverrideAgrees ==
    Returned /\ calm /\ ret.tag \in {"one", "not_found"} => ret = DefaultMountAt

\* common.rs:76 has mount_at() return the filesystem at a given path: it is
\* not missing while something is mounted there.
MountedIsFound ==
    Returned /\ ret.tag = "not_found" => On(lines, path) = {}
=============================================================================
