----------------------------- MODULE BsdMounts -----------------------------
(***************************************************************************)
(* mounts() and mount_at() of FreeBSD, OpenBSD and macOS, called by        *)
(* threads.  getmntinfo hands every caller the same buffer, which the next *)
(* call refills, or frees when the list has outgrown it, while the caller  *)
(* is still turning the entries into Filesystems, one field after another. *)
(*                                                                         *)
(* FreeBSD and OpenBSD override mount_at with a statfs into a buffer of    *)
(* its own; macOS has the default of common.rs, which searches mounts().   *)
(***************************************************************************)
EXTENDS Integers, SequencesExt

CONSTANTS
    Fs,         \* the filesystems
    Dir,        \* the directories to mount on
    Root,       \* "/"
    Thread,     \* the callers
    Reads,      \* what statfs_to_fs reads of an entry, in order: "fs" is a field
                \* that tells of the filesystem, "on" a piece of the target
    MaxEdits    \* bound on the mounts and unmounts of a behaviour

ConstantsAssumption ==
    /\ Root \in Dir
    /\ Reads \in Seq({"fs", "on"})
    /\ \E k \in DOMAIN Reads : Reads[k] = "on"
    /\ MaxEdits \in Nat

\* What reads through a dangling pointer give.
Junk == [fs |-> "junk", on |-> "junk"]

\* statfs_to_fs of an entry that nobody writes to.
Whole(e) == [k \in DOMAIN Reads |-> e[Reads[k]]]

Wholes(list) == [i \in DOMAIN list |-> Whole(list[i])]

VARIABLES
    mtab,       \* the mount table: a sequence of [fs, on], oldest first
    edits,      \* mounts and unmounts so far
    buffer,     \* the static buffer: its address and what is in its cells
    call,       \* for each thread, the call in progress
    answer,     \* for each thread, what its last call returned, until the next
    given,      \* history: the list its getmntinfo found
    there,      \* history: the entries the table had during its last call
    longest     \* history: the longest list handed to another meanwhile

vars == <<mtab, edits, buffer, call, answer, given, there, longest>>

\* part is what has been read of the entry at work.
Idle == [kind |-> "idle", path |-> Root, ptr |-> 0, left |-> 0, part |-> << >>,
         copied |-> << >>]

Answer(tag, d, list) == [tag |-> tag, path |-> d, list |-> list]

Busy(t) == call[t].kind # "idle"

\* The places of the entries on a directory.
On(list, d) == {i \in DOMAIN list : list[i].on = d}

\* The places of the Filesystems with this target: every piece is of it.
Found(list, d) == {i \in DOMAIN list : \A k \in DOMAIN Reads : Reads[k] = "on" => list[i][k] = d}

Init ==
    /\ \E f \in Fs :
        \/ mtab = <<[fs |-> f, on |-> Root]>>
        \/ \E g \in Fs \ {f}, d \in Dir \ {Root} :
                mtab = <<[fs |-> f, on |-> Root], [fs |-> g, on |-> d]>>
    /\ edits = 0
    /\ buffer = [addr |-> 0, cells |-> << >>]
    /\ call = [t \in Thread |-> Idle]
    /\ answer = [t \in Thread |-> Answer("nothing", Root, << >>)]
    /\ given = [t \in Thread |-> << >>]
    /\ there = [t \in Thread |-> {}]
    /\ longest = [t \in Thread |-> 0]

ChangeTable(table) ==
    /\ edits < MaxEdits
    /\ edits' = edits + 1
    /\ mtab' = table
    /\ there' = [t \in Thread |->
                    IF Busy(t) THEN there[t] \cup ToSet(table) ELSE there[t]]
    /\ UNCHANGED <<buffer, call, answer, given, longest>>

Mount(f, d) ==
    /\ d # Root
    /\ \A i \in DOMAIN mtab : mtab[i].fs # f
    /\ ChangeTable(Append(mtab, [fs |-> f, on |-> d]))

Unmount(i) ==
    /\ mtab[i].on # Root
    /\ \A j \in i + 1..Len(mtab) : mtab[j].on # mtab[i].on
    /\ ChangeTable(RemoveAt(mtab, i))

\* The list replaces the head of the buffer if it fits, and else the buffer.
Refill(b, list) ==
    IF Len(list) <= Len(b.cells)
    THEN [b EXCEPT !.cells = list \o SubSeq(@, Len(list) + 1, Len(@))]
    ELSE [addr |-> b.addr + 1, cells |-> list]

\* The call has the buffer with the first n entries in it.
Begin(t, kind, d, n) ==
    /\ ~Busy(t)
    /\ buffer' = Refill(buffer, mtab)
    /\ call' = [call EXCEPT ![t] = [kind |-> kind, path |-> d, ptr |-> buffer'.addr,
                                    left |-> n, part |-> << >>, copied |-> << >>]]
    /\ given' = [given EXCEPT ![t] = mtab]
    /\ there' = [there EXCEPT ![t] = ToSet(mtab)]
    /\ longest' = [u \in Thread |->
                     IF u = t THEN 0
                     ELSE IF Busy(u) /\ Len(mtab) > longest[u] THEN Len(mtab)
                     ELSE longest[u]]
    /\ answer' = [answer EXCEPT ![t] = Answer("nothing", Root, << >>)]
    /\ UNCHANGED <<mtab, edits>>

\* The slice made as long as the buffer is.
GetmntinfoWholeBuffer(t, kind, d) == Begin(t, kind, d, Len(Refill(buffer, mtab).cells))

\* getmntinfo for mounts(), or for the mounts() in the default mount_at.
Getmntinfo(t, kind, d) == Begin(t, kind, d, Len(mtab))

\* The cells counted from the end of the buffer.
CellBehind(c, i) ==
    IF c.ptr = buffer.addr /\ i < Len(buffer.cells) THEN buffer.cells[i + 1] ELSE Junk

\* Its pointer is not looked up again: whose buffer it is now is not known.
Cell(c, i) == IF c.ptr = buffer.addr THEN buffer.cells[i] ELSE Junk

\* statfs_to_fs reads the next of an entry; the last makes it a Filesystem.
StatfsToFs(t) ==
    LET c == call[t]
        part == Append(c.part, Cell(c, Len(c.copied) + 1)[Reads[Len(c.part) + 1]])
    IN
    /\ c.left > 0
    /\ IF Len(part) < Len(Reads)
       THEN call' = [call EXCEPT ![t].part = part]
       ELSE call' = [call EXCEPT ![t].left = @ - 1, ![t].part = << >>,
                                 ![t].copied = Append(@, part)]
    /\ UNCHANGED <<mtab, edits, buffer, answer, given, there, longest>>

Finish(t, a) ==
    /\ answer' = [answer EXCEPT ![t] = a]
    /\ call' = [call EXCEPT ![t] = Idle]
    /\ UNCHANGED <<mtab, edits, buffer, given, there, longest>>

ReturnMounts(t) ==
    /\ call[t].kind = "mounts"
    /\ call[t].left = 0
    /\ Finish(t, Answer("all", Root, call[t].copied))

\* find: the first of the list with the path for its target.
First(list, d) ==
    IF Found(list, d) = {} THEN Answer("not_found", d, << >>)
    ELSE Answer("one", d, <<list[Min(Found(list, d))]>>)

ReturnMountAt(t) ==
    /\ call[t].kind = "mount_at"
    /\ call[t].left = 0
    /\ Finish(t, First(call[t].copied, call[t].path))

\* getmntinfo returns less than 1.
GetmntinfoFails(t) ==
    /\ ~Busy(t)
    /\ given' = [given EXCEPT ![t] = << >>]
    /\ there' = [there EXCEPT ![t] = {}]
    /\ longest' = [longest EXCEPT ![t] = 0]
    /\ answer' = [answer EXCEPT ![t] = Answer("err", Root, << >>)]
    /\ UNCHANGED <<mtab, edits, buffer, call>>

\* mount_at of FreeBSD and OpenBSD: the filesystem the path is on, which is
\* the last mounted there, or else the root, if there is such a path.
StatfsMountAt(t, d) ==
    /\ ~Busy(t)
    /\ given' = [given EXCEPT ![t] = mtab]
    /\ there' = [there EXCEPT ![t] = ToSet(mtab)]
    /\ longest' = [longest EXCEPT ![t] = 0]
    /\ LET stack == On(mtab, d)
           top == mtab[Max(IF stack = {} THEN On(mtab, Root) ELSE stack)]
       IN  \E a \in {Answer("one", d, <<Whole(top)>>), Answer("err", d, << >>)} :
               answer' = [answer EXCEPT ![t] = a]
    /\ UNCHANGED <<mtab, edits, buffer, call>>

Next ==
    \/ \E f \in Fs, d \in Dir : Mount(f, d)
    \/ \E i \in DOMAIN mtab : Unmount(i)
    \/ \E t \in Thread :
        \/ Getmntinfo(t, "mounts", Root)
        \/ \E d \in Dir : Getmntinfo(t, "mount_at", d)
        \/ GetmntinfoFails(t)
        \/ StatfsToFs(t)
        \/ ReturnMounts(t)
        \/ ReturnMountAt(t)
        \/ \E d \in Dir : StatfsMountAt(t, d)

Spec == Init /\ [][Next]_vars

-----------------------------------------------------------------------------

\* A call during which no other thread called getmntinfo has the kernel's
\* list, and the default mount_at misses nothing of it, however long the
\* copying takes and the table changes (freebsd.rs:138-139, common.rs:77-85).
AloneHonest ==
    \A t \in Thread : ~Busy(t) /\ longest[t] = 0 =>
        /\ answer[t].tag = "all" => answer[t].list = Wholes(given[t])
        /\ answer[t].tag = "one" =>
            \E e \in ToSet(given[t]) :
                /\ answer[t].list[1] = Whole(e)
                /\ e.on = answer[t].path \/ On(given[t], answer[t].path) = {}
        /\ answer[t].tag = "not_found" => On(given[t], answer[t].path) = {}

\* A call that others overlap has only fields of entries that were mounted at
\* some moment of it - of several in one Filesystem, and in whatever mixture - or
\* else what is behind a dangling pointer; and that only if another thread was
\* handed a longer list than this one (freebsd.rs:134-139, 191-204,
\* openbsd.rs:116-121, 251-264).
OverlapBounded ==
    \A t \in Thread : ~Busy(t) =>
        \A e \in ToSet(answer[t].list), k \in DOMAIN Reads :
            \/ \E x \in there[t] : e[k] = x[Reads[k]]
            \/ e[k] = "junk" /\ longest[t] > Len(given[t])
=============================================================================
