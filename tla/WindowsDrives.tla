--------------------------- MODULE WindowsDrives ---------------------------
(***************************************************************************)
(* drives() of src/src/platform/windows/disk.rs, which is mounts() on      *)
(* Windows: ask for the length of the list of drives, then for the list,   *)
(* then for each drive for the volume, the type if there is none, and the  *)
(* space.  Meanwhile drives are attached and detached, and media put in    *)
(* and taken out of them.                                                  *)
(***************************************************************************)
EXTENDS FiniteSets, Integers

CONSTANTS
    Drive,      \* the drives
    Fixed,      \* those that are neither removable nor CD drives
    Media,      \* the media, each with a label and a size
    NoMedium,   \* nothing in the drive, or nothing that can be read
    MaxChanges  \* bound on what happens outside in a behaviour

\* Assumed by the module that gives the constants their values.
DrivesAssumption ==
    /\ IsFiniteSet(Drive)
    /\ Fixed \subseteq Drive
    /\ NoMedium \notin Media
    /\ MaxChanges \in Nat

VARIABLES
    present,    \* the drives attached
    medium,     \* [Drive -> Media \cup {NoMedium}], what is in them
    changes,    \* outside events so far
    step,       \* the next system call, or "returned"
    length,     \* logical_drives, as the number of drives
    left,       \* the drives of the list still to visit
    at,         \* the drive being asked, or NoMedium
    label,      \* what get_volume_information said of it
    vec,        \* the entries so far
    result,     \* of the last call: "nothing", "ok" or "err"
    seen        \* history of the call, see Glance

outside == <<present, medium, changes>>
drivesVars == <<outside, step, length, left, at, label, vec, result, seen>>

\* What one moment shows.
Glance(p, m) ==
    [lists |-> {p},
     media |-> {<<d, IF d \in p THEN m[d] ELSE NoMedium>> : d \in Drive},
     calm  |-> TRUE]

Init ==
    /\ present \in SUBSET Drive
    /\ medium \in [Drive -> Media \cup {NoMedium}]
    /\ changes = 0
    /\ step = "returned"
    /\ length = 0
    /\ left = {}
    /\ at = NoMedium
    /\ label = NoMedium
    /\ vec = {}
    /\ result = "nothing"
    /\ seen = Glance(present, medium)

Outside(p, m) ==
    LET glance == Glance(p, m) IN
    /\ changes < MaxChanges
    /\ changes' = changes + 1
    /\ present' = p /\ medium' = m
    /\ seen' = IF step = "returned"
               THEN seen
               ELSE [lists |-> seen.lists \cup glance.lists,
                     media |-> seen.media \cup glance.media,
                     calm  |-> FALSE]
    /\ UNCHANGED <<step, length, left, at, label, vec, result>>

Attach(d) == d \notin present /\ Outside(present \cup {d}, medium)

Detach(d) == d \in present /\ Outside(present \ {d}, medium)

Load(d, m) == medium[d] # m /\ Outside(present, [medium EXCEPT ![d] = m])

\* GetLogicalDriveStringsW, asked for the length.
ListLength == Cardinality(present)

\* drives() is called and asks for the length of the list.
AskLength ==
    /\ step = "returned"
    /\ step' = "list"
    /\ length' = ListLength
    /\ vec' = {}
    /\ result' = "nothing"
    /\ seen' = Glance(present, medium)
    /\ UNCHANGED <<outside, left, at, label>>

\* The list taken without a look at its length: when it does not fit, the buffer
\* is left as it was.
AskListUnchecked ==
    /\ step = "list"
    /\ left' = IF ListLength <= length THEN present ELSE {}
    /\ step' = "drive"
    /\ UNCHANGED <<outside, length, at, label, vec, result, seen>>

\* The list has the length that was announced.
AskList ==
    /\ step = "list"
    /\ ListLength = length
    /\ left' = present
    /\ step' = "drive"
    /\ UNCHANGED <<outside, length, at, label, vec, result, seen>>

\* Any question mark: the entries are dropped.
Fail ==
    /\ step' = "returned"
    /\ length' = 0
    /\ left' = {}
    /\ at' = NoMedium
    /\ label' = NoMedium
    /\ vec' = {}
    /\ result' = "err"
    /\ UNCHANGED outside

\* GetLogicalDriveStringsW fails by itself when asked for the length: no answer
\* is one less than its 0.
LengthFails ==
    /\ step = "returned"
    /\ Fail
    /\ seen' = [Glance(present, medium) EXCEPT !.calm = FALSE]

\* It fails when asked for the list.  Where no drive was announced its 0 looks
\* right, and the one character, which nobody filled in, may be a name, of no
\* drive, or none.
ListFails ==
    /\ step = "list"
    /\ \/ Fail
       \/ /\ length = 0
          /\ left' = {}
          /\ step' = "drive"
          /\ UNCHANGED <<outside, length, at, label, vec, result>>
    /\ seen' = [seen EXCEPT !.calm = FALSE]

\* A list that got longer or shorter.
ListChanged ==
    /\ step = "list"
    /\ ListLength # length
    /\ Fail
    /\ UNCHANGED seen

\* The next drive of the list; the order does not matter.
Visit(d) ==
    /\ step = "drive" /\ d \in left
    /\ left' = left \ {d}
    /\ at' = d
    /\ step' = "volume"
    /\ UNCHANGED <<outside, length, label, vec, result, seen>>

Readable == at \in present /\ medium[at] # NoMedium

\* GetVolumeInformationW
Volume ==
    /\ step = "volume"
    /\ Readable
    /\ label' = medium[at]
    /\ step' = "space"
    /\ UNCHANGED <<outside, length, left, at, vec, result, seen>>

\* GetVolumeInformationW fails, if only because it is denied.
VolumeFails ==
    /\ step = "volume"
    /\ step' = "type"
    /\ seen' = IF Readable
               THEN [seen EXCEPT !.media = @ \cup {<<at, NoMedium>>}, !.calm = FALSE]
               ELSE seen
    /\ UNCHANGED <<outside, length, left, at, label, vec, result>>

\* The entry of a drive.
Push(l, numbers) ==
    /\ vec' = vec \cup {[drive |-> at, label |-> l, numbers |-> numbers]}
    /\ at' = NoMedium
    /\ label' = NoMedium
    /\ step' = "drive"
    /\ UNCHANGED <<outside, length, left, result, seen>>

\* GetDriveTypeW says 2 or 5.
Removable(d) == d \in Drive \ Fixed

\* No volume in a removable drive: max is 0, so is every size, and the label is
\* read from a buffer that nobody filled.
Type ==
    /\ step = "type"
    /\ at \in present /\ Removable(at)
    /\ \E l \in Media \cup {NoMedium} : Push(l, NoMedium)

\* A fixed drive, or one that is gone.
TypeFails ==
    /\ step = "type"
    /\ at \notin present \/ ~Removable(at)
    /\ Fail
    /\ UNCHANGED seen

\* GetDiskFreeSpaceExW
Space ==
    /\ step = "space"
    /\ Readable
    /\ Push(label, medium[at])

SpaceFails ==
    /\ step = "space"
    /\ Fail
    /\ seen' = [seen EXCEPT !.calm = FALSE]

Return ==
    /\ step = "drive" /\ left = {}
    /\ step' = "returned"
    /\ length' = 0
    /\ result' = "ok"
    /\ UNCHANGED <<outside, left, at, label, vec, seen>>

Next ==
    \/ \E d \in Drive : Attach(d) \/ Detach(d)
    \/ \E d \in Drive, m \in Media \cup {NoMedium} : Load(d, m)
    \/ AskLength
    \/ LengthFails
    \/ AskList
    \/ ListFails
    \/ ListChanged
    \/ \E d \in left : Visit(d)
    \/ Volume
    \/ VolumeFails
    \/ Type
    \/ TypeFails
    \/ Space
    \/ SpaceFails
    \/ Return

Spec == Init /\ [][Next]_drivesVars

-----------------------------------------------------------------------------

\* What drives() returns was there: the list at one moment, the label and the
\* sizes of an entry each at some moment, and no sizes only where a removable
\* drive had nothing to read (disk.rs:14-28, 38-70, 92-119).
Honest ==
    result = "ok" =>
        /\ {e.drive : e \in vec} \in seen.lists
        /\ \A e \in vec :
            IF e.numbers = NoMedium
            THEN e.drive \notin Fixed /\ <<e.drive, NoMedium>> \in seen.media
            ELSE {<<e.drive, e.label>>, <<e.drive, e.numbers>>} \subseteq seen.media

\* drives() fails only when the drives changed, a call failed by itself, or a fixed
\* drive has nothing to read; one empty CD drive does not hide the others
\* (disk.rs:22, 38, 54, 104-119).
FailsForReason ==
    result = "err" => ~seen.calm \/ \E d \in Fixed : <<d, NoMedium>> \in seen.media
=============================================================================
