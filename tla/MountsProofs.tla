---------------------------- MODULE MountsProofs ----------------------------
(***************************************************************************)
(* Proofs about mounts() and mount_at(): each component keeps an invariant *)
(* that relates what a call has collected to the lines or the list it      *)
(* started with, and to what the kernel could show meanwhile.              *)
(***************************************************************************)
EXTENDS Mounts, InductionFacts, SequenceTheorems, TLAPS

-----------------------------------------------------------------------------
(* Places in sequences.                                                    *)

\* A set of numbers up to n has a greatest one.
LEMMA GreatestNumber ==
    ASSUME NEW n \in Nat, NEW T \in SUBSET (0..n), T # {}
    PROVE  \E m \in T : \A k \in T : m >= k
<1> DEFINE Mirror == {n - k : k \in T}
<1>1. Mirror \in SUBSET Nat /\ Mirror # {}
  <2>1. \A k \in T : k \in 0..n /\ n - k \in Nat
    OBVIOUS
  <2>2. QED
    BY <2>1
<1>2. PICK d \in Mirror : \A e \in Mirror : d <= e
  <2> HIDE DEF Mirror
  <2>1. QED
    BY <1>1, LeastNumber
<1>3. PICK m \in T : d = n - m
  OBVIOUS
<1>4. ASSUME NEW k \in T
      PROVE  m >= k
  <2>1. n - k \in Mirror
    OBVIOUS
  <2>2. d <= n - k /\ m \in 0..n /\ k \in 0..n
    BY <1>2, <2>1
  <2> HIDE DEF Mirror
  <2>3. QED
    BY <1>3, <2>2
<1>5. QED
  BY <1>4

\* The greatest of some places of a sequence, and the least, are among them.
LEMMA GreatestPlace ==
    ASSUME NEW s, NEW S, s \in Seq(S), NEW P \in SUBSET (1..Len(s)), P # {}
    PROVE  /\ Max(P) \in P
           /\ \A k \in P : Max(P) >= k
<1>1. Len(s) \in Nat /\ P \in SUBSET (0..Len(s))
  BY LenProperties
<1>2. \E m \in P : \A k \in P : m >= k
  BY <1>1, GreatestNumber
<1>3. QED
  BY <1>2 DEF Max

LEMMA LeastPlace ==
    ASSUME NEW s, NEW S, s \in Seq(S), NEW P \in SUBSET (1..Len(s)), P # {}
    PROVE  /\ Min(P) \in P
           /\ \A k \in P : Min(P) <= k
<1>1. P \in SUBSET Nat
  BY LenProperties
<1>2. \E m \in P : \A k \in P : m <= k
  BY <1>1, LeastNumber
<1>3. QED
  BY <1>2 DEF Min

\* What is left when one element is removed.
LEMMA RemoveAtKeeps ==
    ASSUME NEW S, NEW s \in Seq(S), NEW i \in 1..Len(s)
    PROVE  /\ RemoveAt(s, i) \in Seq(S)
           /\ Len(RemoveAt(s, i)) = Len(s) - 1
           /\ \A j \in 1..Len(s) - 1 :
                 RemoveAt(s, i)[j] = IF j < i THEN s[j] ELSE s[j + 1]
<1> DEFINE a == SubSeq(s, 1, i - 1)
           b == SubSeq(s, i + 1, Len(s))
<1>1. Len(s) \in Nat /\ \A j \in 1..Len(s) : s[j] \in S
  BY LenProperties, ElementOfSeq
<1>2. /\ a \in Seq(S) /\ Len(a) = i - 1
      /\ \A j \in 1..i - 1 : a[j] = s[j]
  <2>1. \A k \in 1..i - 1 : s[k] \in S
    BY <1>1
  <2>2. /\ SubSeq(s, 1, i - 1) \in Seq(S)
        /\ Len(SubSeq(s, 1, i - 1)) = IF 1 <= i - 1 THEN i - 1 - 1 + 1 ELSE 0
        /\ \A j \in 1..i - 1 - 1 + 1 : SubSeq(s, 1, i - 1)[j] = s[1 + j - 1]
    BY <2>1, SubSeqProperties
  <2>3. QED
    BY <1>1, <2>2
<1>3. /\ b \in Seq(S) /\ Len(b) = Len(s) - i
      /\ \A j \in 1..Len(s) - i : b[j] = s[i + j]
  <2>1. \A k \in i + 1..Len(s) : s[k] \in S
    BY <1>1
  <2>2. /\ SubSeq(s, i + 1, Len(s)) \in Seq(S)
        /\ Len(SubSeq(s, i + 1, Len(s))) =
             IF i + 1 <= Len(s) THEN Len(s) - (i + 1) + 1 ELSE 0
        /\ \A j \in 1..Len(s) - (i + 1) + 1 :
              SubSeq(s, i + 1, Len(s))[j] = s[i + 1 + j - 1]
    BY <1>1, <2>1, SubSeqProperties
  <2>3. QED
    BY <1>1, <2>2
<1>4. RemoveAt(s, i) = a \o b
  BY DEF RemoveAt
<1> HIDE DEF a, b
<1>5. /\ a \o b \in Seq(S)
      /\ Len(a \o b) = Len(a) + Len(b)
      /\ \A j \in 1..Len(a) + Len(b) :
            (a \o b)[j] = IF j <= Len(a) THEN a[j] ELSE b[j - Len(a)]
  BY <1>2, <1>3, ConcatProperties
<1>6. ASSUME NEW j \in 1..Len(s) - 1
      PROVE  (a \o b)[j] = IF j < i THEN s[j] ELSE s[j + 1]
  <2>1. j \in 1..Len(a) + Len(b)
    BY <1>1, <1>2, <1>3
  <2>2. CASE j < i
    BY <1>1, <1>2, <1>5, <2>1, <2>2
  <2>3. CASE ~(j < i)
    <3>1. j - Len(a) \in 1..Len(s) - i /\ i + (j - Len(a)) = j + 1 /\ ~(j <= Len(a))
      BY <1>1, <1>2, <2>3
    <3>2. b[j - Len(a)] = s[j + 1]
      BY <1>3, <3>1
    <3>3. QED
      BY <1>5, <2>1, <2>3, <3>1, <3>2
  <2>4. QED
    BY <2>2, <2>3
<1>7. Len(a) + Len(b) = Len(s) - 1
  BY <1>1, <1>2, <1>3
<1>8. QED
  BY <1>4, <1>5, <1>6, <1>7

\* A mounted directory stays mounted when another entry comes, or goes.
LEMMA GrownTable ==
    ASSUME NEW S, NEW t \in Seq(S), NEW d, On(t, d) # {}, NEW e \in S
    PROVE  Append(t, e) \in Seq(S) /\ On(Append(t, e), d) # {}
<1>1. /\ Append(t, e) \in Seq(S) /\ Len(Append(t, e)) = Len(t) + 1
      /\ \A i \in 1..Len(t) : Append(t, e)[i] = t[i]
  BY AppendProperties
<1>2. PICK i \in On(t, d) : TRUE
  OBVIOUS
<1>3. i \in 1..Len(t) /\ t[i].on = d /\ Len(t) \in Nat
  BY <1>2, LenProperties DEF On
<1>4. i \in 1..Len(t) + 1 /\ Append(t, e)[i].on = d /\ DOMAIN Append(t, e) = 1..Len(t) + 1
  BY <1>1, <1>3, LenProperties
<1>5. i \in On(Append(t, e), d)
  BY <1>4 DEF On
<1>6. QED
  BY <1>1, <1>5

LEMMA ShrunkTable ==
    ASSUME NEW S, NEW t \in Seq(S), NEW d, On(t, d) # {}, NEW i \in DOMAIN t, t[i].on # d
    PROVE  RemoveAt(t, i) \in Seq(S) /\ On(RemoveAt(t, i), d) # {}
<1> DEFINE r == RemoveAt(t, i)
<1>1. i \in 1..Len(t) /\ Len(t) \in Nat
  BY LenProperties
<1>2. PICK k \in On(t, d) : TRUE
  OBVIOUS
<1>3. k \in 1..Len(t) /\ t[k].on = d /\ k # i
  BY <1>2, LenProperties DEF On
<1>4. /\ r \in Seq(S) /\ Len(r) = Len(t) - 1
      /\ \A j \in 1..Len(t) - 1 : r[j] = IF j < i THEN t[j] ELSE t[j + 1]
  BY <1>1, RemoveAtKeeps
<1> HIDE DEF r
<1> DEFINE j == IF k < i THEN k ELSE k - 1
<1>5. j \in 1..Len(t) - 1 /\ (IF j < i THEN j = k ELSE j + 1 = k) /\ DOMAIN r = 1..Len(t) - 1
  BY <1>1, <1>3, <1>4, LenProperties
<1> HIDE DEF j
<1>6. r[j].on = d
  BY <1>3, <1>4, <1>5
<1>7. r \in Seq(S) /\ On(r, d) # {}
  BY <1>4, <1>5, <1>6 DEF On
<1>8. QED
  BY <1>7 DEF r

-----------------------------------------------------------------------------
(* Linux.                                                                  *)

Entry == [fs : Fs, on : Dir]

LinuxTyped ==
    /\ table \in Seq(Entry) /\ On(table, Root) # {}
    /\ lines \in Seq(Entry)
    /\ rest \in Seq(Entry)
    /\ found \in Seq([label : Fs, on : Name, numbers : Fs])
    /\ phase \in {"idle", "mounts", "mount_at"}
    /\ calm \in BOOLEAN
    /\ phase = "idle" => rest = << >>
    /\ phase = "mount_at" => Len(rest) = 1
    /\ phase # "mounts" => found = << >>

\* Where which numbers could be reached.
Said == {<<Plain(r[1]), r[2]>> : r \in seen}

\* What is reachable now is among what was during the call.
SeenNow == phase # "idle" => Reachable(table) \subseteq seen

\* What is collected was reachable.
FoundThere == \A i \in DOMAIN found : <<found[i].on, found[i].numbers>> \in Said

\* In a calm call the table is the one that was read.
CalmTable == phase # "idle" /\ calm => table = lines

\* How many lines mounts() has worked off.
Worked == Len(lines) - Len(rest)

\* What is left of mounts() is the end of the lines.
RestOfLines ==
    phase = "mounts" =>
        /\ Len(rest) <= Len(lines)
        /\ \A i \in 1..Len(rest) : rest[i] = lines[Worked + i]

\* In a calm call the Filesystems are those of the lines worked off.
FoundListed == phase = "mounts" /\ calm => ListsAll(found, Worked)

\* mount_at() has the first line with its path.
FoundLine == phase = "mount_at" => rest = Find(lines, path)

LinuxInv ==
    /\ LinuxTyped
    /\ SeenNow
    /\ FoundThere
    /\ CalmTable
    /\ RestOfLines
    /\ FoundListed
    /\ FoundLine
    /\ NumbersWereThere
    /\ ListComplete
    /\ OverrideAgrees


\* A path leads to a filesystem.
LEMMA TopInFs ==
    ASSUME NEW t \in Seq(Entry), On(t, Root) # {}, NEW d
    PROVE  Top(t, d) \in Fs
<1> DEFINE P == IF On(t, d) = {} THEN On(t, Root) ELSE On(t, d)
<1>1. P \in SUBSET (1..Len(t)) /\ P # {}
  BY LenProperties DEF On
<1>2. Max(P) \in 1..Len(t)
  <2> HIDE DEF P
  <2>1. QED
    BY <1>1, GreatestPlace
<1>3. t[Max(P)] \in Entry
  BY <1>2, ElementOfSeq
<1>4. Top(t, d) = t[Max(P)].fs
  BY DEF Top
<1>5. QED
  BY <1>3, <1>4 DEF Entry

\* A line is found by its path, and the path has no space in it.
LEMMA FindsLine ==
    ASSUME NEW t \in Seq(Entry), NEW d
    PROVE  \/ Hits(t, d) = {} /\ Find(t, d) = << >>
           \/ /\ Hits(t, d) # {} /\ Find(t, d) = <<t[Min(Hits(t, d))]>>
              /\ Min(Hits(t, d)) \in Hits(t, d)
              /\ \A k \in Hits(t, d) : Min(Hits(t, d)) <= k
              /\ Min(Hits(t, d)) \in 1..Len(t)
              /\ Target(t[Min(Hits(t, d))]) = Plain(d)
              /\ Find(t, d) \in Seq(Entry) /\ Len(Find(t, d)) = 1
<1>1. CASE Hits(t, d) = {}
  BY <1>1 DEF Find
<1>2. CASE Hits(t, d) # {}
  <2>1. Hits(t, d) \in SUBSET (1..Len(t))
    BY LenProperties DEF Hits
  <2>2. /\ Min(Hits(t, d)) \in Hits(t, d)
        /\ \A k \in Hits(t, d) : Min(Hits(t, d)) <= k
    BY <1>2, <2>1, LeastPlace
  <2>3. Min(Hits(t, d)) \in 1..Len(t)
    BY <2>1, <2>2
  <2>4. t[Min(Hits(t, d))] \in Entry
    BY <2>3, ElementOfSeq
  <2>5. Target(t[Min(Hits(t, d))]) = Plain(d)
    BY <2>2 DEF Hits
  <2>6. Find(t, d) = <<t[Min(Hits(t, d))]>>
    BY <1>2 DEF Find
  <2>7. QED
    BY <1>2, <2>2, <2>3, <2>4, <2>5, <2>6
<1>3. QED
  BY <1>1, <1>2

LEMMA LinuxInitial == MountsInit => LinuxInv
<1> SUFFICES ASSUME MountsInit
             PROVE  LinuxInv
  OBVIOUS
<1> USE ConstantsAssumption DEF ConstantsAssumption
<1>1. Init
  BY DEF MountsInit
<1>2. PICK f \in Fs : table = <<[fs |-> f, on |-> Root]>>
  BY <1>1 DEF Init
<1>3. table \in Seq(Entry) /\ On(table, Root) # {}
  <2>1. table \in Seq(Entry) /\ 1 \in DOMAIN table /\ table[1].on = Root
    BY <1>2 DEF Entry
  <2>2. QED
    BY <2>1 DEF On
<1>4. LinuxTyped
  BY <1>1, <1>3, EmptySeq DEF Init, LinuxTyped
<1>5. /\ SeenNow /\ CalmTable /\ RestOfLines /\ FoundListed /\ FoundLine
      /\ ListComplete /\ OverrideAgrees
  BY <1>1 DEF Init, SeenNow, CalmTable, RestOfLines, FoundListed, FoundLine,
              ListComplete, OverrideAgrees, Outcome
<1>6. FoundThere /\ NumbersWereThere
  BY <1>1 DEF Init, FoundThere, NumbersWereThere, Outcome
<1>7. QED
  BY <1>4, <1>5, <1>6 DEF LinuxInv

LEMMA ChangeTableKeeps ==
    ASSUME LinuxInv, NEW t \in Seq(Entry), On(t, Root) # {}, ChangeTable(t)
    PROVE  LinuxInv'
<1>1. LinuxTyped'
  BY DEF LinuxInv, LinuxTyped, ChangeTable
<1>2. SeenNow'
  BY DEF LinuxInv, SeenNow, ChangeTable
<1>3. FoundThere'
  <2>1. found' = found /\ seen \subseteq seen'
    BY DEF ChangeTable
  <2>2. QED
    BY <2>1 DEF LinuxInv, FoundThere, Said
<1>4. CalmTable' /\ FoundListed'
  BY DEF LinuxInv, CalmTable, FoundListed, ChangeTable
<1>5. RestOfLines' /\ FoundLine'
  BY DEF LinuxInv, RestOfLines, Worked, FoundLine, ChangeTable
<1>6. NumbersWereThere'
  BY DEF LinuxInv, NumbersWereThere, Returned, ChangeTable
<1>7. ListComplete'
  <2>1. ret' = ret /\ lines' = lines
    BY DEF ChangeTable
  <2>2. ListsAll(ret.list, Len(lines)) => ListsAll(ret.list, Len(lines))'
    BY <2>1 DEF ListsAll
  <2>3. Returned' => Returned /\ calm' = calm
    BY DEF Returned, ChangeTable
  <2>4. QED
    BY <2>1, <2>2, <2>3 DEF LinuxInv, ListComplete
<1>8. OverrideAgrees'
  BY DEF LinuxInv, OverrideAgrees, DefaultMountAt, Returned, ChangeTable
<1>9. QED
  BY <1>1, <1>2, <1>3, <1>4, <1>5, <1>6, <1>7, <1>8 DEF LinuxInv

LEMMA MountKeeps ==
    ASSUME LinuxInv, NEW f \in Fs, NEW d \in Dir, Mount(f, d)
    PROVE  LinuxInv'
<1> DEFINE e == [fs |-> f, on |-> d]
<1>1. table \in Seq(Entry) /\ On(table, Root) # {} /\ e \in Entry
  BY DEF LinuxInv, LinuxTyped, Entry
<1>2. ChangeTable(Append(table, e))
  BY DEF Mount
<1> HIDE DEF e
<1>3. QED
  BY <1>1, <1>2, GrownTable, ChangeTableKeeps

LEMMA UnmountKeeps ==
    ASSUME LinuxInv, NEW i \in DOMAIN table, Unmount(i)
    PROVE  LinuxInv'
<1>1. table \in Seq(Entry) /\ On(table, Root) # {}
  BY DEF LinuxInv, LinuxTyped
<1>2. table[i].on # Root /\ ChangeTable(RemoveAt(table, i))
  BY DEF Unmount
<1>3. QED
  BY <1>1, <1>2, ShrunkTable, ChangeTableKeeps

LEMMA CallMountsKeeps ==
    ASSUME LinuxInv, CallMounts
    PROVE  LinuxInv'
<1>1. LinuxTyped'
  BY DEF LinuxInv, LinuxTyped, CallMounts, kernel
<1>2. SeenNow' /\ CalmTable' /\ FoundLine'
  BY DEF SeenNow, CalmTable, FoundLine, CallMounts, kernel
<1>3. found' = << >> /\ table \in Seq(Entry) /\ lines' = table /\ rest' = table
  BY DEF LinuxInv, LinuxTyped, CallMounts
<1>4. FoundThere'
  BY <1>3 DEF FoundThere
<1>5. RestOfLines'
  BY <1>3, LenProperties DEF RestOfLines, Worked
<1>6. ListsAll(found, Worked)'
  <2>1. Worked' = 0
    BY <1>3, LenProperties DEF Worked
  <2> DEFINE line == [i \in DOMAIN found' |-> 0]
  <2>2. DOMAIN found' = {} /\ line \in [DOMAIN found' -> 1..Worked']
    BY <1>3
  <2>3. 1..Worked' = {}
    BY <2>1
  <2> HIDE DEF line
  <2>4. /\ \A i, j \in DOMAIN found' : i < j => line[i] < line[j]
        /\ \A k \in 1..Worked' :
              lines'[k].on \notin Spaced <=> \E i \in DOMAIN found' : line[i] = k
        /\ \A i \in DOMAIN found' :
              found'[i] = Filesystem(lines'[line[i]], Top(lines', lines'[line[i]].on))
    BY <2>2, <2>3
  <2>5. QED
    BY <2>2, <2>4, Zenon DEF ListsAll
<1>7. FoundListed'
  BY <1>6 DEF FoundListed
<1>8. NumbersWereThere' /\ ListComplete' /\ OverrideAgrees'
  BY DEF NumbersWereThere, ListComplete, OverrideAgrees, Returned, CallMounts
<1>9. QED
  BY <1>1, <1>2, <1>4, <1>5, <1>7, <1>8 DEF LinuxInv

LEMMA CallMountAtKeeps ==
    ASSUME LinuxInv, NEW d \in Dir, CallMountAt(d)
    PROVE  LinuxInv'
<1>1. table \in Seq(Entry) /\ found = << >> /\ phase = "idle"
  BY DEF LinuxInv, LinuxTyped, CallMountAt
<1>2. \/ phase' = "idle" /\ rest' = << >> /\ ret' = Outcome("not_found") /\ Hits(table, d) = {}
      \/ phase' = "mount_at" /\ rest' \in Seq(Entry) /\ Len(rest') = 1 /\ ret' = ret
  <2>1. CASE Hits(table, d) = {} /\ Find(table, d) = << >>
    BY <2>1 DEF CallMountAt
  <2>2. CASE Find(table, d) \in Seq(Entry) /\ Len(Find(table, d)) = 1
    BY <2>2 DEF CallMountAt
  <2>3. QED
    BY <1>1, <2>1, <2>2, FindsLine
<1>3. LinuxTyped'
  BY <1>1, <1>2, EmptySeq DEF LinuxInv, LinuxTyped, CallMountAt, kernel
<1>4. SeenNow' /\ CalmTable' /\ FoundLine'
  BY DEF SeenNow, CalmTable, FoundLine, CallMountAt, kernel
<1>5. FoundThere' /\ RestOfLines' /\ FoundListed'
  BY <1>1, <1>2 DEF FoundThere, RestOfLines, FoundListed, CallMountAt
<1>6. NumbersWereThere' /\ ListComplete'
  BY <1>2 DEF NumbersWereThere, ListComplete, Returned, Outcome
<1>7. OverrideAgrees'
  <2> SUFFICES ASSUME Returned'
               PROVE  ret' = DefaultMountAt'
    BY DEF OverrideAgrees
  <2>1. ret' = Outcome("not_found") /\ Hits(table, d) = {}
    BY <1>2 DEF Returned
  <2>2. lines' = table /\ path' = d
    BY DEF CallMountAt
  <2>3. DefaultMountAt' = Outcome("not_found")
    BY <2>1, <2>2 DEF DefaultMountAt, Hits
  <2>4. QED
    BY <2>1, <2>3
<1>8. QED
  BY <1>3, <1>4, <1>5, <1>6, <1>7 DEF LinuxInv

LEMMA ReadFailsKeeps ==
    ASSUME LinuxInv, ReadFails
    PROVE  LinuxInv'
<1>1. LinuxTyped'
  BY EmptySeq DEF LinuxInv, LinuxTyped, ReadFails, kernel
<1>2. /\ SeenNow' /\ CalmTable' /\ RestOfLines' /\ FoundListed' /\ FoundLine'
      /\ ListComplete' /\ OverrideAgrees'
  BY DEF SeenNow, CalmTable, RestOfLines, FoundListed, FoundLine, ListComplete,
         OverrideAgrees, Outcome, ReadFails
<1>3. FoundThere' /\ NumbersWereThere'
  BY DEF LinuxInv, LinuxTyped, FoundThere, NumbersWereThere, Outcome, ReadFails
<1>4. QED
  BY <1>1, <1>2, <1>3 DEF LinuxInv

\* The next line is left out of the list, as its target has a space.
LEMMA ListsAllSkips ==
    ASSUME NEW S, NEW list \in Seq(S), NEW n \in Nat, ListsAll(list, n),
           lines[n + 1].on \in Spaced
    PROVE  ListsAll(list, n + 1)
<1>1. DOMAIN list = 1..Len(list)
  BY LenProperties
<1>2. PICK line \in [DOMAIN list -> 1..n] :
        /\ \A i, j \in DOMAIN list : i < j => line[i] < line[j]
        /\ \A k \in 1..n : lines[k].on \notin Spaced <=> \E i \in DOMAIN list : line[i] = k
        /\ \A i \in DOMAIN list :
              list[i] = Filesystem(lines[line[i]], Top(lines, lines[line[i]].on))
  BY DEF ListsAll
<1>3. line \in [DOMAIN list -> 1..n + 1]
  OBVIOUS
<1>4. \A i \in DOMAIN list : line[i] # n + 1
  OBVIOUS
<1>5. ASSUME NEW k \in 1..n + 1
      PROVE  lines[k].on \notin Spaced <=> \E i \in DOMAIN list : line[i] = k
  <2>1. CASE k = n + 1
    BY <1>4, <2>1
  <2>2. CASE k # n + 1
    <3>1. k \in 1..n
      BY <2>2
    <3>2. QED
      BY <1>2, <3>1
  <2>3. QED
    BY <2>1, <2>2
<1>6. QED
  BY <1>2, <1>3, <1>5, Zenon DEF ListsAll

\* The next line has its Filesystem at the end of the list.
LEMMA ListsAllGrows ==
    ASSUME NEW S, NEW list \in Seq(S), NEW n \in Nat, ListsAll(list, n), NEW f \in S,
           f = Filesystem(lines[n + 1], Top(lines, lines[n + 1].on)),
           lines[n + 1].on \notin Spaced
    PROVE  ListsAll(Append(list, f), n + 1)
<1> DEFINE l == Append(list, f)
           m == Len(list)
<1>1. m \in Nat /\ DOMAIN list = 1..m
  BY LenProperties
<1>2. /\ l \in Seq(S) /\ Len(l) = m + 1 /\ l[m + 1] = f
      /\ \A i \in 1..m : l[i] = list[i]
  BY AppendProperties
<1>3. DOMAIN l = 1..m + 1
  BY <1>2, LenProperties
<1>4. PICK line \in [DOMAIN list -> 1..n] :
        /\ \A i, j \in DOMAIN list : i < j => line[i] < line[j]
        /\ \A k \in 1..n : lines[k].on \notin Spaced <=> \E i \in DOMAIN list : line[i] = k
        /\ \A i \in DOMAIN list :
              list[i] = Filesystem(lines[line[i]], Top(lines, lines[line[i]].on))
  BY DEF ListsAll
<1> DEFINE next == [i \in DOMAIN l |-> IF i = m + 1 THEN n + 1 ELSE line[i]]
<1> HIDE DEF l, m
<1>5. next[m + 1] = n + 1 /\ m + 1 \in 1..m + 1
  BY <1>1, <1>3
<1>6. \A i \in 1..m : i \in 1..m + 1 /\ next[i] = line[i] /\ line[i] \in 1..n
  BY <1>1, <1>3, <1>4
<1>7. \A i \in 1..m + 1 : i = m + 1 \/ i \in 1..m
  BY <1>1
<1>8. next \in [DOMAIN l -> 1..n + 1]
  BY <1>1, <1>3, <1>4, <1>7
<1> HIDE DEF next
<1>9. ASSUME NEW i \in DOMAIN l, NEW j \in DOMAIN l, i < j
      PROVE  next[i] < next[j]
  <2>1. i \in 1..m
    BY <1>1, <1>3, <1>9
  <2>2. CASE j = m + 1
    BY <1>5, <1>6, <2>1, <2>2
  <2>3. CASE j \in 1..m
    <3>1. line[i] < line[j]
      BY <1>1, <1>4, <1>9, <2>1, <2>3
    <3>2. QED
      BY <1>6, <2>1, <2>3, <3>1
  <2>4. QED
    BY <1>3, <1>7, <2>2, <2>3
<1>10. ASSUME NEW k \in 1..n + 1
       PROVE  lines[k].on \notin Spaced <=> \E i \in DOMAIN l : next[i] = k
  <2>1. CASE k = n + 1
    BY <1>3, <1>5, <2>1
  <2>2. CASE k # n + 1
    <3>1. k \in 1..n
      BY <2>2
    <3>2. lines[k].on \notin Spaced <=> \E i \in 1..m : line[i] = k
      BY <1>1, <1>4, <3>1
    <3>3. (\E i \in 1..m : line[i] = k) <=> \E i \in DOMAIN l : next[i] = k
      BY <1>3, <1>5, <1>6, <1>7, <2>2
    <3>4. QED
      BY <3>2, <3>3
  <2>3. QED
    BY <2>1, <2>2
<1>11. ASSUME NEW i \in DOMAIN l
       PROVE  l[i] = Filesystem(lines[next[i]], Top(lines, lines[next[i]].on))
  <2>1. CASE i = m + 1
    BY <1>2, <1>5, <2>1 DEF l, m
  <2>2. CASE i \in 1..m
    <3>1. list[i] = Filesystem(lines[line[i]], Top(lines, lines[line[i]].on))
      BY <1>1, <1>4, <2>2
    <3>2. l[i] = list[i] /\ next[i] = line[i]
      BY <1>2, <1>6, <2>2
    <3>3. QED
      BY <3>1, <3>2
  <2>3. QED
    BY <1>3, <1>7, <2>1, <2>2
<1>12. ListsAll(l, n + 1)
  BY <1>8, <1>9, <1>10, <1>11, Zenon DEF ListsAll
<1>13. QED
  BY <1>12 DEF l

\* The line a call takes next.
LEMMA NextLine ==
    ASSUME LinuxInv, rest # << >>
    PROVE  /\ phase \in {"mounts", "mount_at"}
           /\ Head(rest) \in Entry /\ Head(rest) = rest[1]
           /\ Tail(rest) \in Seq(Entry) /\ Len(Tail(rest)) = Len(rest) - 1
           /\ Len(rest) \in Nat \ {0} /\ Len(lines) \in Nat
           /\ \A i \in 1..Len(rest) - 1 : Tail(rest)[i] = rest[i + 1]
<1>1. rest \in Seq(Entry) /\ lines \in Seq(Entry) /\ phase \in {"mounts", "mount_at"}
  BY DEF LinuxInv, LinuxTyped
<1>2. Len(rest) \in Nat \ {0} /\ Len(lines) \in Nat
  BY <1>1, LenProperties, EmptySeq
<1>3. QED
  BY <1>1, <1>2, HeadTailProperties

LEMMA StatFailsKeeps ==
    ASSUME LinuxInv, StatFails
    PROVE  LinuxInv'
<1> USE ConstantsAssumption DEF ConstantsAssumption
<1> DEFINE e == Head(rest)
<1>1. rest # << >> /\ table \in Seq(Entry) /\ On(table, Root) # {}
  BY DEF StatFails, LinuxInv, LinuxTyped
<1>2. /\ phase \in {"mounts", "mount_at"}
      /\ e \in Entry /\ e = rest[1]
      /\ Tail(rest) \in Seq(Entry) /\ Len(Tail(rest)) = Len(rest) - 1
      /\ Len(rest) \in Nat \ {0} /\ Len(lines) \in Nat
      /\ \A i \in 1..Len(rest) - 1 : Tail(rest)[i] = rest[i + 1]
  BY <1>1, NextLine
<1>3. calm' => calm /\ e.on \in Spaced
  <2>1. Top(table, e.on) \in Fs
    BY <1>1, TopInFs
  <2>2. Statvfs(Target(e)) = NoFs => e.on \in Spaced
    BY <2>1 DEF Statvfs, Target
  <2>3. QED
    BY <2>2 DEF StatFails
<1>4. /\ table' = table /\ lines' = lines /\ seen' = seen /\ path' = path /\ found' = found
      /\ rest' = Tail(rest) /\ calm' \in BOOLEAN
  BY DEF StatFails, kernel, LinuxInv, LinuxTyped
<1> HIDE DEF e
<1>5. CASE phase = "mounts"
  <2>1. phase' = "mounts" /\ ret' = ret
    BY <1>5 DEF StatFails
  <2>2. LinuxTyped'
    BY <1>2, <1>4, <1>5, <2>1 DEF LinuxInv, LinuxTyped
  <2>3. SeenNow' /\ CalmTable' /\ FoundLine'
    BY <1>3, <1>4, <1>5, <2>1 DEF LinuxInv, SeenNow, CalmTable, FoundLine
  <2>4. FoundThere'
    BY <1>4 DEF LinuxInv, FoundThere, Said
  <2>5. Len(rest) <= Len(lines) /\ \A i \in 1..Len(rest) : rest[i] = lines[Worked + i]
    BY <1>5 DEF LinuxInv, RestOfLines
  <2>6. Worked \in Nat /\ Worked' = Worked + 1
    BY <1>2, <1>4, <2>5 DEF Worked
  <2>7. RestOfLines'
    <3>1. ASSUME NEW i \in 1..Len(rest')
          PROVE  rest'[i] = lines'[Worked' + i]
      <4>1. i \in 1..Len(rest) - 1 /\ i + 1 \in 1..Len(rest)
        BY <1>2, <1>4
      <4>2. rest'[i] = lines[Worked + (i + 1)]
        BY <1>2, <1>4, <2>5, <4>1
      <4>3. QED
        BY <1>4, <2>6, <4>1, <4>2
    <3>2. Len(rest') <= Len(lines')
      BY <1>2, <1>4, <2>5
    <3>3. QED
      BY <3>1, <3>2 DEF RestOfLines
  <2>8. FoundListed'
    <3> SUFFICES ASSUME calm'
                 PROVE  ListsAll(found, Worked)'
      BY DEF FoundListed
    <3>1. ListsAll(found, Worked)
      BY <1>3, <1>5 DEF LinuxInv, FoundListed
    <3>2. lines[Worked + 1].on \in Spaced
      BY <1>2, <1>3, <2>5 DEF LinuxInv
    <3>3. found \in Seq([label : Fs, on : Name, numbers : Fs])
      BY DEF LinuxInv, LinuxTyped
    <3>4. ListsAll(found, Worked + 1)
      BY <2>6, <3>1, <3>2, <3>3, ListsAllSkips
    <3>5. QED
      BY <1>4, <2>6, <3>4 DEF ListsAll
  <2>9. NumbersWereThere' /\ ListComplete' /\ OverrideAgrees'
    BY <2>1 DEF NumbersWereThere, ListComplete, OverrideAgrees, Returned
  <2>10. QED
    BY <2>2, <2>3, <2>4, <2>7, <2>8, <2>9 DEF LinuxInv
<1>6. CASE phase = "mount_at"
  <2>1. phase' = "idle" /\ ret' = Outcome("err") /\ found = << >> /\ Len(rest) = 1
    BY <1>6 DEF StatFails, LinuxInv, LinuxTyped
  <2>2. rest' = << >>
    BY <1>2, <1>4, <2>1, EmptySeq
  <2>3. LinuxTyped'
    BY <1>2, <1>4, <2>1, <2>2 DEF LinuxInv, LinuxTyped
  <2>4. /\ SeenNow' /\ CalmTable' /\ FoundLine' /\ RestOfLines' /\ FoundListed'
        /\ ListComplete' /\ OverrideAgrees'
    BY <2>1 DEF SeenNow, CalmTable, FoundLine, RestOfLines, FoundListed, ListComplete,
                OverrideAgrees, Outcome
  <2>5. FoundThere' /\ NumbersWereThere'
    BY <1>4, <2>1 DEF FoundThere, NumbersWereThere, Outcome
  <2>6. QED
    BY <2>3, <2>4, <2>5 DEF LinuxInv
<1>7. QED
  BY <1>2, <1>5, <1>6

LEMMA StatKeeps ==
    ASSUME LinuxInv, Stat
    PROVE  LinuxInv'
<1> USE ConstantsAssumption DEF ConstantsAssumption
<1> DEFINE e == Head(rest)
           f == Top(table, e.on)
           fs == Filesystem(e, f)
<1>1. rest # << >> /\ table \in Seq(Entry) /\ On(table, Root) # {}
  BY DEF Stat, LinuxInv, LinuxTyped
<1>2. /\ phase \in {"mounts", "mount_at"}
      /\ e \in Entry /\ e = rest[1]
      /\ Tail(rest) \in Seq(Entry) /\ Len(Tail(rest)) = Len(rest) - 1
      /\ Len(rest) \in Nat \ {0} /\ Len(lines) \in Nat
      /\ \A i \in 1..Len(rest) - 1 : Tail(rest)[i] = rest[i + 1]
  BY <1>1, NextLine
<1>3. e.on \notin Spaced /\ Target(e) = Plain(e.on) /\ Statvfs(Target(e)) = f
  <2>1. Statvfs(Target(e)) # NoFs
    BY DEF Stat
  <2>2. e.on \notin Spaced /\ Statvfs(Target(e)) = f
    BY <2>1 DEF Statvfs, Target
  <2>3. (e.on \in Spaced) = FALSE
    BY <2>2
  <2>4. QED
    BY <2>2, <2>3 DEF Target, Plain
<1>4. f \in Fs
  BY <1>1, TopInFs
<1>5. Collect(f)
  BY <1>3 DEF Stat
<1>6. /\ table' = table /\ lines' = lines /\ seen' = seen /\ path' = path /\ calm' = calm
      /\ rest' = Tail(rest)
  BY <1>5 DEF Collect, kernel
<1>7. fs \in [label : Fs, on : Name, numbers : Fs] /\ fs.on = Plain(e.on) /\ fs.numbers = f
  <2>1. Plain(e.on) \in Name /\ e.fs \in Fs
    BY <1>2 DEF Plain, Name, Entry
  <2>2. QED
    BY <1>3, <1>4, <2>1 DEF Filesystem
<1>8. <<fs.on, fs.numbers>> \in Said
  <2>1. <<e.on, f>> \in Reachable(table)
    BY <1>2 DEF Reachable, Entry
  <2>2. <<e.on, f>> \in seen
    BY <1>2, <2>1 DEF LinuxInv, SeenNow
  <2>3. QED
    BY <1>7, <2>2 DEF Said
<1>9. calm => fs = Filesystem(e, Top(lines, e.on))
  BY <1>2 DEF LinuxInv, CalmTable
<1>10. CASE phase = "mounts"
  <2>1. phase' = "mounts" /\ ret' = ret /\ found' = Append(found, fs)
    BY <1>5, <1>10 DEF Collect
  <2>2. found \in Seq([label : Fs, on : Name, numbers : Fs]) /\ Len(found) \in Nat
    BY LenProperties DEF LinuxInv, LinuxTyped
  <2> HIDE DEF fs, f
  <2>3. /\ found' \in Seq([label : Fs, on : Name, numbers : Fs])
        /\ Len(found') = Len(found) + 1 /\ found'[Len(found) + 1] = fs
        /\ \A i \in 1..Len(found) : found'[i] = found[i]
    BY <1>7, <2>1, <2>2, AppendProperties
  <2>4. LinuxTyped'
    BY <1>2, <1>6, <1>10, <2>1, <2>3 DEF LinuxInv, LinuxTyped
  <2>5. SeenNow' /\ CalmTable' /\ FoundLine'
    BY <1>6, <1>10, <2>1 DEF LinuxInv, SeenNow, CalmTable, FoundLine
  <2>6. FoundThere'
    <3> SUFFICES ASSUME NEW i \in DOMAIN found'
                 PROVE  <<found'[i].on, found'[i].numbers>> \in Said'
      BY DEF FoundThere
    <3>1. i \in 1..Len(found) + 1 /\ Said' = Said
      BY <1>6, <2>3, LenProperties DEF Said
    <3>2. CASE i = Len(found) + 1
      BY <1>8, <2>3, <3>1, <3>2
    <3>3. CASE i \in 1..Len(found)
      <4>1. i \in DOMAIN found
        BY <2>2, <3>3, LenProperties
      <4>2. QED
        BY <2>3, <3>1, <3>3, <4>1 DEF LinuxInv, FoundThere
    <3>4. QED
      BY <2>2, <3>1, <3>2, <3>3
  <2>7. Len(rest) <= Len(lines) /\ \A i \in 1..Len(rest) : rest[i] = lines[Worked + i]
    BY <1>10 DEF LinuxInv, RestOfLines
  <2>8. Worked \in Nat /\ Worked' = Worked + 1
    BY <1>2, <1>6, <2>7 DEF Worked
  <2>9. RestOfLines'
    <3>1. ASSUME NEW i \in 1..Len(rest')
          PROVE  rest'[i] = lines'[Worked' + i]
      <4>1. i \in 1..Len(rest) - 1 /\ i + 1 \in 1..Len(rest)
        BY <1>2, <1>6
      <4>2. rest'[i] = lines[Worked + (i + 1)]
        BY <1>2, <1>6, <2>7, <4>1
      <4>3. QED
        BY <1>6, <2>8, <4>1, <4>2
    <3>2. Len(rest') <= Len(lines')
      BY <1>2, <1>6, <2>7
    <3>3. QED
      BY <3>1, <3>2 DEF RestOfLines
  <2>10. FoundListed'
    <3> SUFFICES ASSUME calm
                 PROVE  ListsAll(found, Worked)'
      BY <1>6 DEF FoundListed
    <3>1. ListsAll(found, Worked)
      BY <1>10 DEF LinuxInv, FoundListed
    <3>2. e = lines[Worked + 1]
      BY <1>2, <2>7, <2>8
    <3>3. ListsAll(Append(found, fs), Worked + 1)
      BY <1>3, <1>7, <1>9, <2>2, <2>8, <3>1, <3>2, ListsAllGrows
    <3>4. QED
      BY <1>6, <2>1, <2>8, <3>3 DEF ListsAll
  <2>11. NumbersWereThere' /\ ListComplete' /\ OverrideAgrees'
    BY <2>1 DEF NumbersWereThere, ListComplete, OverrideAgrees, Returned
  <2>12. QED
    BY <2>4, <2>5, <2>6, <2>9, <2>10, <2>11 DEF LinuxInv
<1>11. CASE phase = "mount_at"
  <2>1. /\ phase' = "idle" /\ ret' = [tag |-> "one", list |-> <<fs>>] /\ found' = << >>
        /\ Len(rest) = 1
    BY <1>5, <1>11 DEF Collect, LinuxInv, LinuxTyped
  <2> HIDE DEF fs, f
  <2>2. rest' = << >>
    BY <1>2, <1>6, <2>1, EmptySeq
  <2>3. LinuxTyped'
    BY <1>2, <1>6, <2>1, <2>2 DEF LinuxInv, LinuxTyped
  <2>4. /\ SeenNow' /\ CalmTable' /\ FoundLine' /\ RestOfLines' /\ FoundListed'
        /\ ListComplete'
    BY <2>1 DEF SeenNow, CalmTable, FoundLine, RestOfLines, FoundListed, ListComplete
  <2>5. FoundThere'
    BY <2>1 DEF FoundThere
  <2>6. NumbersWereThere'
    <3>1. Said' = Said
      BY <1>6 DEF Said
    <3>2. \A i \in DOMAIN ret'.list : ret'.list[i] = fs
      BY <2>1
    <3>3. QED
      BY <1>8, <3>1, <3>2 DEF NumbersWereThere, Said
  <2>7. OverrideAgrees'
    <3> SUFFICES ASSUME calm
                 PROVE  ret' = DefaultMountAt'
      BY <1>6 DEF OverrideAgrees
    <3> DEFINE first == Min(Hits(lines, path))
    <3>1. rest = Find(lines, path) /\ lines \in Seq(Entry)
      BY <1>11 DEF LinuxInv, FoundLine, LinuxTyped
    <3>2. /\ Hits(lines, path) # {} /\ rest = <<lines[first]>>
          /\ first \in Hits(lines, path) /\ first \in 1..Len(lines)
          /\ \A k \in Hits(lines, path) : first <= k
          /\ Target(lines[first]) = Plain(path)
      BY <1>1, <3>1, FindsLine
    <3> HIDE DEF first
    <3>3. e = lines[first] /\ e.on = path
      <4>1. e = lines[first]
        BY <1>2, <3>2
      <4>2. QED
        BY <3>2, <4>1 DEF Target, Plain
    <3>4. ASSUME NEW i \in Hits(lines, path), \A j \in Hits(lines, path) : i <= j
          PROVE  i = first
      <4>1. i \in 1..Len(lines)
        BY <3>1, LenProperties DEF Hits
      <4>2. i <= first /\ first <= i
        BY <3>2, <3>4
      <4>3. QED
        BY <1>2, <3>2, <4>1, <4>2
    <3>5. first = CHOOSE i \in Hits(lines, path) : \A j \in Hits(lines, path) : i <= j
      BY <3>2, <3>4
    <3>6. DefaultMountAt' =
             [tag |-> "one", list |-> <<Filesystem(lines[first], Top(lines, path))>>]
      BY <1>6, <3>2, <3>5 DEF DefaultMountAt, Hits
    <3>7. QED
      BY <1>9, <2>1, <3>3, <3>6
  <2>8. QED
    BY <2>3, <2>4, <2>5, <2>6, <2>7 DEF LinuxInv
<1>12. QED
  BY <1>2, <1>10, <1>11

LEMMA ReturnMountsKeeps ==
    ASSUME LinuxInv, ReturnMounts
    PROVE  LinuxInv'
<1>1. /\ phase = "mounts" /\ rest = << >> /\ phase' = "idle" /\ found' = << >>
      /\ ret' = [tag |-> "all", list |-> found]
      /\ table' = table /\ rest' = rest /\ lines' = lines /\ seen' = seen /\ calm' = calm
  BY DEF ReturnMounts, kernel
<1>2. LinuxTyped'
  BY <1>1, EmptySeq DEF LinuxInv, LinuxTyped
<1>3. /\ SeenNow' /\ CalmTable' /\ FoundLine' /\ RestOfLines' /\ FoundListed'
      /\ OverrideAgrees'
  BY <1>1 DEF SeenNow, CalmTable, FoundLine, RestOfLines, FoundListed, OverrideAgrees
<1>4. FoundThere'
  BY <1>1 DEF FoundThere
<1>5. NumbersWereThere'
  BY <1>1 DEF LinuxInv, FoundThere, NumbersWereThere, Said
<1>6. ListComplete'
  <2> SUFFICES ASSUME calm
               PROVE  ListsAll(ret.list, Len(lines))'
    BY <1>1 DEF ListComplete
  <2>1. Worked = Len(lines)
    <3>1. Len(lines) \in Nat
      BY LenProperties DEF LinuxInv, LinuxTyped
    <3>2. QED
      BY <1>1, <3>1 DEF Worked
  <2>2. ListsAll(found, Len(lines))
    BY <1>1, <2>1 DEF LinuxInv, FoundListed
  <2>3. ret'.list = found
    BY <1>1
  <2>4. QED
    BY <1>1, <2>2, <2>3 DEF ListsAll
<1>7. QED
  BY <1>2, <1>3, <1>4, <1>5, <1>6 DEF LinuxInv

LEMMA LinuxUnchanged ==
    ASSUME LinuxInv, UNCHANGED vars
    PROVE  LinuxInv'
<1> USE DEF vars
<1>1. LinuxTyped' /\ SeenNow' /\ CalmTable'
  BY DEF LinuxInv, LinuxTyped, SeenNow, CalmTable
<1>2. FoundThere' /\ NumbersWereThere'
  BY DEF LinuxInv, FoundThere, NumbersWereThere, Said, Returned
<1>3. RestOfLines' /\ FoundLine'
  BY DEF LinuxInv, RestOfLines, Worked, FoundLine
<1>4. FoundListed'
  <2>1. ListsAll(found, Worked) => ListsAll(found, Worked)'
    BY DEF ListsAll, Worked
  <2>2. QED
    BY <2>1 DEF LinuxInv, FoundListed
<1>5. ListComplete'
  <2>1. ListsAll(ret.list, Len(lines)) => ListsAll(ret.list, Len(lines))'
    BY DEF ListsAll
  <2>2. QED
    BY <2>1 DEF LinuxInv, ListComplete, Returned
<1>6. OverrideAgrees'
  BY DEF LinuxInv, OverrideAgrees, DefaultMountAt, Returned
<1>7. QED
  BY <1>1, <1>2, <1>3, <1>4, <1>5, <1>6 DEF LinuxInv

LEMMA LinuxPreserved == LinuxInv /\ [MountsNext]_<<component, vars, bsdState>> => LinuxInv'
<1> SUFFICES ASSUME LinuxInv, [MountsNext]_<<component, vars, bsdState>>
             PROVE  LinuxInv'
  OBVIOUS
<1>1. Next \/ UNCHANGED vars
  BY DEF MountsNext
<1>2. CASE UNCHANGED vars
  BY <1>2, LinuxUnchanged
<1>3. CASE Next
  <2>1. ASSUME NEW f \in Fs, NEW d \in Dir, Mount(f, d)
        PROVE  LinuxInv'
    BY <2>1, MountKeeps
  <2>2. ASSUME NEW i \in DOMAIN table, Unmount(i)
        PROVE  LinuxInv'
    BY <2>2, UnmountKeeps
  <2>3. CASE CallMounts
    BY <2>3, CallMountsKeeps
  <2>4. ASSUME NEW d \in Dir, CallMountAt(d)
        PROVE  LinuxInv'
    BY <2>4, CallMountAtKeeps
  <2>5. CASE ReadFails
    BY <2>5, ReadFailsKeeps
  <2>6. CASE Stat
    BY <2>6, StatKeeps
  <2>7. CASE StatFails
    BY <2>7, StatFailsKeeps
  <2>8. CASE ReturnMounts
    BY <2>8, ReturnMountsKeeps
  <2>9. QED
    BY <1>3, <2>1, <2>2, <2>3, <2>4, <2>5, <2>6, <2>7, <2>8 DEF Next
<1>4. QED
  BY <1>1, <1>2, <1>3

LEMMA LinuxAlways == MountsSpec => []LinuxInv
BY LinuxInitial, LinuxPreserved, PTL DEF MountsSpec

\* No Filesystem of mounts() or mount_at() has numbers that were not those of
\* its directory at some moment of the call, for any number of filesystems,
\* directories, mounts and unmounts (linux.rs:641-654, 430-449).
THEOREM NumbersAreReal == MountsSpec => []NumbersWereThere
<1>1. LinuxInv => NumbersWereThere
  BY DEF LinuxInv
<1>2. QED
  BY LinuxAlways, <1>1, PTL

\* An undisturbed mounts() leaves out the targets with a space and nothing
\* else, for mount tables of any length (linux.rs:436-445, 648-653).
THEOREM OnlySpacedMissing == MountsSpec => []ListComplete
<1>1. LinuxInv => ListComplete
  BY DEF LinuxInv
<1>2. QED
  BY LinuxAlways, <1>1, PTL

\* An undisturbed mount_at() returns what the default it overrides would have
\* returned, for mount tables of any length (linux.rs:656-670).
THEOREM OverrideIsDefault == MountsSpec => []OverrideAgrees
<1>1. LinuxInv => OverrideAgrees
  BY DEF LinuxInv
<1>2. QED
  BY LinuxAlways, <1>1, PTL

-----------------------------------------------------------------------------
(* The systems with getmntinfo.                                            *)

BsdEntry == [fs : Fs, on : BsdDir]

\* What one read gives, and all reads of an entry.
Piece == Fs \cup BsdDir \cup {"junk"}

Copied == [DOMAIN Reads -> Piece]

CallType == [kind : {"idle", "mounts", "mount_at"}, path : BsdDir, ptr : Nat, left : Nat,
             part : Seq(Piece), copied : Seq(Copied)]

AnswerType == [tag : {"nothing", "all", "one", "not_found", "err"}, path : BsdDir,
               list : Seq(Copied)]

BsdTyped ==
    /\ mtab \in Seq(BsdEntry) /\ Bsd!On(mtab, Root) # {}
    /\ buffer \in [addr : Nat, cells : Seq(BsdEntry)]
    /\ call \in [Thread -> CallType]
    /\ answer \in [Thread -> AnswerType]
    /\ given \in [Thread -> Seq(BsdEntry)]
    /\ there \in [Thread -> SUBSET BsdEntry]
    /\ longest \in [Thread -> Nat]
    /\ \A t \in Thread : ~Bsd!Busy(t) => call[t] = Bsd!Idle
    /\ \A t \in Thread : Len(call[t].part) < Len(Reads)

\* What the k-th read of an entry gave could be there, or is behind a dangling pointer.
Told(t, k, v) ==
    \/ \E x \in there[t] : v = x[Reads[k]]
    \/ v = "junk" /\ longest[t] > Len(given[t])

Bounded(t, list) == \A i \in DOMAIN list : \A k \in DOMAIN Reads : Told(t, k, list[i][k])

PartTold(t) == \A k \in DOMAIN call[t].part : Told(t, k, call[t].part[k])

\* The buffer of a thread that is copying holds entries that were mounted
\* during the call, or was freed for a list longer than its own.
BufferBounded(t) ==
    /\ \A i \in DOMAIN mtab : mtab[i] \in there[t]
    /\ call[t].left + Len(call[t].copied) = Len(given[t])
    /\ call[t].ptr <= buffer.addr
    /\ call[t].ptr = buffer.addr =>
        /\ Len(given[t]) <= Len(buffer.cells)
        /\ \A i \in 1..Len(given[t]) : buffer.cells[i] \in there[t]
    /\ call[t].ptr # buffer.addr => longest[t] > Len(given[t])

\* Nobody refilled the buffer of a thread that is alone.
AloneCopies(t) ==
    longest[t] = 0 =>
        /\ call[t].ptr = buffer.addr
        /\ \A i \in 1..Len(given[t]) : buffer.cells[i] = given[t][i]
        /\ \A i \in DOMAIN call[t].copied : call[t].copied[i] = Bsd!Whole(given[t][i])
        /\ \A k \in DOMAIN call[t].part :
              call[t].part[k] = given[t][Len(call[t].copied) + 1][Reads[k]]

\* What AloneHonest says of one thread.
AloneAnswers(t) ==
    longest[t] = 0 =>
        /\ answer[t].tag = "all" => answer[t].list = Bsd!Wholes(given[t])
        /\ answer[t].tag = "one" =>
            \E i \in DOMAIN given[t] :
                /\ answer[t].list[1] = Bsd!Whole(given[t][i])
                /\ \/ given[t][i].on = answer[t].path
                   \/ Bsd!On(given[t], answer[t].path) = {}
        /\ answer[t].tag = "not_found" => Bsd!On(given[t], answer[t].path) = {}

ThreadInv(t) ==
    IF Bsd!Busy(t)
    THEN BufferBounded(t) /\ AloneCopies(t) /\ Bounded(t, call[t].copied) /\ PartTold(t)
    ELSE AloneAnswers(t) /\ Bounded(t, answer[t].list)

BsdInv == BsdTyped /\ \A t \in Thread : ThreadInv(t)

LEMMA ReadsAre ==
    /\ Root \in BsdDir /\ Reads \in Seq({"fs", "on"})
    /\ Len(Reads) \in Nat /\ Len(Reads) > 0 /\ DOMAIN Reads = 1..Len(Reads)
    /\ \A k \in DOMAIN Reads : Reads[k] \in {"fs", "on"}
    /\ \E k \in DOMAIN Reads : Reads[k] = "on"
<1>1. /\ Root \in BsdDir /\ Reads \in Seq({"fs", "on"})
      /\ \E k \in DOMAIN Reads : Reads[k] = "on"
  BY BsdAssumption DEF Bsd!ConstantsAssumption
<1>2. Len(Reads) \in Nat /\ DOMAIN Reads = 1..Len(Reads)
  BY <1>1, LenProperties
<1>3. \A k \in DOMAIN Reads : Reads[k] \in {"fs", "on"}
  BY <1>1, <1>2, ElementOfSeq
<1>4. QED
  BY <1>1, <1>2, <1>3

\* What is read of an entry is a piece; all reads together are a Filesystem.
LEMMA WholeIs ==
    ASSUME NEW e \in BsdEntry
    PROVE  /\ \A k \in DOMAIN Reads : e[Reads[k]] \in Piece
           /\ Bsd!Whole(e) \in Copied
<1>1. \A k \in DOMAIN Reads : e[Reads[k]] \in Piece
  <2> SUFFICES ASSUME NEW k \in DOMAIN Reads PROVE e[Reads[k]] \in Piece
    OBVIOUS
  <2>1. e.fs \in Piece /\ e.on \in Piece
    BY DEF BsdEntry, Piece
  <2>2. Reads[k] = "fs" \/ Reads[k] = "on"
    BY ReadsAre
  <2>3. QED
    BY <2>1, <2>2
<1>2. QED
  BY <1>1 DEF Bsd!Whole, Copied

\* An undisturbed copy of a list has a target where the list has it.
LEMMA FoundIsOn ==
    ASSUME NEW list, NEW d
    PROVE  Bsd!Found(Bsd!Wholes(list), d) = Bsd!On(list, d)
<1>1. PICK on \in DOMAIN Reads : Reads[on] = "on"
  BY ReadsAre
<1>2. DOMAIN Bsd!Wholes(list) = DOMAIN list
  BY DEF Bsd!Wholes
<1>3. \A i \in DOMAIN list, k \in DOMAIN Reads : Bsd!Wholes(list)[i][k] = list[i][Reads[k]]
  BY DEF Bsd!Wholes, Bsd!Whole
<1>4. ASSUME NEW i \in DOMAIN list
      PROVE  (\A k \in DOMAIN Reads : Reads[k] = "on" => Bsd!Wholes(list)[i][k] = d)
             <=> list[i].on = d
  <2>1. \A k \in DOMAIN Reads : Reads[k] = "on" => Bsd!Wholes(list)[i][k] = list[i].on
    BY <1>3
  <2>2. QED
    BY <1>1, <2>1
<1>5. QED
  BY <1>2, <1>4 DEF Bsd!Found, Bsd!On

\* What could be there still could when more is there.
LEMMA ToldMore ==
    ASSUME NEW t, given'[t] = given[t], there[t] \subseteq there'[t],
           longest[t] > Len(given[t]) => longest'[t] > Len(given[t])
    PROVE  /\ \A k, v : Told(t, k, v) => Told(t, k, v)'
           /\ \A list : Bounded(t, list) => Bounded(t, list)'
<1>1. \A k, v : Told(t, k, v) => Told(t, k, v)'
  BY DEF Told
<1>2. QED
  BY <1>1 DEF Bounded

\* The operators of sequences and of numbers are the same in both components.
LEMMA BsdWords ==
    /\ \A t, i : Bsd!RemoveAt(t, i) = RemoveAt(t, i)
    /\ \A t, d : Bsd!On(t, d) = On(t, d)
    /\ \A P : Bsd!Max(P) = Max(P) /\ Bsd!Min(P) = Min(P)
    /\ \A l : Bsd!ToSet(l) = {l[i] : i \in DOMAIN l}
BY DEF Bsd!RemoveAt, RemoveAt, Bsd!On, On, Bsd!Max, Max, Bsd!Min, Min, Bsd!ToSet

LEMMA BsdInitial == MountsInit => BsdInv
<1> SUFFICES ASSUME MountsInit
             PROVE  BsdInv
  OBVIOUS
<1> USE ReadsAre DEF CallType, AnswerType
<1>1. Bsd!Init
  BY DEF MountsInit
<1>2. PICK f \in Fs :
        \/ mtab = <<[fs |-> f, on |-> Root]>>
        \/ \E g \in Fs \ {f}, d \in BsdDir \ {Root} :
              mtab = <<[fs |-> f, on |-> Root], [fs |-> g, on |-> d]>>
  BY <1>1 DEF Bsd!Init
<1>3. mtab \in Seq(BsdEntry) /\ Bsd!On(mtab, Root) # {}
  <2>1. mtab \in Seq(BsdEntry) /\ 1 \in DOMAIN mtab /\ mtab[1].on = Root
    <3>1. CASE mtab = <<[fs |-> f, on |-> Root]>>
      BY <3>1 DEF BsdEntry
    <3>2. ASSUME NEW g \in Fs, NEW d \in BsdDir,
                 mtab = <<[fs |-> f, on |-> Root], [fs |-> g, on |-> d]>>
          PROVE  mtab \in Seq(BsdEntry) /\ 1 \in DOMAIN mtab /\ mtab[1].on = Root
      BY <3>2 DEF BsdEntry
    <3>3. QED
      BY <1>2, <3>1, <3>2
  <2>2. QED
    BY <2>1 DEF Bsd!On
<1>4. BsdTyped
  <2>1. \A t \in Thread : call[t] = Bsd!Idle
    BY <1>1 DEF Bsd!Init
  <2>2. Bsd!Idle \in CallType
    BY EmptySeq DEF Bsd!Idle
  <2>3. call \in [Thread -> CallType]
    BY <1>1, <2>2 DEF Bsd!Init
  <2>4. buffer \in [addr : Nat, cells : Seq(BsdEntry)]
    BY <1>1, EmptySeq DEF Bsd!Init
  <2>5. answer \in [Thread -> AnswerType]
    BY <1>1, EmptySeq DEF Bsd!Init, Bsd!Answer
  <2>6. /\ given \in [Thread -> Seq(BsdEntry)]
        /\ there \in [Thread -> SUBSET BsdEntry]
        /\ longest \in [Thread -> Nat]
    BY <1>1, EmptySeq DEF Bsd!Init
  <2>7. QED
    BY <1>3, <2>1, <2>3, <2>4, <2>5, <2>6 DEF BsdTyped, Bsd!Idle
<1>5. ASSUME NEW t \in Thread
      PROVE  ThreadInv(t)
  <2>1. /\ ~Bsd!Busy(t)
        /\ answer[t].tag = "nothing" /\ answer[t].list = << >>
    BY <1>1 DEF Bsd!Init, Bsd!Busy, Bsd!Idle, Bsd!Answer
  <2>2. QED
    BY <2>1 DEF ThreadInv, AloneAnswers, Bounded
<1>6. QED
  BY <1>4, <1>5 DEF BsdInv

\* A thread that is idle, and that a step leaves alone, keeps its invariant.
LEMMA IdleKeeps ==
    ASSUME NEW t \in Thread, ThreadInv(t), ~Bsd!Busy(t), call'[t] = call[t],
           answer'[t] = answer[t], given'[t] = given[t], there'[t] = there[t],
           longest'[t] = longest[t]
    PROVE  ThreadInv(t)'
<1>1. ~Bsd!Busy(t)'
  BY DEF Bsd!Busy
<1>2. AloneAnswers(t)'
  BY DEF ThreadInv, AloneAnswers, Bsd!On
<1>3. Bounded(t, answer[t].list)'
  BY ToldMore DEF ThreadInv
<1>4. QED
  BY <1>1, <1>2, <1>3 DEF ThreadInv

\* So does one that is copying, when nothing happens to the buffer either.
LEMMA BusyKeeps ==
    ASSUME NEW t \in Thread, ThreadInv(t), Bsd!Busy(t), call'[t] = call[t],
           given'[t] = given[t], there[t] \subseteq there'[t],
           longest'[t] = longest[t], buffer' = buffer,
           \A i \in DOMAIN mtab' : mtab'[i] \in there'[t]
    PROVE  ThreadInv(t)'
<1>1. Bsd!Busy(t)'
  BY DEF Bsd!Busy
<1>2. BufferBounded(t)'
  BY DEF ThreadInv, BufferBounded
<1>3. AloneCopies(t)'
  BY DEF ThreadInv, AloneCopies
<1>4. Bounded(t, call[t].copied)' /\ PartTold(t)'
  BY ToldMore DEF ThreadInv, PartTold
<1>5. QED
  BY <1>1, <1>2, <1>3, <1>4 DEF ThreadInv

LEMMA BsdChangeKeeps ==
    ASSUME BsdInv, NEW t \in Seq(BsdEntry), Bsd!On(t, Root) # {}, Bsd!ChangeTable(t)
    PROVE  BsdInv'
<1>1. /\ mtab' = t /\ buffer' = buffer /\ call' = call /\ answer' = answer
      /\ given' = given /\ longest' = longest
      /\ there' = [u \in Thread |-> IF Bsd!Busy(u) THEN there[u] \cup {t[i] : i \in DOMAIN t}
                                    ELSE there[u]]
  BY BsdWords DEF Bsd!ChangeTable
<1>2. \A i \in DOMAIN t : t[i] \in BsdEntry
  BY ElementOfSeq, LenProperties
<1>3. BsdTyped'
  <2>1. \A u \in Thread : there'[u] \in SUBSET BsdEntry
    BY <1>1, <1>2 DEF BsdInv, BsdTyped
  <2>2. there' \in [Thread -> SUBSET BsdEntry]
    BY <1>1, <2>1
  <2>3. QED
    BY <1>1, <2>2 DEF BsdInv, BsdTyped, Bsd!On, Bsd!Busy
<1>4. ASSUME NEW u \in Thread
      PROVE  ThreadInv(u)'
  <2>1. ThreadInv(u)
    BY DEF BsdInv
  <2>2. CASE Bsd!Busy(u)
    BY <1>1, <2>1, <2>2, BusyKeeps
  <2>3. CASE ~Bsd!Busy(u)
    BY <1>1, <2>1, <2>3, IdleKeeps
  <2>4. QED
    BY <2>2, <2>3
<1>5. QED
  BY <1>3, <1>4 DEF BsdInv

LEMMA BsdMountKeeps ==
    ASSUME BsdInv, NEW f \in Fs, NEW d \in BsdDir, Bsd!Mount(f, d)
    PROVE  BsdInv'
<1> DEFINE e == [fs |-> f, on |-> d]
<1>1. mtab \in Seq(BsdEntry) /\ On(mtab, Root) # {} /\ e \in BsdEntry
  BY BsdWords DEF BsdInv, BsdTyped, BsdEntry
<1>2. Bsd!ChangeTable(Append(mtab, e))
  BY DEF Bsd!Mount
<1> HIDE DEF e
<1>3. QED
  BY <1>1, <1>2, BsdWords, GrownTable, BsdChangeKeeps

LEMMA BsdUnmountKeeps ==
    ASSUME BsdInv, NEW i \in DOMAIN mtab, Bsd!Unmount(i)
    PROVE  BsdInv'
<1>1. mtab \in Seq(BsdEntry) /\ On(mtab, Root) # {}
  BY BsdWords DEF BsdInv, BsdTyped
<1>2. mtab[i].on # Root /\ Bsd!ChangeTable(RemoveAt(mtab, i))
  BY BsdWords DEF Bsd!Unmount
<1>3. QED
  BY <1>1, <1>2, BsdWords, ShrunkTable, BsdChangeKeeps

\* A list fits the buffer and covers its head, or gets a buffer of its own.
LEMMA Refilled ==
    ASSUME NEW b \in [addr : Nat, cells : Seq(BsdEntry)], NEW list \in Seq(BsdEntry)
    PROVE  LET r == Bsd!Refill(b, list) IN
           /\ r \in [addr : Nat, cells : Seq(BsdEntry)]
           /\ Len(r.cells) \in Nat /\ Len(list) \in Nat /\ Len(b.cells) \in Nat
           /\ \A i \in 1..Len(list) : r.cells[i] = list[i]
           /\ \/ /\ r.addr = b.addr /\ Len(list) <= Len(b.cells)
                 /\ Len(r.cells) = Len(b.cells)
                 /\ \A i \in 1..Len(b.cells) : i > Len(list) => r.cells[i] = b.cells[i]
              \/ r.addr = b.addr + 1 /\ Len(list) > Len(b.cells) /\ r.cells = list
<1> DEFINE c == b.cells
           n == Len(list)
           m == Len(c)
           tail == SubSeq(c, n + 1, m)
           r == Bsd!Refill(b, list)
<1>1. c \in Seq(BsdEntry) /\ n \in Nat /\ m \in Nat /\ b.addr \in Nat
  BY LenProperties
<1>2. CASE n > m
  <2>1. r = [addr |-> b.addr + 1, cells |-> list]
    BY <1>1, <1>2 DEF Bsd!Refill
  <2>2. r \in [addr : Nat, cells : Seq(BsdEntry)]
    BY <1>1, <2>1
  <2> HIDE DEF r
  <2>3. QED
    BY <1>1, <1>2, <2>1, <2>2 DEF r
<1>3. CASE n <= m
  <2>1. \A i \in n + 1..m : c[i] \in BsdEntry
    BY <1>1, ElementOfSeq
  <2>2. /\ tail \in Seq(BsdEntry)
        /\ Len(tail) = IF n + 1 <= m THEN m - (n + 1) + 1 ELSE 0
        /\ \A i \in 1..m - (n + 1) + 1 : tail[i] = c[n + 1 + i - 1]
    BY <1>1, <2>1, SubSeqProperties
  <2>3. Len(tail) = m - n /\ \A i \in 1..m - n : tail[i] = c[n + i]
    BY <1>1, <1>3, <2>2
  <2> HIDE DEF tail
  <2>4. /\ list \o tail \in Seq(BsdEntry)
        /\ Len(list \o tail) = n + Len(tail)
        /\ \A i \in 1..n + Len(tail) :
              (list \o tail)[i] = IF i <= n THEN list[i] ELSE tail[i - n]
    BY <1>1, <2>2, ConcatProperties
  <2>5. r = [b EXCEPT !.cells = list \o tail]
    BY <1>1, <1>3 DEF Bsd!Refill, tail
  <2>6. r = [addr |-> b.addr, cells |-> list \o tail]
    BY <2>5
  <2> HIDE DEF c, n, m, r
  <2>7. r.addr = b.addr /\ r.cells = list \o tail /\ Len(r.cells) = m
    BY <1>1, <1>3, <2>3, <2>4, <2>6
  <2>8. \A i \in 1..n : r.cells[i] = list[i]
    BY <1>1, <1>3, <2>3, <2>4, <2>7
  <2>9. ASSUME NEW i \in 1..m, i > n
        PROVE  r.cells[i] = c[i]
    <3>1. i - n \in 1..m - n /\ n + (i - n) = i /\ ~(i <= n) /\ i \in 1..n + Len(tail)
      BY <1>1, <1>3, <2>3, <2>9
    <3>2. tail[i - n] = c[i]
      BY <2>3, <3>1
    <3>3. QED
      BY <2>4, <2>7, <3>1, <3>2
  <2>10. r \in [addr : Nat, cells : Seq(BsdEntry)]
    BY <1>1, <2>4, <2>6
  <2>11. QED
    BY <1>1, <1>3, <2>7, <2>8, <2>9, <2>10 DEF c, n, m, r
<1>4. QED
  BY <1>1, <1>2, <1>3

LEMMA GetmntinfoKeeps ==
    ASSUME BsdInv, NEW t \in Thread, NEW kind \in {"mounts", "mount_at"}, NEW d \in BsdDir,
           Bsd!Getmntinfo(t, kind, d)
    PROVE  BsdInv'
<1> USE ReadsAre DEF CallType, AnswerType
<1> DEFINE n == Len(mtab)
           m == Len(buffer.cells)
           now == {mtab[i] : i \in DOMAIN mtab}
           started == [kind |-> kind, path |-> d, ptr |-> buffer'.addr, left |-> n,
                       part |-> << >>, copied |-> << >>]
           nothing == Bsd!Answer("nothing", Root, << >>)
<1>1. /\ mtab \in Seq(BsdEntry) /\ n \in Nat /\ n > 0
      /\ \A i \in 1..n : mtab[i] \in BsdEntry
      /\ DOMAIN mtab = 1..n
  <2>1. mtab \in Seq(BsdEntry) /\ Bsd!On(mtab, Root) # {}
    BY DEF BsdInv, BsdTyped
  <2>2. n \in Nat /\ DOMAIN mtab = 1..n /\ \A i \in 1..n : mtab[i] \in BsdEntry
    BY <2>1, LenProperties, ElementOfSeq
  <2>3. QED
    BY <2>1, <2>2 DEF Bsd!On
<1>2. buffer \in [addr : Nat, cells : Seq(BsdEntry)]
  BY DEF BsdInv, BsdTyped
<1>3. /\ buffer' = Bsd!Refill(buffer, mtab)
      /\ call' = [call EXCEPT ![t] = started]
      /\ given' = [given EXCEPT ![t] = mtab]
      /\ there' = [there EXCEPT ![t] = now]
      /\ longest' = [u \in Thread |->
                       IF u = t THEN 0
                       ELSE IF Bsd!Busy(u) /\ n > longest[u] THEN n ELSE longest[u]]
      /\ mtab' = mtab /\ answer' = [answer EXCEPT ![t] = nothing]
  BY BsdWords DEF Bsd!Getmntinfo, Bsd!Begin
<1>4. /\ buffer' \in [addr : Nat, cells : Seq(BsdEntry)]
      /\ Len(buffer'.cells) \in Nat /\ m \in Nat
      /\ \A i \in 1..n : buffer'.cells[i] = mtab[i]
      /\ \/ /\ buffer'.addr = buffer.addr /\ n <= m /\ Len(buffer'.cells) = m
            /\ \A i \in 1..m : i > n => buffer'.cells[i] = buffer.cells[i]
         \/ buffer'.addr = buffer.addr + 1 /\ n > m /\ buffer'.cells = mtab
  BY <1>1, <1>2, <1>3, Refilled
<1>5. started \in CallType
  BY <1>1, <1>4, EmptySeq
<1>5a. nothing \in AnswerType
  BY EmptySeq DEF Bsd!Answer
<1> HIDE DEF n, m, started, now, nothing
<1>6. BsdTyped'
  <2>1. call' \in [Thread -> CallType]
    BY <1>3, <1>5 DEF BsdInv, BsdTyped
  <2>2. given' \in [Thread -> Seq(BsdEntry)]
    BY <1>1, <1>3 DEF BsdInv, BsdTyped
  <2>3. there' \in [Thread -> SUBSET BsdEntry]
    <3>1. now \in SUBSET BsdEntry
      BY <1>1 DEF now
    <3>2. QED
      BY <1>3, <3>1 DEF BsdInv, BsdTyped
  <2>4. longest' \in [Thread -> Nat]
    BY <1>1, <1>3 DEF BsdInv, BsdTyped
  <2>5. ASSUME NEW u \in Thread, ~Bsd!Busy(u)'
        PROVE  call'[u] = Bsd!Idle
    <3>1. u # t
      BY <1>3, <2>5 DEF Bsd!Busy, BsdInv, BsdTyped, started
    <3>2. call'[u] = call[u]
      BY <1>3, <3>1 DEF BsdInv, BsdTyped
    <3>3. QED
      BY <2>5, <3>2 DEF Bsd!Busy, BsdInv, BsdTyped
  <2>6. Bsd!On(mtab, Root)' # {}
    BY <1>3 DEF BsdInv, BsdTyped, Bsd!On
  <2>7. answer' \in [Thread -> AnswerType]
    BY <1>3, <1>5a DEF BsdInv, BsdTyped
  <2>8. \A u \in Thread : Len(call'[u].part) < Len(Reads)
                          /\ (~Bsd!Busy(u)' => call'[u] = Bsd!Idle)
    <3>1. ASSUME NEW u \in Thread PROVE Len(call'[u].part) < Len(Reads)
      <4>1. CASE u = t
        <5>1. call'[u].part = << >>
          BY <1>3, <4>1 DEF BsdInv, BsdTyped, started
        <5>2. QED
          BY <5>1
      <4>2. CASE u # t
        BY <1>3, <4>2 DEF BsdInv, BsdTyped
      <4>3. QED
        BY <4>1, <4>2
    <3>2. QED
      BY <2>5, <3>1
  <2>9. Bsd!Idle' = Bsd!Idle
    BY DEF Bsd!Idle
  <2>10. QED
    BY <1>1, <1>3, <1>4, <2>1, <2>2, <2>3, <2>4, <2>6, <2>7, <2>8, <2>9 DEF BsdTyped
<1>7. ThreadInv(t)'
  <2>1. /\ call'[t] = started /\ given'[t] = mtab /\ there'[t] = now /\ longest'[t] = 0
    BY <1>3 DEF BsdInv, BsdTyped
  <2>2. Bsd!Busy(t)'
    BY <2>1 DEF Bsd!Busy, started
  <2>3. \A i \in 1..n : mtab[i] \in now
    BY <1>1 DEF now
  <2>4. Len(mtab) = n /\ Len(started.copied) = 0 /\ started.left = n
        /\ started.ptr = buffer'.addr /\ DOMAIN started.copied = {}
        /\ DOMAIN started.part = {}
    BY DEF n, started
  <2>5. n <= Len(buffer'.cells)
    BY <1>1, <1>4 DEF n
  <2>6. BufferBounded(t)'
    <3>1. /\ call'[t].left + Len(call'[t].copied) = Len(given'[t])
          /\ call'[t].ptr <= buffer'.addr /\ call'[t].ptr = buffer'.addr
      BY <1>1, <1>4, <2>1, <2>4
    <3>2. \A i \in DOMAIN mtab' : mtab'[i] \in there'[t]
      BY <1>1, <1>3, <2>1, <2>3
    <3>3. Len(given'[t]) <= Len(buffer'.cells)
      BY <2>1, <2>4, <2>5
    <3>4. \A i \in 1..Len(given'[t]) : buffer'.cells[i] \in there'[t]
      BY <1>4, <2>1, <2>3, <2>4
    <3>5. QED
      BY <3>1, <3>2, <3>3, <3>4 DEF BufferBounded
  <2>7. AloneCopies(t)'
    BY <1>4, <2>1, <2>4 DEF AloneCopies
  <2>8. Bounded(t, call[t].copied)' /\ PartTold(t)'
    BY <2>1, <2>4 DEF Bounded, PartTold
  <2>9. QED
    BY <2>2, <2>6, <2>7, <2>8 DEF ThreadInv
<1>8. ASSUME NEW u \in Thread, u # t
      PROVE  ThreadInv(u)'
  <2>1. /\ call'[u] = call[u] /\ answer'[u] = answer[u] /\ given'[u] = given[u]
        /\ there'[u] = there[u] /\ ThreadInv(u)
        /\ longest'[u] = IF Bsd!Busy(u) /\ n > longest[u] THEN n ELSE longest[u]
    BY <1>3, <1>8 DEF BsdInv, BsdTyped
  <2>2. CASE ~Bsd!Busy(u)
    BY <2>1, <2>2, IdleKeeps
  <2>3. CASE Bsd!Busy(u)
    <3>1. BufferBounded(u) /\ AloneCopies(u) /\ Bounded(u, call[u].copied) /\ PartTold(u)
      BY <2>1, <2>3 DEF ThreadInv
    <3>2. /\ longest[u] \in Nat /\ longest'[u] \in Nat
          /\ longest'[u] >= longest[u] /\ longest'[u] >= n
      BY <1>1, <2>1, <2>3 DEF BsdInv, BsdTyped
    <3>3. /\ given[u] \in Seq(BsdEntry) /\ Len(given[u]) \in Nat
          /\ call[u].ptr \in Nat /\ buffer.addr \in Nat /\ buffer'.addr \in Nat
      BY <1>2, <1>4, LenProperties DEF BsdInv, BsdTyped
    <3>4. BufferBounded(u)'
      <4>1. \A i \in DOMAIN mtab' : mtab'[i] \in there'[u]
        BY <1>3, <2>1, <3>1 DEF BufferBounded
      <4>2. call'[u].left + Len(call'[u].copied) = Len(given'[u])
        BY <2>1, <3>1 DEF BufferBounded
      <4>3. call'[u].ptr <= buffer'.addr
        BY <1>4, <2>1, <3>1, <3>3 DEF BufferBounded
      <4>4. ASSUME call[u].ptr = buffer'.addr
            PROVE  /\ Len(given[u]) <= Len(buffer'.cells)
                   /\ \A i \in 1..Len(given[u]) : buffer'.cells[i] \in there[u]
        <5>1. /\ call[u].ptr = buffer.addr /\ Len(buffer'.cells) = m
              /\ \A i \in 1..m : i > n => buffer'.cells[i] = buffer.cells[i]
          BY <1>4, <3>1, <3>3, <4>4 DEF BufferBounded
        <5>2. /\ Len(given[u]) <= m
              /\ \A i \in 1..Len(given[u]) : buffer.cells[i] \in there[u]
          BY <3>1, <5>1 DEF BufferBounded, m
        <5>3. ASSUME NEW i \in 1..Len(given[u])
              PROVE  buffer'.cells[i] \in there[u]
          <6>1. CASE i <= n
            <7>1. i \in 1..n
              BY <1>1, <3>3, <6>1
            <7>2. QED
              BY <1>1, <1>4, <3>1, <7>1 DEF BufferBounded
          <6>2. CASE ~(i <= n)
            <7>1. i \in 1..m /\ i > n
              BY <1>1, <1>4, <3>3, <5>2, <6>2
            <7>2. QED
              BY <5>1, <5>2, <7>1
          <6>3. QED
            BY <6>1, <6>2
        <5>4. QED
          BY <5>1, <5>2, <5>3
      <4>5. ASSUME call[u].ptr # buffer'.addr
            PROVE  longest'[u] > Len(given[u])
        <5>1. CASE call[u].ptr # buffer.addr
          BY <3>1, <3>2, <3>3, <5>1 DEF BufferBounded
        <5>2. CASE call[u].ptr = buffer.addr
          <6>1. n > m
            BY <1>4, <3>3, <4>5, <5>2
          <6>2. Len(given[u]) <= m
            BY <3>1, <5>2 DEF BufferBounded, m
          <6>3. QED
            BY <1>1, <1>4, <3>2, <3>3, <6>1, <6>2
        <5>3. QED
          BY <5>1, <5>2
      <4>6. QED
        BY <2>1, <4>1, <4>2, <4>3, <4>4, <4>5 DEF BufferBounded
    <3>5. AloneCopies(u)'
      BY <1>1, <3>2 DEF AloneCopies
    <3>6. Bounded(u, call[u].copied)' /\ PartTold(u)'
      <4>1. longest[u] > Len(given[u]) => longest'[u] > Len(given[u])
        BY <3>2, <3>3
      <4>2. QED
        BY <2>1, <3>1, <4>1, ToldMore DEF PartTold
    <3>7. Bsd!Busy(u)'
      BY <2>1, <2>3 DEF Bsd!Busy
    <3>8. QED
      BY <3>4, <3>5, <3>6, <3>7 DEF ThreadInv
  <2>4. QED
    BY <2>2, <2>3
<1>9. QED
  BY <1>6, <1>7, <1>8 DEF BsdInv

\* A thread whose call ended gets an answer; nothing else changes.
LEMMA AnswerKeeps ==
    ASSUME BsdInv, NEW t \in Thread, NEW a,
           a \in AnswerType,
           answer' = [answer EXCEPT ![t] = a],
           call' \in [Thread -> CallType],
           call'[t] = Bsd!Idle,
           given' \in [Thread -> Seq(BsdEntry)],
           there' \in [Thread -> SUBSET BsdEntry],
           longest' \in [Thread -> Nat],
           \A u \in Thread : u # t => /\ call'[u] = call[u] /\ given'[u] = given[u]
                                      /\ there'[u] = there[u] /\ longest'[u] = longest[u],
           UNCHANGED <<mtab, buffer>>,
           AloneAnswers(t)', Bounded(t, answer[t].list)'
    PROVE  BsdInv'
<1>1. BsdTyped'
  <2>1. answer' \in [Thread -> AnswerType]
    BY DEF BsdInv, BsdTyped
  <2>2. \A u \in Thread : /\ Len(call'[u].part) < Len(Reads)
                          /\ ~Bsd!Busy(u)' => call'[u] = Bsd!Idle
    <3>1. Len(Bsd!Idle.part) < Len(Reads)
      BY ReadsAre DEF Bsd!Idle
    <3>2. QED
      BY <3>1 DEF BsdInv, BsdTyped, Bsd!Busy
  <2>3. /\ mtab' \in Seq(BsdEntry) /\ Bsd!On(mtab, Root)' # {}
        /\ buffer' \in [addr : Nat, cells : Seq(BsdEntry)]
    BY DEF BsdInv, BsdTyped, Bsd!On
  <2>4. Bsd!Idle' = Bsd!Idle
    BY DEF Bsd!Idle
  <2>5. QED
    BY <2>1, <2>2, <2>3, <2>4 DEF BsdTyped
<1>2. ThreadInv(t)'
  <2>1. ~Bsd!Busy(t)'
    BY DEF Bsd!Busy, Bsd!Idle
  <2>2. QED
    BY <2>1 DEF ThreadInv
<1>3. ASSUME NEW u \in Thread, u # t
      PROVE  ThreadInv(u)'
  <2>1. ThreadInv(u) /\ answer'[u] = answer[u]
    BY <1>3 DEF BsdInv, BsdTyped
  <2>2. CASE ~Bsd!Busy(u)
    BY <1>3, <2>1, <2>2, IdleKeeps
  <2>3. CASE Bsd!Busy(u)
    <3>1. \A i \in DOMAIN mtab' : mtab'[i] \in there'[u]
      BY <1>3, <2>1, <2>3 DEF ThreadInv, BufferBounded
    <3>2. QED
      BY <1>3, <2>1, <2>3, <3>1, BusyKeeps
  <2>4. QED
    BY <2>2, <2>3
<1>4. QED
  BY <1>1, <1>2, <1>3 DEF BsdInv

\* What a thread that has copied all of its list holds.
LEMMA CopyDone ==
    ASSUME BsdInv, NEW t \in Thread, Bsd!Busy(t), call[t].left = 0
    PROVE  /\ call[t].copied \in Seq(Copied) /\ call[t].path \in BsdDir
           /\ given[t] \in Seq(BsdEntry)
           /\ DOMAIN call[t].copied = DOMAIN given[t]
           /\ Bounded(t, call[t].copied)
           /\ longest[t] = 0 => call[t].copied = Bsd!Wholes(given[t])
<1> USE DEF CallType
<1>1. call[t].copied \in Seq(Copied) /\ given[t] \in Seq(BsdEntry) /\ call[t].path \in BsdDir
  BY DEF BsdInv, BsdTyped
<1>2. BufferBounded(t) /\ AloneCopies(t) /\ Bounded(t, call[t].copied)
  BY DEF BsdInv, ThreadInv
<1>3. Len(call[t].copied) = Len(given[t])
  BY <1>1, <1>2, LenProperties DEF BufferBounded
<1>4. DOMAIN call[t].copied = DOMAIN given[t]
  BY <1>1, <1>3, LenProperties
<1>5. ASSUME longest[t] = 0
      PROVE  call[t].copied = Bsd!Wholes(given[t])
  <2> DEFINE c == call[t].copied
             g == given[t]
  <2>1. \A i \in DOMAIN g : c[i] = Bsd!Whole(g[i])
    BY <1>2, <1>4, <1>5 DEF AloneCopies
  <2>2. c \in Seq(Copied) /\ DOMAIN c = DOMAIN g
    BY <1>1, <1>4
  <2> HIDE DEF c, g
  <2>3. c = [i \in DOMAIN c |-> c[i]]
    BY <2>2
  <2>4. c = [i \in DOMAIN g |-> Bsd!Whole(g[i])]
    BY <2>1, <2>2, <2>3
  <2>5. QED
    BY <2>4 DEF Bsd!Wholes, c, g
<1>6. QED
  BY <1>1, <1>2, <1>4, <1>5

LEMMA BsdReturnMountsKeeps ==
    ASSUME BsdInv, NEW t \in Thread, Bsd!ReturnMounts(t)
    PROVE  BsdInv'
<1> USE ReadsAre DEF CallType, AnswerType
<1> DEFINE a == Bsd!Answer("all", Root, call[t].copied)
<1>1. Bsd!Busy(t) /\ call[t].left = 0
  BY DEF Bsd!ReturnMounts, Bsd!Busy
<1>2. /\ call[t].copied \in Seq(Copied) /\ Bounded(t, call[t].copied)
      /\ longest[t] = 0 => call[t].copied = Bsd!Wholes(given[t])
  BY <1>1, CopyDone
<1>3. /\ answer' = [answer EXCEPT ![t] = a]
      /\ call' = [call EXCEPT ![t] = Bsd!Idle]
      /\ UNCHANGED <<mtab, buffer, given, there, longest>>
  BY DEF Bsd!ReturnMounts, Bsd!Finish
<1>4. a \in AnswerType /\ a.tag = "all" /\ a.list = call[t].copied
  BY <1>2 DEF Bsd!Answer
<1>5. answer'[t] = a
  BY <1>3 DEF BsdInv, BsdTyped
<1> HIDE DEF a
<1>6. AloneAnswers(t)' /\ Bounded(t, answer[t].list)'
  BY <1>2, <1>3, <1>4, <1>5, ToldMore DEF AloneAnswers
<1>7. Bsd!Idle \in CallType
  BY EmptySeq DEF Bsd!Idle
<1>8. /\ call' \in [Thread -> CallType]
      /\ call'[t] = Bsd!Idle
      /\ \A u \in Thread : u # t => call'[u] = call[u]
  BY <1>3, <1>7 DEF BsdInv, BsdTyped
<1>9. /\ given' \in [Thread -> Seq(BsdEntry)] /\ there' \in [Thread -> SUBSET BsdEntry]
      /\ longest' \in [Thread -> Nat]
  BY <1>3 DEF BsdInv, BsdTyped
<1>10. QED
  BY <1>3, <1>4, <1>6, <1>8, <1>9, AnswerKeeps

LEMMA BsdReturnMountAtKeeps ==
    ASSUME BsdInv, NEW t \in Thread, Bsd!ReturnMountAt(t)
    PROVE  BsdInv'
<1> USE ReadsAre DEF CallType, AnswerType
<1> DEFINE c == call[t].copied
           d == call[t].path
           a == Bsd!First(c, d)
<1>1. Bsd!Busy(t) /\ call[t].left = 0
  BY DEF Bsd!ReturnMountAt, Bsd!Busy
<1>2. /\ c \in Seq(Copied) /\ d \in BsdDir /\ given[t] \in Seq(BsdEntry)
      /\ DOMAIN c = DOMAIN given[t] /\ Bounded(t, c)
      /\ longest[t] = 0 => c = Bsd!Wholes(given[t])
  BY <1>1, CopyDone
<1>3. /\ answer' = [answer EXCEPT ![t] = a]
      /\ call' = [call EXCEPT ![t] = Bsd!Idle]
      /\ UNCHANGED <<mtab, buffer, given, there, longest>>
  BY DEF Bsd!ReturnMountAt, Bsd!Finish
<1>4. answer'[t] = a
  BY <1>3 DEF BsdInv, BsdTyped
<1>5. /\ a \in AnswerType
      /\ a.path = d
      /\ \/ a.tag = "not_found" /\ a.list = << >> /\ Bsd!Found(c, d) = {}
         \/ a.tag = "one" /\ \E i \in Bsd!Found(c, d) : a.list = <<c[i]>>
  <2>1. CASE Bsd!Found(c, d) = {}
    <3>1. a = [tag |-> "not_found", path |-> d, list |-> << >>]
      BY <2>1 DEF Bsd!First, Bsd!Answer
    <3> HIDE DEF a, c, d
    <3>2. QED
      BY <1>2, <2>1, <3>1, EmptySeq
  <2>2. CASE Bsd!Found(c, d) # {}
    <3> DEFINE i == Min(Bsd!Found(c, d))
    <3>1. Bsd!Found(c, d) \in SUBSET (1..Len(c)) /\ Bsd!Found(c, d) # {}
      BY <1>2, <2>2, LenProperties DEF Bsd!Found
    <3>2. i \in Bsd!Found(c, d) /\ i \in 1..Len(c)
      BY <1>2, <3>1, LeastPlace
    <3>3. i \in Bsd!Found(c, d) /\ c[i] \in Copied
      BY <1>2, <3>2, ElementOfSeq
    <3>4. a = [tag |-> "one", path |-> d, list |-> <<c[i]>>]
      BY <2>2, BsdWords DEF Bsd!First, Bsd!Answer
    <3> HIDE DEF a, c, d, i
    <3>5. QED
      BY <1>2, <3>3, <3>4
  <2>3. QED
    BY <2>1, <2>2
<1> HIDE DEF a, c, d
<1>6. AloneAnswers(t)'
  <2> SUFFICES ASSUME longest[t] = 0
               PROVE  /\ a.tag = "all" => a.list = Bsd!Wholes(given[t])
                      /\ a.tag = "one" =>
                          \E i \in DOMAIN given[t] :
                              /\ a.list[1] = Bsd!Whole(given[t][i])
                              /\ \/ given[t][i].on = a.path
                                 \/ Bsd!On(given[t], a.path) = {}
                      /\ a.tag = "not_found" => Bsd!On(given[t], a.path) = {}
    BY <1>3, <1>4 DEF AloneAnswers, Bsd!On
  <2>1. c = Bsd!Wholes(given[t])
    BY <1>2
  <2>2. Bsd!Found(c, d) = Bsd!On(given[t], d)
    BY <2>1, FoundIsOn
  <2>3. CASE a.tag = "not_found"
    BY <1>5, <2>2, <2>3
  <2>4. CASE a.tag = "one"
    <3>1. PICK i \in Bsd!Found(c, d) : a.list = <<c[i]>>
      BY <1>5, <2>4
    <3>2. i \in DOMAIN given[t] /\ given[t][i].on = d
      BY <2>2, <3>1 DEF Bsd!On
    <3>3. a.list[1] = Bsd!Whole(given[t][i])
      BY <2>1, <3>1, <3>2 DEF Bsd!Wholes
    <3>4. QED
      BY <1>5, <2>4, <3>2, <3>3
  <2>5. QED
    BY <1>5, <2>3, <2>4
<1>7. Bounded(t, answer[t].list)'
  <2>1. \A i \in DOMAIN a.list : \E j \in DOMAIN c : a.list[i] = c[j]
    BY <1>5 DEF Bsd!Found
  <2>2. Bounded(t, a.list)
    BY <1>2, <2>1 DEF Bounded
  <2>3. QED
    BY <1>3, <1>4, <2>2, ToldMore
<1>8. Bsd!Idle \in CallType
  BY EmptySeq DEF Bsd!Idle
<1>9. /\ call' \in [Thread -> CallType]
      /\ call'[t] = Bsd!Idle
      /\ \A u \in Thread : u # t => call'[u] = call[u]
  BY <1>3, <1>8 DEF BsdInv, BsdTyped
<1>10. /\ given' \in [Thread -> Seq(BsdEntry)] /\ there' \in [Thread -> SUBSET BsdEntry]
       /\ longest' \in [Thread -> Nat]
  BY <1>3 DEF BsdInv, BsdTyped
<1>11. QED
  BY <1>3, <1>5, <1>6, <1>7, <1>9, <1>10, AnswerKeeps

LEMMA GetmntinfoFailsKeeps ==
    ASSUME BsdInv, NEW t \in Thread, Bsd!GetmntinfoFails(t)
    PROVE  BsdInv'
<1> USE ReadsAre DEF CallType, AnswerType
<1> DEFINE a == Bsd!Answer("err", Root, << >>)
<1>1. /\ given' = [given EXCEPT ![t] = << >>] /\ there' = [there EXCEPT ![t] = {}]
      /\ longest' = [longest EXCEPT ![t] = 0] /\ answer' = [answer EXCEPT ![t] = a]
      /\ UNCHANGED <<mtab, buffer, call>> /\ call[t] = Bsd!Idle
  BY DEF Bsd!GetmntinfoFails, BsdInv, BsdTyped
<1>2. a \in AnswerType /\ a.tag = "err" /\ a.list = << >>
  BY EmptySeq DEF Bsd!Answer
<1>3. answer'[t] = a
  BY <1>1 DEF BsdInv, BsdTyped
<1> HIDE DEF a
<1>4. AloneAnswers(t)' /\ Bounded(t, answer[t].list)'
  BY <1>2, <1>3 DEF AloneAnswers, Bounded
<1>5. /\ given' \in [Thread -> Seq(BsdEntry)] /\ there' \in [Thread -> SUBSET BsdEntry]
      /\ longest' \in [Thread -> Nat]
      /\ \A u \in Thread : u # t => /\ given'[u] = given[u] /\ there'[u] = there[u]
                                    /\ longest'[u] = longest[u]
  BY <1>1, EmptySeq DEF BsdInv, BsdTyped
<1>6. call' \in [Thread -> CallType]
  BY <1>1 DEF BsdInv, BsdTyped
<1>7. QED
  BY <1>1, <1>2, <1>4, <1>5, <1>6, AnswerKeeps

LEMMA StatfsMountAtKeeps ==
    ASSUME BsdInv, NEW t \in Thread, NEW d \in BsdDir, Bsd!StatfsMountAt(t, d)
    PROVE  BsdInv'
<1> USE ReadsAre DEF CallType, AnswerType
<1> DEFINE now == {mtab[i] : i \in DOMAIN mtab}
           P == IF On(mtab, d) = {} THEN On(mtab, Root) ELSE On(mtab, d)
           top == mtab[Max(P)]
<1>1. mtab \in Seq(BsdEntry) /\ On(mtab, Root) # {}
  BY BsdWords DEF BsdInv, BsdTyped
<1>2. /\ given' = [given EXCEPT ![t] = mtab] /\ there' = [there EXCEPT ![t] = now]
      /\ longest' = [longest EXCEPT ![t] = 0]
      /\ UNCHANGED <<mtab, buffer, call>> /\ call[t] = Bsd!Idle
  BY BsdWords DEF Bsd!StatfsMountAt, BsdInv, BsdTyped
<1>3. PICK a \in {Bsd!Answer("one", d, <<Bsd!Whole(top)>>), Bsd!Answer("err", d, << >>)} :
        answer' = [answer EXCEPT ![t] = a]
  BY BsdWords DEF Bsd!StatfsMountAt
<1>4. /\ Max(P) \in P /\ Max(P) \in DOMAIN mtab /\ top \in BsdEntry
      /\ \A i \in DOMAIN mtab : mtab[i] \in BsdEntry
  <2>1. P \in SUBSET (1..Len(mtab)) /\ P # {} /\ DOMAIN mtab = 1..Len(mtab)
    BY <1>1, LenProperties DEF On
  <2>2. Max(P) \in P
    <3> HIDE DEF P
    <3>1. QED
      BY <1>1, <2>1, GreatestPlace
  <2>3. Max(P) \in DOMAIN mtab
    <3> HIDE DEF P
    <3>1. QED
      BY <2>1, <2>2
  <2>4. \A i \in DOMAIN mtab : mtab[i] \in BsdEntry
    BY <1>1, <2>1, ElementOfSeq
  <2> HIDE DEF P
  <2>5. QED
    BY <2>2, <2>3, <2>4
<1>5. top.on = d \/ On(mtab, d) = {}
  BY <1>4 DEF On
<1>6. top \in now /\ now \in SUBSET BsdEntry
  BY <1>4
<1> HIDE DEF top, now
<1>7. /\ a \in AnswerType
      /\ a.path = d
      /\ \/ a.tag = "one" /\ a.list = <<Bsd!Whole(top)>>
         \/ a.tag = "err" /\ a.list = << >>
  <2> DEFINE e == Bsd!Whole(top)
  <2>1. e \in Copied /\ <<e>> \in Seq(Copied)
    <3>1. e \in Copied
      BY <1>4, WholeIs
    <3> HIDE DEF e
    <3>2. QED
      BY <3>1
  <2>2. \/ a = [tag |-> "one", path |-> d, list |-> <<e>>]
        \/ a = [tag |-> "err", path |-> d, list |-> << >>]
    BY <1>3 DEF Bsd!Answer
  <2> HIDE DEF e
  <2>3. d \in BsdDir /\ << >> \in Seq(Copied)
    BY EmptySeq
  <2>4. CASE a = [tag |-> "one", path |-> d, list |-> <<e>>]
    BY <2>1, <2>3, <2>4 DEF e
  <2>5. CASE a = [tag |-> "err", path |-> d, list |-> << >>]
    BY <2>3, <2>5
  <2>6. QED
    BY <2>2, <2>4, <2>5 DEF e
<1>8. answer'[t] = a /\ given'[t] = mtab /\ there'[t] = now
  BY <1>2, <1>3 DEF BsdInv, BsdTyped
<1>9. AloneAnswers(t)'
  <2>1. PICK i \in DOMAIN mtab : top = mtab[i]
    BY <1>4 DEF top
  <2>2. Bsd!On(mtab, d) = On(mtab, d)
    BY BsdWords
  <2>3. /\ a.tag = "all" => a.list = Bsd!Wholes(mtab)
        /\ a.tag = "one" =>
            \E m \in DOMAIN mtab :
                /\ a.list[1] = Bsd!Whole(mtab[m])
                /\ mtab[m].on = a.path \/ Bsd!On(mtab, a.path) = {}
        /\ a.tag = "not_found" => Bsd!On(mtab, a.path) = {}
    BY <1>5, <1>7, <2>1, <2>2
  <2>4. QED
    BY <1>8, <2>3 DEF AloneAnswers, Bsd!On
<1>10. Bounded(t, answer[t].list)'
  <2>1. \A i \in DOMAIN a.list : \A k \in DOMAIN Reads : a.list[i][k] = top[Reads[k]]
    BY <1>7 DEF Bsd!Whole
  <2>2. QED
    BY <1>6, <1>8, <2>1 DEF Bounded, Told
<1>11. /\ given' \in [Thread -> Seq(BsdEntry)] /\ there' \in [Thread -> SUBSET BsdEntry]
       /\ longest' \in [Thread -> Nat]
       /\ \A u \in Thread : u # t => /\ given'[u] = given[u] /\ there'[u] = there[u]
                                     /\ longest'[u] = longest[u]
  BY <1>1, <1>2, <1>6 DEF BsdInv, BsdTyped
<1>12. call' \in [Thread -> CallType]
  BY <1>2 DEF BsdInv, BsdTyped
<1>13. QED
  BY <1>2, <1>3, <1>7, <1>9, <1>10, <1>11, <1>12, AnswerKeeps

\* A thread has read more; nothing else changes.
LEMMA CopyKeeps ==
    ASSUME BsdInv, NEW t \in Thread, Bsd!Busy(t), NEW r \in CallType,
           call' = [call EXCEPT ![t] = r], r.kind = call[t].kind,
           Len(r.part) < Len(Reads),
           UNCHANGED <<mtab, buffer, answer, given, there, longest>>,
           BufferBounded(t)', AloneCopies(t)', Bounded(t, call[t].copied)', PartTold(t)'
    PROVE  BsdInv'
<1>1. /\ call' \in [Thread -> CallType] /\ call'[t] = r
      /\ \A u \in Thread : u # t => call'[u] = call[u]
  BY DEF BsdInv, BsdTyped
<1>2. Bsd!Busy(t)'
  BY <1>1 DEF Bsd!Busy
<1>3. BsdTyped'
  <2>1. \A u \in Thread : /\ Len(call'[u].part) < Len(Reads)
                          /\ ~Bsd!Busy(u)' => call'[u] = Bsd!Idle
    BY <1>1, <1>2 DEF BsdInv, BsdTyped, Bsd!Busy
  <2>2. Bsd!Idle' = Bsd!Idle
    BY DEF Bsd!Idle
  <2>3. QED
    BY <1>1, <2>1, <2>2 DEF BsdInv, BsdTyped, Bsd!On
<1>4. ThreadInv(t)'
  BY <1>2 DEF ThreadInv
<1>5. ASSUME NEW u \in Thread, u # t
      PROVE  ThreadInv(u)'
  <2>1. ThreadInv(u) /\ call'[u] = call[u]
    BY <1>1, <1>5 DEF BsdInv
  <2>2. CASE ~Bsd!Busy(u)
    BY <2>1, <2>2, IdleKeeps
  <2>3. CASE Bsd!Busy(u)
    <3>1. \A i \in DOMAIN mtab' : mtab'[i] \in there'[u]
      BY <2>1, <2>3 DEF ThreadInv, BufferBounded
    <3>2. QED
      BY <2>1, <2>3, <3>1, BusyKeeps
  <2>4. QED
    BY <2>2, <2>3
<1>6. QED
  BY <1>3, <1>4, <1>5 DEF BsdInv

LEMMA StatfsToFsKeeps ==
    ASSUME BsdInv, NEW t \in Thread, Bsd!StatfsToFs(t)
    PROVE  BsdInv'
<1> USE ReadsAre
<1> DEFINE c == call[t].copied
           k == Len(c) + 1
           p == call[t].part
           j == Len(p) + 1
           v == Bsd!Cell(call[t], k)[Reads[j]]
           part == Append(p, v)
           more == [kind |-> call[t].kind, path |-> call[t].path, ptr |-> call[t].ptr,
                    left |-> call[t].left, part |-> part, copied |-> c]
           done == [kind |-> call[t].kind, path |-> call[t].path, ptr |-> call[t].ptr,
                    left |-> call[t].left - 1, part |-> << >>, copied |-> Append(c, part)]
<1>1. /\ call[t] \in CallType /\ Len(p) < Len(Reads)
      /\ given[t] \in Seq(BsdEntry) /\ call[t].left > 0
      /\ UNCHANGED <<mtab, buffer, answer, given, there, longest>>
  BY DEF BsdInv, BsdTyped, Bsd!StatfsToFs
<1>2. /\ p \in Seq(Piece) /\ c \in Seq(Copied) /\ call[t].left \in Nat
      /\ call[t].kind \in {"idle", "mounts", "mount_at"} /\ call[t].path \in BsdDir
      /\ call[t].ptr \in Nat
  BY <1>1 DEF CallType
<1>3. Bsd!Busy(t)
  <2>1. Bsd!Idle.left = 0
    BY DEF Bsd!Idle
  <2>2. QED
    BY <1>1, <2>1 DEF BsdInv, BsdTyped
<1>4. BufferBounded(t) /\ AloneCopies(t) /\ Bounded(t, c) /\ PartTold(t)
  BY <1>3 DEF BsdInv, ThreadInv
<1>5. /\ Len(p) \in Nat /\ j \in DOMAIN Reads /\ DOMAIN p = 1..Len(p)
      /\ Len(c) \in Nat /\ Len(given[t]) \in Nat /\ DOMAIN c = 1..Len(c)
      /\ k \in 1..Len(given[t])
  BY <1>1, <1>2, <1>4, LenProperties DEF BufferBounded
<1>6. v \in Piece /\ Told(t, j, v)
  <2>1. CASE call[t].ptr = buffer.addr
    <3>1. v = buffer.cells[k][Reads[j]]
      BY <2>1 DEF Bsd!Cell
    <3>2. buffer.cells[k] \in there[t] /\ buffer.cells[k] \in BsdEntry
      BY <1>4, <1>5, <2>1 DEF BufferBounded, BsdInv, BsdTyped
    <3>3. QED
      BY <1>5, <3>1, <3>2, WholeIs DEF Told
  <2>2. CASE call[t].ptr # buffer.addr
    <3>1. Bsd!Junk.fs = "junk" /\ Bsd!Junk.on = "junk"
      BY DEF Bsd!Junk
    <3>2. v = Bsd!Junk[Reads[j]] /\ (Reads[j] = "fs" \/ Reads[j] = "on")
      BY <1>5, <2>2 DEF Bsd!Cell
    <3>3. v = "junk"
      BY <3>1, <3>2
    <3>4. QED
      BY <1>4, <2>2, <3>3 DEF BufferBounded, Told, Piece
  <2>3. QED
    BY <2>1, <2>2
<1>7. longest[t] = 0 => v = given[t][k][Reads[j]]
  BY <1>4, <1>5 DEF AloneCopies, Bsd!Cell
<1> HIDE DEF v
<1>8. /\ part \in Seq(Piece) /\ Len(part) = j /\ part[j] = v /\ DOMAIN part = 1..j
      /\ \A i \in 1..Len(p) : part[i] = p[i]
  BY <1>2, <1>5, <1>6, AppendProperties, LenProperties
<1>9. \A i \in 1..j : i = j \/ i \in 1..Len(p)
  BY <1>5
<1>10. \A i \in DOMAIN part : Told(t, i, part[i])
  BY <1>4, <1>5, <1>6, <1>8, <1>9 DEF PartTold
<1>11. longest[t] = 0 => \A i \in DOMAIN part : part[i] = given[t][k][Reads[i]]
  BY <1>4, <1>5, <1>7, <1>8, <1>9 DEF AloneCopies
<1>12. call' = [call EXCEPT ![t] = IF Len(part) < Len(Reads) THEN more ELSE done]
  <2> DEFINE now == [kind |-> call[t].kind, path |-> call[t].path, ptr |-> call[t].ptr,
                     left |-> call[t].left, part |-> p, copied |-> c]
  <2>1. DOMAIN call = Thread /\ call[t] = now
    BY <1>1 DEF BsdInv, BsdTyped, CallType
  <2>2. CASE Len(part) < Len(Reads)
    <3>1. call' = [call EXCEPT ![t].part = part]
      BY <2>2 DEF Bsd!StatfsToFs, v
    <3> HIDE DEF part
    <3>2. call' = [call EXCEPT ![t] = [now EXCEPT !.part = part]]
      BY <2>1, <3>1
    <3>3. [now EXCEPT !.part = part] = more
      OBVIOUS
    <3>4. QED
      BY <2>2, <3>2, <3>3
  <2>3. CASE ~(Len(part) < Len(Reads))
    <3>1. call' = [call EXCEPT ![t].left = @ - 1, ![t].part = << >>,
                               ![t].copied = Append(@, part)]
      BY <2>3 DEF Bsd!StatfsToFs, v
    <3> HIDE DEF part
    <3>2. call' = [call EXCEPT ![t] = [now EXCEPT !.left = @ - 1, !.part = << >>,
                                                  !.copied = Append(c, part)]]
      BY <2>1, <3>1
    <3>3. [now EXCEPT !.left = @ - 1, !.part = << >>, !.copied = Append(c, part)] = done
      <4> DEFINE l == call[t].left - 1
                 all == Append(c, part)
                 less == [kind |-> call[t].kind, path |-> call[t].path,
                          ptr |-> call[t].ptr, left |-> l, part |-> p, copied |-> c]
                 bare == [kind |-> call[t].kind, path |-> call[t].path,
                          ptr |-> call[t].ptr, left |-> l, part |-> << >>, copied |-> c]
                 last == [kind |-> call[t].kind, path |-> call[t].path,
                          ptr |-> call[t].ptr, left |-> l, part |-> << >>, copied |-> all]
      <4>1. now.left - 1 = l
        OBVIOUS
      <4>2. [now EXCEPT !.left = @ - 1, !.part = << >>, !.copied = all]
               = [now EXCEPT !.left = l, !.part = << >>, !.copied = all]
        BY <4>1
      <4> HIDE DEF l, all, c, p
      <4>3. [now EXCEPT !.left = l] = less
        OBVIOUS
      <4>4. [less EXCEPT !.part = << >>] = bare
        OBVIOUS
      <4>5. [bare EXCEPT !.copied = all] = last
        OBVIOUS
      <4> HIDE DEF now, less, bare
      <4>6. [now EXCEPT !.left = l, !.part = << >>, !.copied = all]
               = [[[now EXCEPT !.left = l] EXCEPT !.part = << >>] EXCEPT !.copied = all]
        BY Zenon
      <4>7. QED
        BY <4>2, <4>3, <4>4, <4>5, <4>6 DEF all, l, c
    <3>4. QED
      BY <2>3, <3>2, <3>3
  <2>4. QED
    BY <2>2, <2>3
<1>13. CASE Len(part) < Len(Reads)
  <2>1. call' = [call EXCEPT ![t] = more] /\ more \in CallType
    BY <1>2, <1>8, <1>12, <1>13 DEF CallType
  <2>2. /\ more.kind = call[t].kind /\ more.ptr = call[t].ptr /\ more.left = call[t].left
        /\ more.part = part /\ more.copied = c
    OBVIOUS
  <2> HIDE DEF more, part, c, p
  <2>3. call'[t] = more
    BY <2>1 DEF BsdInv, BsdTyped
  <2>4. BufferBounded(t)'
    BY <1>1, <1>4, <2>2, <2>3 DEF BufferBounded, c
  <2>5. AloneCopies(t)'
    BY <1>1, <1>4, <1>11, <2>2, <2>3 DEF AloneCopies, c
  <2>6. Bounded(t, call[t].copied)' /\ PartTold(t)'
    BY <1>1, <1>4, <1>10, <2>2, <2>3, ToldMore DEF PartTold
  <2>7. QED
    BY <1>1, <1>3, <1>13, <2>1, <2>2, <2>4, <2>5, <2>6, CopyKeeps
<1>14. CASE ~(Len(part) < Len(Reads))
  <2>1. DOMAIN part = DOMAIN Reads
    <3>1. j = Len(Reads)
      <4> DEFINE m == Len(p)
                 n == Len(Reads)
      <4>1. m \in Nat /\ n \in Nat /\ m < n /\ ~(m + 1 < n)
        BY <1>1, <1>5, <1>8, <1>14
      <4> HIDE DEF m, n
      <4>2. m + 1 = n
        BY <4>1
      <4>3. QED
        BY <4>2 DEF m, n
    <3>2. QED
      BY <1>8, <3>1
  <2>2. part \in Copied
    <3> HIDE DEF part
    <3>1. part \in [DOMAIN part -> Piece]
      <4>1. part \in [1..Len(part) -> Piece]
        BY <1>8
      <4>2. QED
        BY <1>8, <4>1
    <3>2. QED
      BY <2>1, <3>1 DEF Copied
  <2>3. longest[t] = 0 => part = Bsd!Whole(given[t][k])
    <3> HIDE DEF part
    <3>1. part = [i \in DOMAIN Reads |-> part[i]]
      BY <2>1, <2>2 DEF Copied
    <3>2. QED
      BY <1>11, <2>1, <3>1 DEF Bsd!Whole
  <2> DEFINE all == Append(c, part)
  <2>4. /\ all \in Seq(Copied) /\ Len(all) = k /\ all[k] = part /\ DOMAIN all = 1..k
        /\ \A i \in 1..Len(c) : all[i] = c[i]
    <3> HIDE DEF part, c
    <3>1. QED
      BY <1>2, <1>5, <2>2, AppendProperties, LenProperties
  <2>5. \A i \in 1..k : i = k \/ i \in 1..Len(c)
    BY <1>5
  <2>6. call[t].left - 1 \in Nat /\ (call[t].left - 1) + k = call[t].left + Len(c)
    <3> DEFINE l == call[t].left
               m == Len(c)
    <3>1. l \in Nat /\ l > 0 /\ m \in Nat
      BY <1>1, <1>2, <1>5
    <3> HIDE DEF l, m
    <3>2. l - 1 \in Nat /\ (l - 1) + (m + 1) = l + m
      BY <3>1
    <3>3. QED
      BY <3>2 DEF l, m
  <2>7. call' = [call EXCEPT ![t] = done] /\ done \in CallType
    BY <1>2, <1>12, <1>14, <2>4, <2>6, EmptySeq DEF CallType
  <2>8. /\ done.kind = call[t].kind /\ done.ptr = call[t].ptr
        /\ done.left = call[t].left - 1
        /\ done.part = << >> /\ done.copied = all
    OBVIOUS
  <2>9. Len(done.part) < Len(Reads) /\ DOMAIN done.part = {}
    BY <2>8
  <2> HIDE DEF done, all, part, c, p, k
  <2>10. call'[t] = done
    BY <2>7 DEF BsdInv, BsdTyped
  <2>11. BufferBounded(t)'
    BY <1>1, <1>4, <2>4, <2>6, <2>8, <2>10 DEF BufferBounded, c
  <2>12. AloneCopies(t)'
    BY <1>1, <1>4, <1>5, <2>3, <2>4, <2>5, <2>8, <2>9, <2>10 DEF AloneCopies, c
  <2>13. Bounded(t, call[t].copied)' /\ PartTold(t)'
    <3>1. Bounded(t, all)
      BY <1>4, <1>5, <1>10, <2>1, <2>4, <2>5 DEF Bounded
    <3>2. QED
      BY <1>1, <2>8, <2>9, <2>10, <3>1, ToldMore DEF PartTold
  <2>14. QED
    BY <1>1, <1>3, <2>7, <2>8, <2>9, <2>11, <2>12, <2>13, CopyKeeps
<1>15. QED
  BY <1>13, <1>14

LEMMA BsdUnchanged ==
    ASSUME BsdInv, UNCHANGED bsdState
    PROVE  BsdInv'
<1> USE DEF bsdState
<1>1. BsdTyped'
  <2>1. Bsd!Idle' = Bsd!Idle
    BY DEF Bsd!Idle
  <2>2. QED
    BY <2>1 DEF BsdInv, BsdTyped, Bsd!On, Bsd!Busy
<1>2. ASSUME NEW t \in Thread
      PROVE  ThreadInv(t)'
  <2>1. ThreadInv(t)
    BY DEF BsdInv
  <2>2. CASE ~Bsd!Busy(t)
    BY <2>1, <2>2, IdleKeeps
  <2>3. CASE Bsd!Busy(t)
    <3>1. \A i \in DOMAIN mtab' : mtab'[i] \in there'[t]
      BY <2>1, <2>3 DEF ThreadInv, BufferBounded
    <3>2. QED
      BY <2>1, <2>3, <3>1, BusyKeeps
  <2>4. QED
    BY <2>2, <2>3
<1>3. QED
  BY <1>1, <1>2 DEF BsdInv

LEMMA BsdPreserved == BsdInv /\ [MountsNext]_<<component, vars, bsdState>> => BsdInv'
<1> SUFFICES ASSUME BsdInv, [MountsNext]_<<component, vars, bsdState>>
             PROVE  BsdInv'
  OBVIOUS
<1>1. Bsd!Next \/ UNCHANGED bsdState
  BY DEF MountsNext
<1>2. CASE UNCHANGED bsdState
  BY <1>2, BsdUnchanged
<1>3. CASE Bsd!Next
  <2>1. ASSUME NEW f \in Fs, NEW d \in BsdDir, Bsd!Mount(f, d)
        PROVE  BsdInv'
    BY <2>1, BsdMountKeeps
  <2>2. ASSUME NEW i \in DOMAIN mtab, Bsd!Unmount(i)
        PROVE  BsdInv'
    BY <2>2, BsdUnmountKeeps
  <2>3. ASSUME NEW t \in Thread, Bsd!Getmntinfo(t, "mounts", Root)
        PROVE  BsdInv'
    BY <2>3, ReadsAre, GetmntinfoKeeps
  <2>4. ASSUME NEW t \in Thread, NEW d \in BsdDir, Bsd!Getmntinfo(t, "mount_at", d)
        PROVE  BsdInv'
    BY <2>4, GetmntinfoKeeps
  <2>5. ASSUME NEW t \in Thread, Bsd!GetmntinfoFails(t)
        PROVE  BsdInv'
    BY <2>5, GetmntinfoFailsKeeps
  <2>6. ASSUME NEW t \in Thread, Bsd!StatfsToFs(t)
        PROVE  BsdInv'
    BY <2>6, StatfsToFsKeeps
  <2>7. ASSUME NEW t \in Thread, Bsd!ReturnMounts(t)
        PROVE  BsdInv'
    BY <2>7, BsdReturnMountsKeeps
  <2>8. ASSUME NEW t \in Thread, Bsd!ReturnMountAt(t)
        PROVE  BsdInv'
    BY <2>8, BsdReturnMountAtKeeps
  <2>9. ASSUME NEW t \in Thread, NEW d \in BsdDir, Bsd!StatfsMountAt(t, d)
        PROVE  BsdInv'
    BY <2>9, StatfsMountAtKeeps
  <2>10. QED
    BY <1>3, <2>1, <2>2, <2>3, <2>4, <2>5, <2>6, <2>7, <2>8, <2>9 DEF Bsd!Next
<1>4. QED
  BY <1>1, <1>2, <1>3

LEMMA BsdAlways == MountsSpec => []BsdInv
BY BsdInitial, BsdPreserved, PTL DEF MountsSpec

\* A call that no other thread overlapped returns the kernel's list, or what
\* is on it, for any number of threads and lists of any length; the shared
\* buffer is safe as long as it is not shared (freebsd.rs:138-139).
THEOREM AloneIsExact == MountsSpec => []AloneHonest
<1>1. ASSUME BsdInv
      PROVE  AloneHonest
  <2> SUFFICES ASSUME NEW t \in Thread, ~Bsd!Busy(t), longest[t] = 0
               PROVE  /\ answer[t].tag = "all" => answer[t].list = Bsd!Wholes(given[t])
                      /\ answer[t].tag = "one" =>
                          \E e \in Bsd!ToSet(given[t]) :
                              /\ answer[t].list[1] = Bsd!Whole(e)
                              /\ \/ e.on = answer[t].path
                                 \/ Bsd!On(given[t], answer[t].path) = {}
                      /\ answer[t].tag = "not_found" => Bsd!On(given[t], answer[t].path) = {}
    BY DEF AloneHonest, Bsd!AloneHonest
  <2>1. AloneAnswers(t)
    BY <1>1 DEF BsdInv, ThreadInv
  <2>2. QED
    BY <2>1 DEF AloneAnswers, Bsd!ToSet
<1>2. QED
  BY BsdAlways, <1>1, PTL

\* Whatever calls overlap, and whichever field each read of an entry falls in, a
\* caller gets fields of entries that were mounted during its call, or, if another
\* was handed a longer list, what is behind a dangling pointer: for any number of
\* threads and of fields (freebsd.rs:134-139, 191-204, openbsd.rs:116-121, 251-264).
THEOREM OverlapIsBounded == MountsSpec => []OverlapBounded
<1>1. ASSUME BsdInv
      PROVE  OverlapBounded
  <2> SUFFICES ASSUME NEW t \in Thread, ~Bsd!Busy(t), NEW e \in Bsd!ToSet(answer[t].list),
                      NEW k \in DOMAIN Reads
               PROVE  \/ \E x \in there[t] : e[k] = x[Reads[k]]
                      \/ e[k] = "junk" /\ longest[t] > Len(given[t])
    BY DEF OverlapBounded, Bsd!OverlapBounded
  <2>1. Bounded(t, answer[t].list)
    BY <1>1 DEF BsdInv, ThreadInv
  <2>2. PICK i \in DOMAIN answer[t].list : e = answer[t].list[i]
    BY DEF Bsd!ToSet
  <2>3. Told(t, k, e[k])
    BY <2>1, <2>2 DEF Bounded
  <2>4. QED
    BY <2>3 DEF Told
<1>2. QED
  BY BsdAlways, <1>1, PTL

-----------------------------------------------------------------------------
(* Composition.                                                            *)

\* Each component of a behaviour is a behaviour of its own module.
THEOREM MountsCompose == MountsSpec => Spec /\ Bsd!Spec
<1>1. MountsInit => Init /\ Bsd!Init
  BY DEF MountsInit
<1>2. [MountsNext]_<<component, vars, bsdState>> => [Next]_vars /\ [Bsd!Next]_(Bsd!vars)
  BY DEF MountsNext, bsdState, Bsd!vars
<1>3. QED
  BY <1>1, <1>2, PTL DEF MountsSpec, Spec, Bsd!Spec
=============================================================================
