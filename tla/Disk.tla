-------------------------------- MODULE Disk --------------------------------
(***************************************************************************)
(* The disk drives (src/macos/Disk.cpp, Disk.h).                           *)
(*                                                                         *)
(* The constructor fills a table of at most MaxDrives drives, sorted by    *)
(* name, and takes drives out again that went away meanwhile.  The table   *)
(* does not change after that: the notifications that would change it go   *)
(* to a run loop nobody runs.  Then, as in Network, a reading puts the     *)
(* drives' counters into current, update() keeps the reading before in     *)
(* last, and delta, whose keys are those of the constructor's reading, is  *)
(* what print() shows.  A reading asks drive by drive; the drives work,    *)
(* and go away, between any two questions.                                 *)
(*                                                                         *)
(* The totals of a drive are handled alike and are one counter here.  A    *)
(* drive is a number, and numbers are ordered as the names are by strcmp.  *)
(***************************************************************************)
EXTENDS Counters, FiniteSets

CONSTANTS
    Drive,      \* the drives: numbers above 0
    Block,      \* those with a parent that is an IOBlockStorageDriver
    MaxDrives,  \* MAXDRIVES, the size of drivestat[]
    MaxWork     \* bound: what one drive counts

ASSUME DriveAssumption == Drive \subseteq Nat \ {0} /\ Block \subseteq Drive
ASSUME BoundAssumption == MaxDrives \in Nat \ {0} /\ MaxWork \in Nat /\ MaxWork < Word

VARIABLES
    \* the registry
    media,      \* drive -> "ok", "nostats" (properties without statistics), "gone"
    work,       \* drive -> its counter
    \* drivestat[], num_devices and class Disk
    table, num,
    current, last, delta,
    \* where the constructor or update() stands
    pc,
    iter,       \* the drives its iterator has still to yield
    i,          \* the loop index of read()
    \* history, read by the properties only
    since,      \* work of each drive since its last reading
    interval,   \* its work between its last two readings
    cut,        \* drives whose stored reading is not their counter
    broken,     \* the same, for the reading before
    missed      \* drives this reading got no properties of

registry == <<media, work>>
drives   == <<table, num>>
maps     == <<current, last, delta>>
history  == <<since, interval, cut, broken, missed>>
vars     == <<registry, drives, maps, pc, iter, i, history>>

Empty   == [d \in {} |-> 0]
Slot    == 0..(MaxDrives - 1)
Garbage == 0    \* a slot that was never written, or was filled from outside

TypeOK ==
    /\ media \in [Drive -> {"ok", "nostats", "gone"}]
    /\ work \in [Drive -> 0..MaxWork]
    /\ table \in [Slot -> Drive \cup {Garbage}]
    /\ num \in 0..MaxDrives
    /\ \A m \in {current, last, delta} : DOMAIN m \subseteq Drive /\ m \in [DOMAIN m -> Unsigned]
    /\ pc \in {"record", "remove", "ctorread", "constructed", "idle", "read", "exited"}
    /\ iter \subseteq Drive
    /\ i \in 0..num
    /\ since \in [Drive -> 0..MaxWork] /\ interval \in [Drive -> 0..MaxWork]
    /\ cut \subseteq Drive /\ broken \subseteq Drive /\ missed \subseteq Drive

Init ==
    /\ media \in [Drive -> {"ok", "gone"}]
    /\ work = [d \in Drive |-> 0]
    /\ table = [s \in Slot |-> Garbage]
    /\ num = 0
    /\ current = Empty /\ last = Empty /\ delta = Empty
    /\ pc = "record"
    /\ iter = {d \in Drive : media[d] # "gone"}
    /\ i = 0
    /\ since = [d \in Drive |-> 0] /\ interval = [d \in Drive |-> 0]
    /\ cut = Drive /\ broken = Drive /\ missed = {}

-----------------------------------------------------------------------------
(* The registry.                                                           *)

Work(d) ==
    /\ media[d] # "gone"
    /\ work[d] < MaxWork
    /\ work' = [work EXCEPT ![d] = @ + 1]
    /\ since' = [since EXCEPT ![d] = @ + 1]
    /\ UNCHANGED <<media, drives, maps, pc, iter, i, interval, cut, broken, missed>>

\* A drive comes to have no statistics, has them again, or is unplugged; one
\* that is plugged in again is another entry of the registry.
MediaChanges(d) ==
    /\ media[d] # "gone"
    /\ \E s \in {"ok", "nostats", "gone"} \ {media[d]} : media' = [media EXCEPT ![d] = s]
    /\ UNCHANGED <<work, drives, maps, pc, iter, i, history>>

-----------------------------------------------------------------------------
(* The constructor.                                                        *)

\* qsort() of the first n slots of t.
Sorted(t, n) ==
    LET names   == {t[s] : s \in 0..(n - 1)}
        rank(x) == Cardinality({y \in names : y < x})
    IN  [s \in Slot |-> IF s < n THEN CHOOSE x \in names : rank(x) = s ELSE t[s]]

\* record_device(), for the drives the iterator yields while there is room.
RecordDevice ==
    /\ pc = "record"
    /\ \E d \in iter :
        /\ iter' = iter \ {d}
        /\ num < MaxDrives => media[d] # "gone"
        /\ IF num < MaxDrives /\ d \in Block
           THEN table' = [table EXCEPT ![num] = d] /\ num' = num + 1
           ELSE UNCHANGED drives
    /\ UNCHANGED <<registry, maps, pc, i, history>>

\* console.abort(): there is no iterator at all, or a drive has no parent, no
\* properties, name or block size, as when it went away meanwhile.
RecordAborts ==
    /\ pc = "record"
    /\ num = 0 \/ (num < MaxDrives /\ iter # {})
    /\ pc' = "exited"
    /\ UNCHANGED <<registry, drives, maps, iter, i, history>>

\* Mutant of RecordEnds: the table is not sorted.
RecordEndsUnsorted ==
    /\ pc = "record"
    /\ iter = {}
    /\ iter' = {d \in Drive : media[d] = "gone"}
    /\ pc' = "remove"
    /\ UNCHANGED <<registry, drives, maps, i, history>>

\* The end of record_drivelist(): the table is sorted, and the iterator for
\* drives that have gone away takes over; console.abort() if there is none.
RecordEnds ==
    /\ pc = "record"
    /\ iter = {}
    /\ table' = Sorted(table, num)
    /\ \/ iter' = {d \in Drive : media[d] = "gone"} /\ pc' = "remove"
       \/ iter' = iter /\ pc' = "exited"
    /\ UNCHANGED <<registry, num, maps, i, history>>

\* Mutant of Without: the slots are not closed up.
WithoutGap(s) == table

\* memmove() of MAXDRIVES - s slots: the last of them comes from behind the
\* end of drivestat[].
Without(s) ==
    IF s = MaxDrives - 1
    THEN table
    ELSE [t \in Slot |->
            IF t < s THEN table[t]
            ELSE IF t < MaxDrives - 1 THEN table[t + 1] ELSE Garbage]

\* remove_drivelist(): the drive's slot is taken out and the table sorted; a
\* drive that is not in the table, or whose properties cannot be had any
\* more, is passed over.
RemoveDrive ==
    /\ pc = "remove"
    /\ \E d \in iter :
        /\ iter' = iter \ {d}
        /\ \/ \E s \in 0..(num - 1) :
                /\ table[s] = d
                /\ num' = num - 1
                /\ table' = Sorted(Without(s), num - 1)
           \/ UNCHANGED drives
    /\ UNCHANGED <<registry, maps, pc, i, history>>

RemoveEnds ==
    /\ pc = "remove"
    /\ iter = {}
    /\ pc' = "ctorread"
    /\ UNCHANGED <<registry, drives, maps, iter, i, history>>

-----------------------------------------------------------------------------
(* Readings.                                                               *)

\* read(), one drive.  Without properties the loop goes on to the next one;
\* without statistics the totals are 0.
ReadDrive ==
    LET d == table[i] IN
    /\ pc \in {"ctorread", "read"}
    /\ i < num
    /\ i' = i + 1
    /\ \/ /\ media[d] = "gone"
          /\ broken' = broken \cup {d}
          /\ missed' = missed \cup {d}
          /\ UNCHANGED <<current, since, interval, cut>>
       \/ /\ media[d] # "gone"
          /\ current' = Put(current, d, IF media[d] = "ok" THEN work[d] ELSE 0)
          /\ interval' = [interval EXCEPT ![d] = since[d]]
          /\ since' = [since EXCEPT ![d] = 0]
          /\ cut' = IF media[d] = "ok" THEN cut \ {d} ELSE cut \cup {d}
          /\ broken' = IF d \in cut \cup cut' THEN broken \cup {d} ELSE broken \ {d}
          /\ UNCHANGED missed
    /\ UNCHANGED <<registry, drives, last, delta, pc, iter>>

\* The rest of the constructor: both other maps start as copies.
ConstructorEnds ==
    /\ pc = "ctorread"
    /\ i = num
    /\ last' = Copy(last, current)
    /\ delta' = Copy(delta, current)
    /\ pc' = "constructed"
    /\ i' = 0
    /\ UNCHANGED <<registry, drives, current, iter, history>>

\* The beginning of an update, given the maps it leaves in last and current.
UpdateBegins(newLast, newCurrent) ==
    /\ pc \in {"constructed", "idle"}
    /\ last' = newLast
    /\ current' = newCurrent
    /\ missed' = {}
    /\ pc' = "read"
    /\ UNCHANGED <<registry, drives, delta, iter, i, since, interval, cut, broken>>

\* Mutants of BeginUpdate: the previous reading is not kept; the map to read
\* into is cleared first.
BeginUpdateForgets == UpdateBegins(last, current)
BeginUpdateClears  == UpdateBegins(Copy(last, current), Empty)

\* update() up to the loop of read().
BeginUpdate == UpdateBegins(Copy(last, current), current)

\* Mutant of Difference: the arguments are swapped.
DifferenceSwapped(newer, older) == Minus(older, newer)

\* DiskStats::diff
Difference(newer, older) == Minus(newer, older)

\* The loop of update() over delta; current[name] and last[name] would be null
\* pointers for names those maps do not hold.
Diff ==
    /\ pc = "read"
    /\ i = num
    /\ delta' = [d \in DOMAIN delta |-> Difference(current[d], last[d])]
    /\ pc' = "idle"
    /\ i' = 0
    /\ UNCHANGED <<registry, drives, current, last, iter, history>>

Monitor ==
    \/ RecordDevice \/ RecordAborts \/ RecordEnds \/ RemoveDrive \/ RemoveEnds
    \/ ReadDrive \/ ConstructorEnds \/ BeginUpdate \/ Diff

Next == (\E d \in Drive : Work(d) \/ MediaChanges(d)) \/ Monitor

\* The monitor refreshes again and again (see Cctop).
Spec == Init /\ [][Next]_vars /\ WF_vars(Monitor)

-----------------------------------------------------------------------------
(* Properties.                                                             *)

Listed == {table[s] : s \in 0..(num - 1)}

\* The slots in use hold different drives, all of them real: what memmove()
\* fetches from behind the array never becomes one of them.  Once the
\* constructor has recorded the drives they are in order.
TableSound ==
    /\ Listed \subseteq Block
    /\ \A s, t \in 0..(num - 1) :
        s < t =>
            /\ table[s] # table[t]
            /\ pc \notin {"record", "exited"} => table[s] < table[t]

\* Taking a drive out of the table loses no other drive.
OnlyGoneRemoved == [][\A d \in Listed \ Listed' : media[d] = "gone"]_vars

\* Every name update() looks up in current and in last is there, also for a
\* drive whose properties could not be had at the one reading or the other.
KeysNested ==
    pc \in {"constructed", "read", "idle"} =>
        /\ DOMAIN delta \subseteq DOMAIN last
        /\ DOMAIN last \subseteq DOMAIN current
        /\ DOMAIN current \subseteq Listed

\* What is shown of a drive is the work it did between its last two readings,
\* provided both were readings of its counter.
ActivityExact ==
    pc = "idle" => \A d \in DOMAIN delta \ broken : delta[d] = interval[d]

\* Every refresh shows the distance between the last two stored readings.
BaseOf(d) == IF pc = "read" THEN last[d] ELSE current[d]

Abstract == INSTANCE Meter WITH
    Key <- Drive,
    reading <- [d \in DOMAIN delta |-> BaseOf(d)],
    shown <- delta

MetersDrives == Abstract!Spec

\* What read() says of itself (Disk.cpp:274-277: "If the drive goes away, we
\* may not get any properties for it.  So take some defaults."): after a
\* reading, a drive without properties has the defaults, zero totals.  It
\* keeps its old totals: the loop has gone on before the defaults are stored.
DefaultsTaken ==
    pc = "idle" => \A d \in missed \cap DOMAIN current : current[d] = 0

=============================================================================
