------------------------------ MODULE Network ------------------------------
(***************************************************************************)
(* The network interfaces (src/macos/Network.cpp, Network.h).              *)
(*                                                                         *)
(* Three maps from an interface's name to its counters: current holds the  *)
(* last reading, last the one before, delta their difference, which is     *)
(* what print() shows.  An interface is added to a map when it is first    *)
(* met and never removed; delta gets its keys from the constructor alone.  *)
(*                                                                         *)
(* A reading takes two system calls: one for the size of the interface     *)
(* list, one for the list.  Interfaces come, go and change between them.   *)
(*                                                                         *)
(* The four counters of an interface (packets and bytes, in and out) are   *)
(* handled alike everywhere but in a test of print() on packetsIn; they    *)
(* are one counter here.                                                   *)
(***************************************************************************)
EXTENDS Counters, FiniteSets, Functions

CONSTANTS
    Iface,      \* names of interfaces
    Hidden,     \* those print() leaves out: utun*, awdl*, lo*
    MaxPackets  \* bound: what one interface counts

ASSUME IfaceAssumption == IsFiniteSet(Iface) /\ Hidden \subseteq Iface
ASSUME BoundAssumption == MaxPackets \in Nat /\ MaxPackets < Word

VARIABLES
    attached,   \* the kernel's interfaces: name -> struct Interface
    \* class Network
    current, last, delta,
    \* where the constructor or update() stands, and len, a local of read()
    pc, len,
    \* history, read by the properties only
    since,      \* traffic of each interface since the last reading
    interval,   \* its traffic between the last two readings
    cut,        \* interfaces attached or detached since the last reading
    broken      \* the same, between the last two readings

maps    == <<current, last, delta>>
history == <<since, interval, cut, broken>>
vars    == <<attached, maps, pc, len, history>>

\* struct Interface
Interface == [up: BOOLEAN, packets: Unsigned]

Empty == [n \in {} |-> 0]

TypeOK ==
    /\ \A m \in {attached, current, last, delta} :
        DOMAIN m \subseteq Iface /\ m \in [DOMAIN m -> Interface]
    /\ pc \in {"start", "ctorlist", "constructed", "list", "diff", "idle", "exited"}
    /\ len \in 0..Cardinality(Iface)
    /\ since \in [Iface -> 0..MaxPackets]
    /\ interval \in [Iface -> 0..MaxPackets]
    /\ cut \subseteq Iface
    /\ broken \subseteq Iface

Init ==
    /\ \E S \in SUBSET Iface :
        attached \in [S -> [up: BOOLEAN, packets: 0..MaxPackets]]
    /\ current = Empty
    /\ last = Empty
    /\ delta = Empty
    /\ pc = "start"
    /\ len = 0
    /\ since = [n \in Iface |-> 0]
    /\ interval = [n \in Iface |-> 0]
    /\ cut = Iface
    /\ broken = Iface

-----------------------------------------------------------------------------
(* The kernel.                                                             *)

\* An interface appears; its counters start at zero.
Attach(n) ==
    /\ n \notin DOMAIN attached
    /\ \E up \in BOOLEAN : attached' = Put(attached, n, [up |-> up, packets |-> 0])
    /\ since' = [since EXCEPT ![n] = 0]
    /\ cut' = cut \cup {n}
    /\ UNCHANGED <<maps, pc, len, interval, broken>>

Detach(n) ==
    /\ n \in DOMAIN attached
    /\ attached' = Restrict(attached, DOMAIN attached \ {n})
    /\ cut' = cut \cup {n}
    /\ UNCHANGED <<maps, pc, len, since, interval, broken>>

\* IFF_UP is set or cleared.
Configure(n) ==
    /\ n \in DOMAIN attached
    /\ attached' = [attached EXCEPT ![n].up = ~@]
    /\ UNCHANGED <<maps, pc, len, history>>

Traffic(n) ==
    /\ n \in DOMAIN attached
    /\ attached[n].packets < MaxPackets
    /\ attached' = [attached EXCEPT ![n].packets = @ + 1]
    /\ since' = [since EXCEPT ![n] = IF n \in cut THEN @ ELSE @ + 1]
    /\ UNCHANGED <<maps, pc, len, interval, cut, broken>>

-----------------------------------------------------------------------------
(* class Network                                                           *)

\* History: a reading ends an interval.
Reading ==
    /\ interval' = since
    /\ since' = [n \in Iface |-> 0]
    /\ broken' = cut
    /\ cut' = Iface \ DOMAIN attached

\* read(), first sysctl(): the size of the list.  (len is out of scope, and 0
\* here, once the list has been read.)
SizeOfList == len' = Cardinality(DOMAIN attached)

\* The constructor: its own reading, from which all three maps get their
\* entries; update() follows at once.
ConstructorSize ==
    /\ pc = "start"
    /\ SizeOfList
    /\ pc' = "ctorlist"
    /\ UNCHANGED <<attached, maps, history>>

ConstructorList ==
    /\ pc = "ctorlist"
    /\ current' = Copy(current, attached)
    /\ last' = Copy(last, current')
    /\ delta' = Copy(delta, current')
    /\ pc' = "constructed"
    /\ len' = 0
    /\ Reading
    /\ UNCHANGED attached

\* Mutant of BeginUpdate: the previous reading is not kept.
BeginUpdateForgets ==
    /\ pc \in {"constructed", "idle"}
    /\ SizeOfList
    /\ pc' = "list"
    /\ interval' = [n \in Iface |-> 0]
    /\ broken' = Iface
    /\ UNCHANGED <<attached, maps, since, cut>>

\* update() up to the first system call.
BeginUpdate ==
    /\ pc \in {"constructed", "idle"}
    /\ last' = Copy(last, current)
    /\ SizeOfList
    /\ pc' = "list"
    /\ interval' = [n \in Iface |-> 0]
    /\ broken' = Iface
    /\ UNCHANGED <<attached, current, delta, since, cut>>

\* read(), first sysctl() fails: cctop exits, update() after its copy().
SizeFails ==
    /\ pc \in {"start", "constructed", "idle"}
    /\ last' = IF pc = "start" THEN last ELSE Copy(last, current)
    /\ pc' = "exited"
    /\ UNCHANGED <<attached, current, delta, len, history>>

\* read(), second sysctl(): the list, which goes into current name by name.
List ==
    /\ pc = "list"
    /\ current' = Copy(current, attached)
    /\ pc' = "diff"
    /\ len' = 0
    /\ Reading
    /\ UNCHANGED <<attached, last, delta>>

\* The list has outgrown the buffer: sysctl() fails and cctop exits.
ListFails ==
    /\ pc \in {"ctorlist", "list"}
    /\ Cardinality(DOMAIN attached) > len
    /\ pc' = "exited"
    /\ UNCHANGED <<attached, maps, len, history>>

\* Mutant of Difference: the arguments are swapped.
DifferenceSwapped(d, newer, older) ==
    [d EXCEPT !.packets = Minus(older.packets, newer.packets)]

\* Interface::diff: counters only; the flags of d stay what copy() put there.
Difference(d, newer, older) ==
    [d EXCEPT !.packets = Minus(newer.packets, older.packets)]

\* The loop of update() over delta.  current[name] and last[name] are the
\* operator[] of std::map: for a name they do not hold they yield a null
\* pointer, which diff() would dereference.
Diff ==
    /\ pc = "diff"
    /\ delta' = [n \in DOMAIN delta |-> Difference(delta[n], current[n], last[n])]
    /\ pc' = "idle"
    /\ UNCHANGED <<attached, current, last, len, history>>

\* The interfaces print() writes a line for: the flags are those of delta.
Rows == {n \in DOMAIN delta \ Hidden : delta[n].up /\ current[n].packets # 0}

Monitor ==
    ConstructorSize \/ ConstructorList \/ BeginUpdate \/ SizeFails \/ List \/ ListFails \/ Diff

Next ==
    \/ \E n \in Iface : Attach(n) \/ Detach(n) \/ Configure(n) \/ Traffic(n)
    \/ Monitor

\* The monitor refreshes again and again (see Cctop); the kernel does as it
\* likes.
Spec == Init /\ [][Next]_vars /\ WF_vars(Monitor)

-----------------------------------------------------------------------------
(* Properties.                                                             *)

\* update() and print() look a name of delta up in current and in last
\* without asking whether it is there.  It always is, though interfaces vanish
\* from the kernel's list: no null pointer is dereferenced.
KeysNested ==
    /\ DOMAIN delta \subseteq DOMAIN current
    /\ pc # "start" => DOMAIN delta \subseteq DOMAIN last

\* For an interface that was not attached or detached between the last two
\* readings, what is shown is the traffic it had between them, whatever
\* became of the other interfaces, and also when it was there before, went
\* away, and came back before that.
TrafficExact ==
    pc = "idle" => \A n \in DOMAIN delta \ broken : delta[n].packets = interval[n]

\* Every refresh shows the distance between the two last readings of the
\* counters of delta.  While current is ahead of delta, last is what delta
\* was computed from.
BaseOf(n) == IF pc = "diff" THEN last[n].packets ELSE current[n].packets

Abstract == INSTANCE Meter WITH
    Key <- Iface,
    reading <- [n \in DOMAIN delta |-> BaseOf(n)],
    shown <- [n \in DOMAIN delta |-> delta[n].packets]

MetersInterfaces == Abstract!Spec

\* What the header says (Network.h:9, "Network traffic (per interface)"): an
\* interface that is up and has had traffic at the last reading has a line.
\* It has none when it appeared, or came up, after the program had started:
\* delta has the names and the flags of the constructor's reading.
EveryInterfaceShown ==
    pc = "idle" =>
        \A n \in DOMAIN current \ Hidden :
            current[n].up /\ current[n].packets # 0 => n \in Rows

=============================================================================
