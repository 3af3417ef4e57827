---------------------------- MODULE NetworkProofs ----------------------------
(***************************************************************************)
(* Theorems about Network, for every set of interfaces and every width of  *)
(* the counters: no lookup of update() or print() misses, Network          *)
(* implements Meter, and what it shows is the traffic there was.           *)
(***************************************************************************)
EXTENDS Network, Lemmas, FiniteSetTheorems

\* What the maps hold.
IsMap(m) == DOMAIN m \subseteq Iface /\ m \in [DOMAIN m -> Interface]

MapsOK ==
    /\ IsMap(attached) /\ IsMap(current) /\ IsMap(last) /\ IsMap(delta)
    /\ pc \in {"start", "ctorlist", "constructed", "list", "diff", "idle", "exited"}

\* Before the constructor has its reading, delta is empty.
DeltaEmpty == pc \in {"start", "ctorlist"} => DOMAIN delta = {}

\* Between the copy and the reading that overwrites current in place, last and
\* current agree on all that delta shows.
LastIsCurrent == pc = "list" => \A n \in DOMAIN delta : last[n] = current[n]

IInv == MapsOK /\ KeysNested /\ DeltaEmpty /\ LastIsCurrent

-----------------------------------------------------------------------------
(* The maps.                                                               *)

\* copy() yields a map of the two maps' entries.
LEMMA CopyType ==
    ASSUME NEW dst, NEW src, IsMap(dst), IsMap(src)
    PROVE  IsMap(Copy(dst, src))
<1>1. \A k \in DOMAIN dst \cup DOMAIN src :
        (IF k \in DOMAIN src THEN src[k] ELSE dst[k]) \in Interface
    BY DEF IsMap
<1>2. Copy(dst, src) \in [DOMAIN dst \cup DOMAIN src -> Interface]
    BY <1>1 DEF Copy
<1> QED
    BY <1>2 DEF IsMap

\* A difference is an Interface that has the flags of the map it is stored in.
LEMMA DifferenceType ==
    ASSUME NEW d \in Interface, NEW newer \in Interface, NEW older \in Interface
    PROVE  /\ Difference(d, newer, older) \in Interface
           /\ Difference(d, newer, older).packets = Minus(newer.packets, older.packets)
BY MinusType DEF Difference, Interface

-----------------------------------------------------------------------------
(* The invariant.                                                          *)

LEMMA InitIInv == Init => IInv
<1> SUFFICES ASSUME Init PROVE IInv
    OBVIOUS
<1>1. PICK S \in SUBSET Iface : attached \in [S -> [up: BOOLEAN, packets: 0..MaxPackets]]
    BY DEF Init
<1>2. \A n \in S : attached[n] \in Interface
    BY <1>1, BoundAssumption, WordAssumption DEF Interface, Unsigned
<1>3. IsMap(attached)
    BY <1>1, <1>2 DEF IsMap
<1>4. IsMap(Empty) /\ DOMAIN Empty = {}
    BY DEF IsMap, Empty
<1> QED
    BY <1>3, <1>4 DEF Init, IInv, MapsOK, KeysNested, DeltaEmpty, LastIsCurrent

\* The kernel changes attached alone.
LEMMA KernelStep ==
    ASSUME IInv, NEW n \in Iface, Attach(n) \/ Detach(n) \/ Configure(n) \/ Traffic(n)
    PROVE  IInv' /\ UNCHANGED <<maps, pc>>
<1>1. UNCHANGED <<maps, pc>>
    BY DEF Attach, Detach, Configure, Traffic, history
<1>2. IsMap(attached')
  <2> USE DEF IInv, MapsOK, IsMap
  <2>1. CASE Attach(n)
    <3>1. PICK up \in BOOLEAN : attached' = Put(attached, n, [up |-> up, packets |-> 0])
        BY <2>1 DEF Attach
    <3>2. [up |-> up, packets |-> 0] \in Interface
        BY WordAssumption DEF Interface, Unsigned
    <3> QED
        BY <3>1, <3>2 DEF Put
  <2>2. CASE Detach(n)
      BY <2>2 DEF Detach, Restrict
  <2>3. CASE Configure(n)
    <3>1. [attached[n] EXCEPT !.up = ~@] \in Interface
        BY <2>3 DEF Configure, Interface
    <3> QED
        BY <2>3, <3>1 DEF Configure
  <2>4. CASE Traffic(n)
    <3>1. [attached[n] EXCEPT !.packets = @ + 1] \in Interface
        BY <2>4, BoundAssumption, WordAssumption DEF Traffic, Interface, Unsigned
    <3> QED
        BY <2>4, <3>1 DEF Traffic
  <2> QED
      BY <2>1, <2>2, <2>3, <2>4
<1> QED
    BY <1>1, <1>2 DEF IInv, MapsOK, KeysNested, DeltaEmpty, LastIsCurrent, maps

LEMMA ConstructorListStep ==
    ASSUME IInv, ConstructorList
    PROVE  IInv' /\ DOMAIN delta' = DOMAIN current'
<1> USE DEF IInv, MapsOK
<1>1. /\ current' = Copy(current, attached)
      /\ last' = Copy(last, current')
      /\ delta' = Copy(delta, current')
      /\ pc = "ctorlist" /\ pc' = "constructed"
      /\ UNCHANGED attached
    BY DEF ConstructorList
<1>2. IsMap(current') /\ IsMap(last') /\ IsMap(delta')
    BY <1>1, CopyType
<1>3. DOMAIN delta = {}
    BY <1>1 DEF DeltaEmpty
<1>4. DOMAIN last' = DOMAIN last \cup DOMAIN current'
    BY <1>1 DEF Copy
<1>5. DOMAIN delta' = DOMAIN delta \cup DOMAIN current'
    BY <1>1 DEF Copy
<1> QED
    BY <1>1, <1>2, <1>3, <1>4, <1>5 DEF KeysNested, DeltaEmpty, LastIsCurrent

LEMMA BeginUpdateStep == ASSUME IInv, BeginUpdate PROVE IInv'
<1> USE DEF IInv, MapsOK
<1>1. /\ last' = Copy(last, current)
      /\ pc' = "list" /\ pc # "start"
      /\ UNCHANGED <<attached, current, delta>>
    BY DEF BeginUpdate
<1>2. IsMap(last')
    BY <1>1, CopyType
<1>3. /\ DOMAIN last' = DOMAIN last \cup DOMAIN current
      /\ \A n \in DOMAIN current : last'[n] = current[n]
    BY <1>1 DEF Copy
<1> QED
    BY <1>1, <1>2, <1>3 DEF KeysNested, DeltaEmpty, LastIsCurrent

LEMMA ListStep == ASSUME IInv, List PROVE IInv'
<1> USE DEF IInv, MapsOK
<1>1. /\ current' = Copy(current, attached)
      /\ pc = "list" /\ pc' = "diff"
      /\ UNCHANGED <<attached, last, delta>>
    BY DEF List
<1>2. IsMap(current')
    BY <1>1, CopyType
<1>3. DOMAIN current' = DOMAIN current \cup DOMAIN attached
    BY <1>1 DEF Copy
<1> QED
    BY <1>1, <1>2, <1>3 DEF KeysNested, DeltaEmpty, LastIsCurrent

LEMMA DiffStep ==
    ASSUME IInv, Diff
    PROVE  /\ IInv'
           /\ DOMAIN delta' = DOMAIN delta
           /\ \A n \in DOMAIN delta :
                delta'[n].packets = Minus(current[n].packets, last[n].packets)
<1> USE DEF IInv, MapsOK
<1>1. /\ delta' = [n \in DOMAIN delta |-> Difference(delta[n], current[n], last[n])]
      /\ pc = "diff" /\ pc' = "idle"
      /\ UNCHANGED <<attached, current, last>>
    BY DEF Diff
<1>2. \A n \in DOMAIN delta :
        delta[n] \in Interface /\ current[n] \in Interface /\ last[n] \in Interface
    BY <1>1 DEF IsMap, KeysNested
<1>3. \A n \in DOMAIN delta :
        /\ Difference(delta[n], current[n], last[n]) \in Interface
        /\ Difference(delta[n], current[n], last[n]).packets
             = Minus(current[n].packets, last[n].packets)
    BY <1>2, DifferenceType
<1>4. IsMap(delta') /\ DOMAIN delta' = DOMAIN delta
    BY <1>1, <1>3 DEF IsMap
<1>5. IInv'
    BY <1>1, <1>4 DEF KeysNested, DeltaEmpty, LastIsCurrent
<1> QED
    BY <1>1, <1>3, <1>4, <1>5

\* A failing first sysctl() exits: before the first copy(), or after one.
LEMMA SizeFailsStep ==
    ASSUME IInv, SizeFails
    PROVE  IInv' /\ UNCHANGED <<attached, current, delta, len, history>> /\ pc' = "exited"
<1> USE DEF IInv, MapsOK
<1>1. /\ UNCHANGED <<attached, current, delta, len, history>> /\ pc' = "exited"
      /\ pc \in {"start", "constructed", "idle"}
      /\ last' = IF pc = "start" THEN last ELSE Copy(last, current)
    BY DEF SizeFails
<1>2. IsMap(last') /\ DOMAIN last \subseteq DOMAIN last'
  <2>1. IsMap(Copy(last, current)) /\ DOMAIN last \subseteq DOMAIN Copy(last, current)
      BY CopyType DEF Copy
  <2> QED
      BY <1>1, <2>1
<1>3. DOMAIN delta \subseteq DOMAIN last'
    BY <1>1, <1>2 DEF KeysNested, DeltaEmpty
<1> QED
    BY <1>1, <1>2, <1>3 DEF KeysNested, DeltaEmpty, LastIsCurrent

\* Steps that only move on.
LEMMA OtherStep ==
    ASSUME IInv, ConstructorSize \/ ListFails \/ UNCHANGED vars
    PROVE  IInv' /\ UNCHANGED maps
<1>1. UNCHANGED <<attached, maps>>
    BY DEF ConstructorSize, ListFails, vars
<1>2. \/ pc' = pc
      \/ pc = "start" /\ pc' = "ctorlist"
      \/ pc \in {"ctorlist", "list"} /\ pc' = "exited"
    BY DEF ConstructorSize, ListFails, vars
<1>3. DOMAIN delta = {} \/ pc # "start"
    BY DEF IInv, DeltaEmpty
<1> QED
    BY <1>1, <1>2, <1>3 DEF IInv, MapsOK, KeysNested, DeltaEmpty, LastIsCurrent, maps

LEMMA NextIInv == IInv /\ [Next]_vars => IInv'
<1> SUFFICES ASSUME IInv, [Next]_vars PROVE IInv'
    OBVIOUS
<1>1. ASSUME NEW n \in Iface, Attach(n) \/ Detach(n) \/ Configure(n) \/ Traffic(n)
      PROVE  IInv'
    BY <1>1, KernelStep
<1>2. CASE ConstructorList
    BY <1>2, ConstructorListStep
<1>3. CASE BeginUpdate
    BY <1>3, BeginUpdateStep
<1>4. CASE List
    BY <1>4, ListStep
<1>5. CASE Diff
    BY <1>5, DiffStep
<1>6. CASE SizeFails
    BY <1>6, SizeFailsStep
<1>7. CASE ConstructorSize \/ ListFails \/ UNCHANGED vars
    BY <1>7, OtherStep
<1> QED
    BY <1>1, <1>2, <1>3, <1>4, <1>5, <1>6, <1>7 DEF Next, Monitor

\* The maps have their types, and agree as far as the next step relies on it.
THEOREM InductiveInvariant == Spec => []IInv
BY InitIInv, NextIInv, PTL DEF Spec

\* update() and print() find every name they look up: no interface that
\* vanishes makes them dereference a null pointer.
THEOREM KeysNestedHolds == Spec => []KeysNested
<1>1. IInv => KeysNested
    BY DEF IInv
<1> QED
    BY <1>1, InductiveInvariant, PTL

-----------------------------------------------------------------------------
(* Network implements Meter.                                               *)

Base == [n \in DOMAIN delta |-> BaseOf(n)]
Seen == [n \in DOMAIN delta |-> delta[n].packets]

\* What the refinement mapping yields has the types Meter asks for.
MappingOK ==
    /\ DOMAIN delta \subseteq Iface
    /\ Base \in [DOMAIN delta -> Unsigned]
    /\ Seen \in [DOMAIN delta -> Unsigned]

LEMMA MappingType == IInv => MappingOK
<1> SUFFICES ASSUME IInv PROVE MappingOK
    OBVIOUS
<1>1. \A n \in DOMAIN delta : current[n].packets \in Unsigned /\ delta[n].packets \in Unsigned
    BY DEF IInv, MapsOK, IsMap, KeysNested, Interface
<1>2. pc # "start" => \A n \in DOMAIN delta : last[n].packets \in Unsigned
    BY DEF IInv, MapsOK, IsMap, KeysNested, Interface
<1>3. \A n \in DOMAIN delta : BaseOf(n) \in Unsigned
    BY <1>1, <1>2 DEF BaseOf
<1> QED
    BY <1>1, <1>3 DEF MappingOK, Base, Seen, IInv, MapsOK, IsMap

\* When neither map changes in what delta shows, Meter stutters.
LEMMA SameMapping ==
    ASSUME UNCHANGED delta, \A n \in DOMAIN delta : BaseOf(n)' = BaseOf(n)
    PROVE  UNCHANGED <<Base, Seen>>
BY DEF Base, Seen

LEMMA RefinesInit == Init => Abstract!Init
<1> SUFFICES ASSUME Init PROVE Abstract!Init
    OBVIOUS
<1>1. DOMAIN delta = {}
    BY DEF Init, Empty
<1> QED
    BY <1>1 DEF Abstract!Init

LEMMA RefinesNext == IInv /\ IInv' /\ [Next]_vars => [Abstract!Next]_(Abstract!vars)
<1> SUFFICES ASSUME IInv, IInv', [Next]_vars
             PROVE  Abstract!Next \/ UNCHANGED <<Base, Seen>>
    BY DEF Abstract!vars, Base, Seen
<1>1. ASSUME NEW n \in Iface, Attach(n) \/ Detach(n) \/ Configure(n) \/ Traffic(n)
      PROVE  UNCHANGED <<Base, Seen>>
    BY <1>1, KernelStep, SameMapping DEF BaseOf, maps
<1>2. CASE ConstructorList
  <2>1. DOMAIN Base = {}
      BY <1>2 DEF ConstructorList, IInv, DeltaEmpty, Base
  <2>2. MappingOK'
      BY MappingType, PTL
  <2>3. Abstract!Start
      BY <2>1, <2>2
      DEF MappingOK, Abstract!Start, Abstract!Unsigned, Unsigned, Base, Seen
  <2> QED
      BY <2>3 DEF Abstract!Next
<1>3. CASE BeginUpdate
    BY <1>3, SameMapping DEF BeginUpdate, BaseOf
<1>4. CASE List
    BY <1>4, SameMapping DEF List, BaseOf, IInv, LastIsCurrent
<1>5. CASE Diff
  <2>1. /\ DOMAIN delta' = DOMAIN delta
        /\ \A n \in DOMAIN delta :
             delta'[n].packets = Minus(current[n].packets, last[n].packets)
      BY <1>5, DiffStep
  <2>2. /\ pc = "diff" /\ pc' = "idle" /\ UNCHANGED <<current, last>>
      BY <1>5 DEF Diff
  <2>3. \A n \in DOMAIN delta :
          BaseOf(n) = last[n].packets /\ BaseOf(n)' = current[n].packets
      BY <2>2 DEF BaseOf
  <2>4. Base' \in [DOMAIN Base -> Unsigned]
    <3>1. MappingOK'
        BY MappingType, PTL
    <3> QED
        BY <2>1, <3>1 DEF MappingOK, Base
  <2>5. Seen' = [n \in DOMAIN Base |-> Minus(Base'[n], Base[n])]
      BY <2>1, <2>3 DEF Seen, Base
  <2> QED
      BY <2>4, <2>5
      DEF Abstract!Next, Abstract!Refresh, Abstract!Minus, Abstract!Unsigned,
          Minus, Unsigned, Base, Seen
<1>6. CASE SizeFails
  <2>1. UNCHANGED <<current, delta>> /\ pc # "diff" /\ pc' # "diff"
      BY <1>6 DEF SizeFails
  <2> QED
      BY <2>1, SameMapping DEF BaseOf
<1>7. CASE ConstructorSize \/ ListFails \/ UNCHANGED vars
    BY <1>7, OtherStep, SameMapping DEF BaseOf, maps, ConstructorSize, ListFails, vars
<1> QED
    BY <1>1, <1>2, <1>3, <1>4, <1>5, <1>6, <1>7 DEF Next, Monitor

\* Every refresh of Network is a refresh of Meter: it shows how far each
\* counter moved between the last two readings.
THEOREM MetersInterfacesHolds == Spec => MetersInterfaces
BY InductiveInvariant, RefinesInit, RefinesNext, PTL DEF Spec, MetersInterfaces, Abstract!Spec

-----------------------------------------------------------------------------
(* What is shown is the traffic there was.                                 *)

HistoryOK ==
    /\ since \in [Iface -> 0..MaxPackets]
    /\ interval \in [Iface -> 0..MaxPackets]
    /\ cut \subseteq Iface
    /\ broken \subseteq Iface
    /\ \A n \in DOMAIN attached : attached[n].packets \in 0..MaxPackets

\* An interface that has stayed since the last reading has counted on from
\* what was read then.
SinceInv ==
    \A n \in Iface \ cut :
        /\ n \in DOMAIN attached /\ n \in DOMAIN current
        /\ attached[n].packets = current[n].packets + since[n]

\* The same of the interval between the last two readings.
IntervalInv ==
    pc = "diff" =>
        \A n \in DOMAIN delta \ broken : current[n].packets = last[n].packets + interval[n]

TrafficInv == HistoryOK /\ SinceInv /\ IntervalInv /\ TrafficExact

LEMMA InitTraffic == Init => TrafficInv
<1> SUFFICES ASSUME Init PROVE TrafficInv
    OBVIOUS
<1>1. PICK S \in SUBSET Iface : attached \in [S -> [up: BOOLEAN, packets: 0..MaxPackets]]
    BY DEF Init
<1>2. HistoryOK
    BY <1>1, BoundAssumption DEF Init, HistoryOK
<1> QED
    BY <1>2 DEF Init, TrafficInv, SinceInv, IntervalInv, TrafficExact

LEMMA KernelTraffic ==
    ASSUME IInv, TrafficInv, NEW n \in Iface, Attach(n) \/ Detach(n) \/ Configure(n) \/ Traffic(n)
    PROVE  TrafficInv'
<1> USE DEF HistoryOK, SinceInv
<1>1. UNCHANGED <<maps, pc, interval, broken>> /\ attached \in [DOMAIN attached -> Interface]
    BY DEF Attach, Detach, Configure, Traffic, history, IInv, MapsOK, IsMap
<1>2. IntervalInv' /\ TrafficExact'
    BY <1>1 DEF TrafficInv, IntervalInv, TrafficExact, maps
<1>3. HistoryOK /\ SinceInv
    BY DEF TrafficInv
<1>4. CASE Attach(n)
  <2>1. PICK up \in BOOLEAN : attached' = Put(attached, n, [up |-> up, packets |-> 0])
      BY <1>4 DEF Attach
  <2>2. /\ DOMAIN attached' = DOMAIN attached \cup {n}
        /\ attached'[n].packets = 0
        /\ \A m \in DOMAIN attached : m # n => attached'[m] = attached[m]
      BY <2>1 DEF Put
  <2>3. since' = [since EXCEPT ![n] = 0] /\ cut' = cut \cup {n}
      BY <1>4 DEF Attach
  <2> QED
      BY <1>1, <1>2, <1>3, <2>2, <2>3, BoundAssumption DEF TrafficInv, maps
<1>5. CASE Detach(n)
  <2>1. /\ DOMAIN attached' = DOMAIN attached \ {n}
        /\ \A m \in DOMAIN attached : m # n => attached'[m] = attached[m]
      BY <1>5 DEF Detach, Restrict
  <2> QED
      BY <1>1, <1>2, <1>3, <1>5, <2>1 DEF Detach, TrafficInv, maps
<1>6. CASE Configure(n)
  <2>1. /\ DOMAIN attached' = DOMAIN attached
        /\ \A m \in DOMAIN attached : attached'[m].packets = attached[m].packets
      BY <1>1, <1>6 DEF Configure, Interface
  <2> QED
      BY <1>1, <1>2, <1>3, <1>6, <2>1 DEF Configure, TrafficInv, maps, history
<1>7. CASE Traffic(n)
  <2>1. /\ DOMAIN attached' = DOMAIN attached /\ n \in DOMAIN attached
        /\ attached'[n].packets = attached[n].packets + 1
        /\ attached[n].packets < MaxPackets
        /\ \A m \in DOMAIN attached : m # n => attached'[m] = attached[m]
      BY <1>1, <1>7 DEF Traffic, Interface
  <2>2. /\ since' = [since EXCEPT ![n] = IF n \in cut THEN @ ELSE @ + 1]
        /\ cut' = cut
      BY <1>7 DEF Traffic
  <2>3. n \notin cut => since[n] < MaxPackets /\ current[n].packets \in Nat
      BY <1>3, <2>1, BoundAssumption, WordAssumption
      DEF IInv, MapsOK, IsMap, Interface, Unsigned
  <2>4. HistoryOK'
      BY <1>1, <1>3, <2>1, <2>2, <2>3, BoundAssumption
  <2>5. SinceInv'
      BY <1>1, <1>3, <2>1, <2>2, <2>3, BoundAssumption DEF maps
  <2> QED
      BY <1>2, <2>4, <2>5 DEF TrafficInv
<1> QED
    BY <1>4, <1>5, <1>6, <1>7

\* A reading takes over what has been counted.
LEMMA ReadingTraffic ==
    ASSUME IInv, TrafficInv, UNCHANGED attached, Reading,
           current' = Copy(current, attached)
    PROVE  /\ HistoryOK' /\ SinceInv'
           /\ \A n \in DOMAIN current \ broken' :
                current'[n].packets = current[n].packets + interval'[n]
<1>1. HistoryOK /\ SinceInv
    BY DEF TrafficInv
<1>2. HistoryOK'
    BY <1>1, BoundAssumption DEF HistoryOK, Reading
<1>3. /\ DOMAIN current' = DOMAIN current \cup DOMAIN attached
      /\ \A n \in DOMAIN attached : current'[n] = attached[n]
    BY DEF Copy
<1>4. SinceInv'
    BY <1>1, <1>3, BoundAssumption DEF SinceInv, HistoryOK, Reading
<1>5. \A n \in DOMAIN current \ broken' : n \in Iface \ cut /\ interval'[n] = since[n]
    BY <1>1 DEF HistoryOK, Reading, IInv, MapsOK, IsMap
<1> QED
    BY <1>1, <1>2, <1>3, <1>4, <1>5 DEF SinceInv

LEMMA NextTraffic == IInv /\ TrafficInv /\ [Next]_vars => TrafficInv'
<1> SUFFICES ASSUME IInv, TrafficInv, [Next]_vars PROVE TrafficInv'
    OBVIOUS
<1>1. ASSUME NEW n \in Iface, Attach(n) \/ Detach(n) \/ Configure(n) \/ Traffic(n)
      PROVE  TrafficInv'
    BY <1>1, KernelTraffic
<1>2. CASE ConstructorList
    BY <1>2, ReadingTraffic DEF ConstructorList, TrafficInv, IntervalInv, TrafficExact
<1>3. CASE BeginUpdate
    BY <1>3, BoundAssumption
    DEF BeginUpdate, TrafficInv, HistoryOK, SinceInv, IntervalInv, TrafficExact
<1>4. CASE List
  <2>1. /\ UNCHANGED <<attached, last, delta>> /\ Reading
        /\ current' = Copy(current, attached) /\ pc = "list" /\ pc' = "diff"
      BY <1>4 DEF List
  <2>2. \A n \in DOMAIN delta : n \in DOMAIN current /\ last[n] = current[n]
      BY <2>1 DEF IInv, LastIsCurrent, KeysNested
  <2> QED
      BY <2>1, <2>2, ReadingTraffic DEF TrafficInv, IntervalInv, TrafficExact
<1>5. CASE Diff
  <2>1. /\ UNCHANGED <<attached, current, last, history>>
        /\ pc = "diff" /\ pc' = "idle"
      BY <1>5 DEF Diff
  <2>2. /\ DOMAIN delta' = DOMAIN delta
        /\ \A n \in DOMAIN delta :
             delta'[n].packets = Minus(current[n].packets, last[n].packets)
      BY <1>5, DiffStep
  <2>3. ASSUME NEW n \in DOMAIN delta \ broken
        PROVE  Minus(current[n].packets, last[n].packets) = interval[n]
    <3>1. /\ current[n].packets \in Unsigned /\ last[n].packets \in Unsigned
          /\ n \in Iface
        BY <2>1 DEF IInv, MapsOK, IsMap, KeysNested, Interface
    <3>2. current[n].packets = last[n].packets + interval[n] /\ interval[n] \in Nat
        BY <2>1, <3>1, BoundAssumption DEF TrafficInv, IntervalInv, HistoryOK
    <3>3. last[n].packets \in 0..current[n].packets
        BY <3>1, <3>2, WordAssumption DEF Unsigned
    <3> QED
        BY <3>1, <3>2, <3>3, MinusExact, WordAssumption DEF Unsigned
  <2>4. TrafficExact'
      BY <2>1, <2>2, <2>3 DEF TrafficExact, history
  <2> QED
      BY <2>1, <2>4 DEF TrafficInv, HistoryOK, SinceInv, IntervalInv, history
<1>6. CASE SizeFails
    BY <1>6, SizeFailsStep
    DEF SizeFails, history, TrafficInv, HistoryOK, SinceInv, IntervalInv, TrafficExact
<1>7. CASE ConstructorSize \/ ListFails \/ UNCHANGED vars
    BY <1>7
    DEF ConstructorSize, ListFails, vars, maps, history,
        TrafficInv, HistoryOK, SinceInv, IntervalInv, TrafficExact
<1> QED
    BY <1>1, <1>2, <1>3, <1>4, <1>5, <1>6, <1>7 DEF Next, Monitor

\* What the history variables say of the counters, reading by reading.
THEOREM TrafficInvariant == Spec => []TrafficInv
BY InductiveInvariant, InitTraffic, NextTraffic, PTL DEF Spec

\* What is shown of an interface that stayed is the traffic it had between the
\* last two readings, whatever became of the others.
THEOREM TrafficExactHolds == Spec => []TrafficExact
<1>1. TrafficInv => TrafficExact
    BY DEF TrafficInv
<1> QED
    BY <1>1, TrafficInvariant, PTL

-----------------------------------------------------------------------------
(* Type correctness.                                                       *)

LenOK == len \in 0..Cardinality(Iface)

LEMMA NextLen == IInv /\ LenOK /\ [Next]_vars => LenOK'
<1> SUFFICES ASSUME IInv, LenOK, [Next]_vars PROVE LenOK'
    OBVIOUS
<1>1. Cardinality(Iface) \in Nat
    BY IfaceAssumption, FS_CardinalityType
<1>2. Cardinality(DOMAIN attached) \in 0..Cardinality(Iface)
  <2>1. DOMAIN attached \subseteq Iface
      BY DEF IInv, MapsOK, IsMap
  <2>2. IsFiniteSet(DOMAIN attached) /\ Cardinality(DOMAIN attached) <= Cardinality(Iface)
      BY <2>1, IfaceAssumption, FS_Subset
  <2> QED
      BY <1>1, <2>2, FS_CardinalityType
<1>3. len' \in {len, 0, Cardinality(DOMAIN attached)}
    BY DEF Next, Monitor, Attach, Detach, Configure, Traffic, ConstructorSize,
           ConstructorList, BeginUpdate, SizeFails, List, ListFails, Diff, SizeOfList, vars
<1> QED
    BY <1>1, <1>2, <1>3 DEF LenOK

\* All variables have their types in every reachable state.
THEOREM TypeCorrect == Spec => []TypeOK
<1>1. Init => LenOK
    BY IfaceAssumption, FS_CardinalityType DEF Init, LenOK
<1>2. IInv /\ TrafficInv /\ LenOK => TypeOK
    BY DEF IInv, MapsOK, IsMap, TrafficInv, HistoryOK, LenOK, TypeOK
<1> QED
    BY <1>1, <1>2, InductiveInvariant, TrafficInvariant, NextLen, PTL DEF Spec

=============================================================================
