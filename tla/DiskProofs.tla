----------------------------- MODULE DiskProofs -----------------------------
(***************************************************************************)
(* Theorems about Disk, for every set of drives, every size of the table   *)
(* and every width of the counters: the table stays sound in spite of the  *)
(* memmove() over its end, no lookup of update() misses, what is shown is  *)
(* the work that was done, and Disk implements Meter.                      *)
(***************************************************************************)
EXTENDS Disk, Lemmas, FiniteSetTheorems

-----------------------------------------------------------------------------
(* Sorting.  What qsort() does is said in terms of ranks; for that to make *)
(* sense, each of n different names has to have a rank of its own below n. *)

Names(t, n) == {t[s] : s \in 0..(n - 1)}
Rank(S, x)  == Cardinality({y \in S : y < x})

\* The first n slots of t hold different drives.
Distinct(t, n) ==
    /\ t \in [Slot -> Drive \cup {Garbage}]
    /\ n \in 0..MaxDrives
    /\ \A s \in 0..(n - 1) : t[s] \in Drive
    /\ \A s1, s2 \in 0..(n - 1) : t[s1] = t[s2] => s1 = s2

\* There are n slots below n.
LEMMA Indices ==
    ASSUME NEW n \in Nat
    PROVE  IsFiniteSet(0..(n - 1)) /\ Cardinality(0..(n - 1)) = n
<1>1. 0 \in Int /\ n - 1 \in Int
    OBVIOUS
<1>2. /\ IsFiniteSet(0..(n - 1))
      /\ Cardinality(0..(n - 1)) = IF 0 > n - 1 THEN 0 ELSE (n - 1) - 0 + 1
    BY <1>1, FS_Interval
<1> QED
    BY <1>2

\* There are as many names as slots.
LEMMA NamesFinite ==
    ASSUME NEW t, NEW n, Distinct(t, n)
    PROVE  /\ IsFiniteSet(Names(t, n)) /\ Cardinality(Names(t, n)) = n
           /\ Names(t, n) \subseteq Nat \ {0}
           /\ n \in Nat /\ 0..(n - 1) \subseteq Slot
<1> DEFINE f == [s \in 0..(n - 1) |-> t[s]]
<1>1. n \in Nat /\ 0..(n - 1) \subseteq Slot
    BY BoundAssumption DEF Distinct, Slot
<1>2. f \in Bijection(0..(n - 1), Names(t, n))
  <2>1. f \in [0..(n - 1) -> Names(t, n)]
      BY DEF Names
  <2>2. \A a, b \in DOMAIN f : f[a] = f[b] => a = b
      BY DEF Distinct
  <2>3. \A x \in Names(t, n) : \E s \in 0..(n - 1) : f[s] = x
      BY DEF Names
  <2> QED
      BY <2>1, <2>2, <2>3 DEF Bijection, Injection, Surjection, IsInjective
<1>3. IsFiniteSet(0..(n - 1)) /\ Cardinality(0..(n - 1)) = n
    BY <1>1, Indices
<1>4. ExistsBijection(0..(n - 1), Names(t, n))
    BY <1>2 DEF ExistsBijection
<1>5. Names(t, n) \subseteq Drive
    BY DEF Names, Distinct
<1> QED
  <2>1. IsFiniteSet(Names(t, n)) /\ Cardinality(Names(t, n)) = n
      BY <1>3, <1>4, FS_Bijection
  <2> QED
      BY <1>1, <1>5, <2>1, DriveAssumption

\* Of two names the smaller has the smaller rank.
LEMMA RankMonotone ==
    ASSUME NEW S \in SUBSET Nat, IsFiniteSet(S), NEW x \in S, NEW y \in S, x < y
    PROVE  Rank(S, x) < Rank(S, y)
<1> DEFINE Below(z) == {w \in S : w < z}
<1>1. IsFiniteSet(Below(y)) /\ Cardinality(Below(y)) \in Nat
    BY FS_Subset, FS_CardinalityType
<1>2. Below(x) \in SUBSET (Below(y) \ {x}) /\ x \in Below(y)
  <2>1. \A w \in S : w < x => w < y /\ w # x
      OBVIOUS
  <2> QED
      BY <2>1
<1>3. /\ IsFiniteSet(Below(y) \ {x})
      /\ Cardinality(Below(y) \ {x}) = Cardinality(Below(y)) - 1
    BY <1>1, <1>2, FS_RemoveElement
<1>4. Cardinality(Below(x)) <= Cardinality(Below(y) \ {x})
    BY <1>2, <1>3, FS_Subset
<1>5. Cardinality(Below(x)) \in Nat
    BY FS_Subset, FS_CardinalityType
<1> QED
    BY <1>1, <1>3, <1>4, <1>5 DEF Rank

\* Each number below n is the rank of exactly one of n names.
LEMMA RanksTaken ==
    ASSUME NEW S \in SUBSET Nat, IsFiniteSet(S), NEW n \in Nat, Cardinality(S) = n
    PROVE  /\ \A x \in S : Rank(S, x) \in 0..(n - 1)
           /\ \A r \in 0..(n - 1) : \E x \in S : Rank(S, x) = r
           /\ \A x, y \in S : Rank(S, x) = Rank(S, y) => x = y
<1> DEFINE f == [x \in S |-> Rank(S, x)]
<1>1. ASSUME NEW x \in S PROVE Rank(S, x) \in 0..(n - 1)
  <2>1. {y \in S : y < x} \in SUBSET (S \ {x})
      OBVIOUS
  <2>2. IsFiniteSet(S \ {x}) /\ Cardinality(S \ {x}) = n - 1
      BY FS_RemoveElement
  <2>3. Rank(S, x) <= n - 1 /\ IsFiniteSet({y \in S : y < x})
      BY <2>1, <2>2, FS_Subset DEF Rank
  <2>4. Rank(S, x) \in Nat
      BY <2>3, FS_CardinalityType DEF Rank
  <2> QED
      BY <2>3, <2>4
<1>2. ASSUME NEW x \in S, NEW y \in S, Rank(S, x) = Rank(S, y) PROVE x = y
  <2>1. x < y => Rank(S, x) < Rank(S, y)
      BY RankMonotone
  <2>2. y < x => Rank(S, y) < Rank(S, x)
      BY RankMonotone
  <2>3. Rank(S, x) \in Nat /\ x \in Nat /\ y \in Nat
      BY <1>1
  <2> QED
      BY <1>2, <2>1, <2>2, <2>3
<1>3. f \in Injection(S, 0..(n - 1))
  <2>1. f \in [S -> 0..(n - 1)]
      BY <1>1
  <2>2. \A a \in S : f[a] = Rank(S, a)
      OBVIOUS
  <2>3. \A a, b \in S : f[a] = f[b] => a = b
      BY <1>2, <2>2
  <2>4. IsInjective(f)
      BY <2>3 DEF IsInjective
  <2> QED
      BY <2>1, <2>4 DEF Injection
<1>4. IsFiniteSet(0..(n - 1)) /\ Cardinality(0..(n - 1)) = n
    BY Indices
<1>5. f \in Surjection(S, 0..(n - 1))
    BY <1>3, <1>4, FS_Injection
<1>6. ASSUME NEW r \in 0..(n - 1) PROVE \E x \in S : Rank(S, x) = r
    BY <1>5 DEF Surjection
<1> QED
    BY <1>1, <1>2, <1>6

\* Sorting keeps the names and puts them in order.
LEMMA SortedSound ==
    ASSUME NEW t, NEW n, Distinct(t, n)
    PROVE  /\ Distinct(Sorted(t, n), n)
           /\ Names(Sorted(t, n), n) = Names(t, n)
           /\ \A s1, s2 \in 0..(n - 1) : s1 < s2 => Sorted(t, n)[s1] < Sorted(t, n)[s2]
<1> DEFINE S == Names(t, n)
           u == Sorted(t, n)
<1>1. IsFiniteSet(S) /\ Cardinality(S) = n /\ S \in SUBSET Nat /\ n \in Nat /\ 0..(n - 1) \subseteq Slot
    BY NamesFinite
<1>2. u = [s \in Slot |-> IF s < n THEN CHOOSE x \in S : Rank(S, x) = s ELSE t[s]]
    BY DEF Sorted, Names, Rank
<1>3. /\ \A x \in S : Rank(S, x) \in 0..(n - 1)
      /\ \A r \in 0..(n - 1) : \E x \in S : Rank(S, x) = r
      /\ \A x, y \in S : Rank(S, x) = Rank(S, y) => x = y
    BY <1>1, RanksTaken
<1>4. \A s \in 0..(n - 1) : u[s] = (CHOOSE x \in S : Rank(S, x) = s)
    BY <1>1, <1>2
<1>5. ASSUME NEW s \in 0..(n - 1) PROVE u[s] \in S /\ Rank(S, u[s]) = s
  <2>1. \E x \in S : Rank(S, x) = s
      BY <1>3
  <2> QED
      BY <1>4, <2>1
<1>6. ASSUME NEW s1 \in 0..(n - 1), NEW s2 \in 0..(n - 1), s1 < s2 PROVE u[s1] < u[s2]
  <2>1. /\ u[s1] \in S /\ Rank(S, u[s1]) = s1 /\ u[s2] \in S /\ Rank(S, u[s2]) = s2
        /\ u[s1] \in Nat /\ u[s2] \in Nat
      BY <1>5, <1>1
  <2>2. u[s2] < u[s1] => s2 < s1
      BY <2>1, <1>1, RankMonotone
  <2> QED
      BY <1>6, <2>1, <2>2
<1>7. Names(u, n) = S
  <2>1. Names(u, n) \subseteq S
      BY <1>5 DEF Names
  <2>2. ASSUME NEW x \in S PROVE x \in Names(u, n)
    <3>1. Rank(S, x) \in 0..(n - 1)
        BY <1>3
    <3>2. u[Rank(S, x)] = x
        BY <3>1, <1>3, <1>5
    <3> QED
        BY <3>1, <3>2 DEF Names
  <2> QED
      BY <2>1, <2>2
<1>8. S \subseteq Drive
    BY DEF Names, Distinct
<1>9. Distinct(u, n)
  <2>1. \A s \in 0..(n - 1) : u[s] \in Drive
      BY <1>5, <1>8
  <2>2. \A s \in Slot : ~(s < n) => u[s] = t[s]
      BY <1>2
  <2>3. \A s \in Slot : s < n => s \in 0..(n - 1)
      BY <1>1 DEF Slot
  <2>4. \A s \in Slot : u[s] \in Drive \cup {Garbage}
      BY <2>1, <2>2, <2>3 DEF Distinct
  <2>5. u \in [Slot -> Drive \cup {Garbage}]
      BY <2>4, <1>2
  <2>6. \A s1, s2 \in 0..(n - 1) : u[s1] = u[s2] => s1 = s2
      BY <1>5
  <2>7. n \in 0..MaxDrives
      BY DEF Distinct
  <2> QED
      BY <2>1, <2>5, <2>6, <2>7 DEF Distinct
<1> QED
    BY <1>6, <1>7, <1>9

-----------------------------------------------------------------------------
(* The table.                                                              *)

\* Slots below num hold different block devices, and nothing waits to be
\* recorded twice.  What remove_drivelist() looks at has gone away.
TableInv ==
    /\ Distinct(table, num)
    /\ Listed \subseteq Block
    /\ pc \notin {"record", "exited"} =>
        \A s, t \in 0..(num - 1) : s < t => table[s] < table[t]
    /\ pc \in {"record", "remove", "ctorread", "constructed", "idle", "read", "exited"}
    /\ media \in [Drive -> {"ok", "nostats", "gone"}]
    /\ iter \subseteq Drive
    /\ pc = "record" => iter \cap Listed = {}
    /\ pc = "remove" => \A d \in iter : media[d] = "gone"

LEMMA TableSoundFollows == TableInv => TableSound
<1> SUFFICES ASSUME TableInv PROVE TableSound
    OBVIOUS
<1>1. num \in Nat /\ \A s1, s2 \in 0..(num - 1) : table[s1] = table[s2] => s1 = s2
    BY BoundAssumption DEF TableInv, Distinct
<1> QED
    BY <1>1 DEF TableInv, TableSound

\* Closing up the slots behind slot s takes out its drive and no other, though
\* the last slot of a full table is filled from behind the array.
LEMMA WithoutSound ==
    ASSUME Distinct(table, num), NEW s \in 0..(num - 1)
    PROVE  /\ Distinct(Without(s), num - 1)
           /\ Names(Without(s), num - 1) = Listed \ {table[s]}
<1> DEFINE w == Without(s)
<1>1. /\ num \in Nat \ {0} /\ MaxDrives \in Nat \ {0} /\ num <= MaxDrives
      /\ s \in Nat /\ s < num
      /\ table \in [Slot -> Drive \cup {Garbage}]
      /\ \A t \in 0..(num - 1) : table[t] \in Drive
      /\ \A s1, s2 \in 0..(num - 1) : table[s1] = table[s2] => s1 = s2
    BY BoundAssumption DEF Distinct
<1>2. ASSUME NEW t \in 0..(num - 1 - 1)
      PROVE  w[t] = IF t < s THEN table[t] ELSE table[t + 1]
  <2>1. CASE s = MaxDrives - 1
      BY <1>1, <2>1 DEF Without
  <2>2. CASE s # MaxDrives - 1
      BY <1>1, <2>2 DEF Without, Slot
  <2> QED
      BY <2>1, <2>2
<1>3. w \in [Slot -> Drive \cup {Garbage}]
  <2>1. CASE s = MaxDrives - 1
      BY <1>1, <2>1 DEF Without
  <2>2. CASE s # MaxDrives - 1
    <3>1. \A t \in Slot : t < MaxDrives - 1 => t + 1 \in Slot
        BY <1>1 DEF Slot
    <3> QED
        BY <1>1, <2>2, <3>1 DEF Without
  <2> QED
      BY <2>1, <2>2
<1>4. \A t \in 0..(num - 1 - 1) : w[t] \in Drive
    BY <1>1, <1>2
<1>5. \A s1, s2 \in 0..(num - 1 - 1) : w[s1] = w[s2] => s1 = s2
    BY <1>1, <1>2
<1>6. num - 1 \in 0..MaxDrives
    BY <1>1
<1>7. \A t \in 0..(num - 1 - 1) : w[t] \in Listed \ {table[s]}
    BY <1>1, <1>2 DEF Listed
<1>8. ASSUME NEW t \in 0..(num - 1), t # s PROVE table[t] \in Names(w, num - 1)
  <2>1. CASE t < s
      BY <1>1, <1>2, <2>1 DEF Names
  <2>2. CASE t > s
    <3>1. t - 1 \in 0..(num - 1 - 1) /\ ~(t - 1 < s) /\ (t - 1) + 1 = t
        BY <1>1, <2>2
    <3>2. w[t - 1] = table[t]
        BY <1>2, <3>1
    <3> QED
        BY <3>1, <3>2 DEF Names
  <2> QED
      BY <1>1, <1>8, <2>1, <2>2
<1> HIDE DEF w
<1>9. Distinct(w, num - 1)
    BY <1>3, <1>4, <1>5, <1>6 DEF Distinct
<1>10. Names(w, num - 1) = Listed \ {table[s]}
    BY <1>7, <1>8 DEF Names, Listed
<1> QED
    BY <1>9, <1>10 DEF w

LEMMA InitTable == Init => TableInv
<1> SUFFICES ASSUME Init PROVE TableInv
    OBVIOUS
<1>1. num = 0 /\ Listed = {}
    BY DEF Init, Listed
<1> QED
    BY <1>1, BoundAssumption DEF Init, TableInv, Distinct, Garbage

\* A step of the constructor, and what it does to the table.
LEMMA RecordTable == ASSUME TableInv, RecordDevice PROVE TableInv' /\ Listed \subseteq Listed'
<1>1. PICK d \in iter :
        /\ iter' = iter \ {d}
        /\ IF num < MaxDrives /\ d \in Block
           THEN table' = [table EXCEPT ![num] = d] /\ num' = num + 1
           ELSE UNCHANGED drives
    BY DEF RecordDevice
<1>2. pc = "record" /\ pc' = pc /\ media' = media
    BY DEF RecordDevice, registry
<1>3. d \in Drive /\ d \notin Listed /\ iter' \subseteq iter
    BY <1>1, <1>2 DEF TableInv
<1>4. CASE num < MaxDrives /\ d \in Block
  <2>1. num \in Nat /\ num \in Slot /\ num + 1 \in 0..MaxDrives /\ num' - 1 = num
      BY <1>1, <1>4, BoundAssumption DEF TableInv, Distinct, Slot
  <2>2. /\ table' \in [Slot -> Drive \cup {Garbage}]
        /\ table'[num] = d
        /\ \A s \in 0..(num - 1) : table'[s] = table[s]
    <3>1. table \in [Slot -> Drive \cup {Garbage}]
        BY DEF TableInv, Distinct
    <3>2. \A s \in 0..(num - 1) : s \in Slot /\ s # num
        BY <1>4, <2>1, BoundAssumption DEF Slot
    <3> QED
        BY <1>1, <1>3, <1>4, <2>1, <3>1, <3>2
  <2>3. \A s \in 0..num : s = num \/ s \in 0..(num - 1)
      BY <2>1
  <2>4. \A s \in 0..(num - 1) : table[s] \in Drive /\ table[s] # d
      BY <1>3 DEF TableInv, Distinct, Listed
  <2>5. Distinct(table', num')
    <3>1. \A s \in 0..num : table'[s] \in Drive
        BY <1>3, <2>2, <2>3, <2>4
    <3>2. \A s1, s2 \in 0..num : table'[s1] = table'[s2] => s1 = s2
        BY <2>2, <2>3, <2>4 DEF TableInv, Distinct
    <3> QED
        BY <1>1, <1>4, <2>1, <2>2, <3>1, <3>2 DEF Distinct
  <2>6. Listed' = Listed \cup {d}
      BY <2>1, <2>2, <2>3 DEF Listed
  <2> QED
      BY <1>1, <1>2, <1>3, <1>4, <2>5, <2>6 DEF TableInv
<1>5. CASE ~(num < MaxDrives /\ d \in Block)
    BY <1>1, <1>2, <1>3, <1>5 DEF TableInv, drives, Distinct, Listed
<1> QED
    BY <1>4, <1>5

LEMMA RecordEndsTable == ASSUME TableInv, RecordEnds PROVE TableInv' /\ Listed' = Listed
<1>1. table' = Sorted(table, num) /\ num' = num /\ media' = media
    BY DEF RecordEnds, registry
<1>2. \/ pc' = "remove" /\ iter' = {d \in Drive : media[d] = "gone"}
      \/ pc' = "exited" /\ iter' = iter
    BY DEF RecordEnds
<1>3. /\ Distinct(table', num')
      /\ Names(table', num') = Names(table, num)
      /\ \A s, t \in 0..(num' - 1) : s < t => table'[s] < table'[t]
    BY <1>1, SortedSound DEF TableInv
<1>4. Listed' = Listed
    BY <1>3 DEF Names, Listed
<1> QED
    BY <1>1, <1>2, <1>3, <1>4 DEF TableInv

LEMMA RemoveTable ==
    ASSUME TableInv, RemoveDrive
    PROVE  TableInv' /\ \A d \in Listed \ Listed' : media[d] = "gone"
<1>1. PICK d \in iter :
        /\ iter' = iter \ {d}
        /\ \/ \E s \in 0..(num - 1) :
                /\ table[s] = d
                /\ num' = num - 1
                /\ table' = Sorted(Without(s), num - 1)
           \/ UNCHANGED drives
    BY DEF RemoveDrive
<1>2. pc = "remove" /\ pc' = pc /\ media' = media
    BY DEF RemoveDrive, registry
<1>3. media[d] = "gone"
    BY <1>2 DEF TableInv
<1>4. ASSUME NEW s \in 0..(num - 1), table[s] = d, num' = num - 1,
             table' = Sorted(Without(s), num - 1)
      PROVE  TableInv' /\ Listed' = Listed \ {d}
  <2>1. Distinct(Without(s), num - 1) /\ Names(Without(s), num - 1) = Listed \ {d}
      BY <1>4, WithoutSound DEF TableInv
  <2>2. /\ Distinct(table', num')
        /\ Names(table', num') = Listed \ {d}
        /\ \A s1, s2 \in 0..(num' - 1) : s1 < s2 => table'[s1] < table'[s2]
      BY <1>4, <2>1, SortedSound
  <2>3. Listed' = Listed \ {d}
      BY <2>2 DEF Names, Listed
  <2> QED
      BY <1>1, <1>2, <2>2, <2>3 DEF TableInv
<1>5. CASE UNCHANGED drives
    BY <1>1, <1>2, <1>5 DEF TableInv, drives, Distinct, Listed
<1> QED
    BY <1>1, <1>3, <1>4, <1>5

\* No other step touches the table.
OtherSteps ==
    \/ \E d \in Drive : Work(d) \/ MediaChanges(d)
    \/ RecordAborts \/ RemoveEnds \/ ReadDrive \/ ConstructorEnds \/ BeginUpdate \/ Diff
    \/ UNCHANGED vars

LEMMA OtherTable == ASSUME TableInv, OtherSteps PROVE TableInv' /\ UNCHANGED Listed
<1>1. UNCHANGED drives /\ iter' = iter
    BY DEF OtherSteps, Work, MediaChanges, RecordAborts, RemoveEnds, ReadDrive,
           ConstructorEnds, BeginUpdate, UpdateBegins, Diff, vars
<1>2. UNCHANGED Listed /\ Distinct(table', num')
    BY <1>1 DEF Listed, drives, TableInv, Distinct
<1>3. /\ pc' \notin {"record", "exited"} => pc \notin {"record", "exited"}
      /\ pc' \in {"record", "remove"} => pc' = pc
      /\ pc' \in {pc, "exited", "ctorread", "constructed", "idle", "read"}
    BY DEF OtherSteps, Work, MediaChanges, RecordAborts, RemoveEnds, ReadDrive,
           ConstructorEnds, BeginUpdate, UpdateBegins, Diff, vars
<1>4. /\ media' \in [Drive -> {"ok", "nostats", "gone"}]
      /\ \A d \in Drive : media[d] = "gone" => media'[d] = "gone"
  <2>1. UNCHANGED media \/ \E d \in Drive : MediaChanges(d)
      BY DEF OtherSteps, Work, RecordAborts, RemoveEnds, ReadDrive,
             ConstructorEnds, BeginUpdate, UpdateBegins, Diff, vars, registry
  <2> QED
      BY <2>1 DEF MediaChanges, TableInv
<1> QED
    BY <1>1, <1>2, <1>3, <1>4 DEF TableInv, drives

LEMMA NextTable ==
    TableInv /\ [Next]_vars =>
        /\ TableInv'
        /\ \A d \in Listed \ Listed' : media[d] = "gone"
        /\ Listed \subseteq Listed' \/ pc = "remove"
<1> SUFFICES ASSUME TableInv, [Next]_vars
             PROVE  /\ TableInv'
                    /\ \A d \in Listed \ Listed' : media[d] = "gone"
                    /\ Listed \subseteq Listed' \/ pc = "remove"
    OBVIOUS
<1>1. CASE RecordDevice
    BY <1>1, RecordTable
<1>2. CASE RecordEnds
    BY <1>2, RecordEndsTable
<1>3. CASE RemoveDrive
    BY <1>3, RemoveTable DEF RemoveDrive
<1>4. CASE OtherSteps
    BY <1>4, OtherTable
<1> QED
    BY <1>1, <1>2, <1>3, <1>4 DEF Next, Monitor, OtherSteps

\* The table of drives is what the rest of the component takes it for.
THEOREM TableInvariant == Spec => []TableInv
BY InitTable, NextTable, PTL DEF Spec

\* Whatever MAXDRIVES is, however many drives there are and whichever of them
\* go away while the constructor looks, the slots in use hold different block
\* devices, in order.
THEOREM TableSoundHolds == Spec => []TableSound
BY TableInvariant, TableSoundFollows, PTL

\* No drive is lost with another one's slot.
THEOREM OnlyGoneRemovedHolds == Spec => OnlyGoneRemoved
<1>1. TableInv /\ [Next]_vars => [\A d \in Listed \ Listed' : media[d] = "gone"]_vars
    BY NextTable
<1> QED
    BY <1>1, TableInvariant, PTL DEF Spec, OnlyGoneRemoved

-----------------------------------------------------------------------------
(* The maps.                                                               *)

IsMap(m) == DOMAIN m \subseteq Drive /\ m \in [DOMAIN m -> Unsigned]

\* Until a drive is reached in update()'s reading, last and current agree on
\* it; a reading that passes it over leaves them so.
LastIsCurrent ==
    pc = "read" =>
        \A s \in i..(num - 1) : table[s] \in DOMAIN delta => last[table[s]] = current[table[s]]

MapsInv ==
    /\ IsMap(current) /\ IsMap(last) /\ IsMap(delta)
    /\ DOMAIN current \subseteq Listed
    /\ KeysNested
    /\ pc \in {"record", "remove", "exited"} => DOMAIN current = {}
    /\ pc \in {"record", "remove", "exited", "ctorread"} => DOMAIN last = {} /\ DOMAIN delta = {}
    /\ work \in [Drive -> 0..MaxWork]
    /\ i \in 0..num
    /\ pc \notin {"ctorread", "read"} => i = 0
    /\ LastIsCurrent

IInv == TableInv /\ MapsInv

\* copy() yields a map of the two maps' entries.
LEMMA CopyType ==
    ASSUME NEW dst, NEW src, IsMap(dst), IsMap(src)
    PROVE  /\ IsMap(Copy(dst, src))
           /\ DOMAIN Copy(dst, src) = DOMAIN dst \cup DOMAIN src
           /\ \A d \in DOMAIN src : Copy(dst, src)[d] = src[d]
<1>1. \A k \in DOMAIN dst \cup DOMAIN src :
        (IF k \in DOMAIN src THEN src[k] ELSE dst[k]) \in Unsigned
    BY DEF IsMap
<1>2. Copy(dst, src) \in [DOMAIN dst \cup DOMAIN src -> Unsigned]
    BY <1>1 DEF Copy
<1> QED
    BY <1>2 DEF IsMap, Copy

LEMMA InitMaps == Init => MapsInv
<1> SUFFICES ASSUME Init PROVE MapsInv
    OBVIOUS
<1>1. IsMap(Empty) /\ DOMAIN Empty = {}
    BY DEF IsMap, Empty
<1>2. i \in 0..num /\ work \in [Drive -> 0..MaxWork]
    BY BoundAssumption DEF Init
<1> QED
    BY <1>1, <1>2 DEF Init, MapsInv, KeysNested, LastIsCurrent

\* The registry moves on without the maps.
LEMMA RegistryMaps ==
    ASSUME IInv, NEW d \in Drive, Work(d) \/ MediaChanges(d)
    PROVE  MapsInv' /\ UNCHANGED <<drives, maps, pc, i, interval, cut, broken>>
<1>1. UNCHANGED <<drives, maps, pc, i, interval, cut, broken>>
    BY DEF Work, MediaChanges, history
<1>2. work' \in [Drive -> 0..MaxWork]
    BY BoundAssumption DEF Work, MediaChanges, IInv, MapsInv
<1> QED
    BY <1>1, <1>2 DEF IInv, MapsInv, KeysNested, LastIsCurrent, drives, maps, Listed

\* So does the constructor while it makes the table.
Recording == RecordDevice \/ RecordAborts \/ RecordEnds \/ RemoveDrive \/ RemoveEnds

LEMMA RecordingMaps ==
    ASSUME IInv, TableInv', Recording
    PROVE  MapsInv' /\ UNCHANGED <<registry, maps, i, history>> /\ DOMAIN delta = {}
<1>1. /\ UNCHANGED <<registry, maps, i, history>>
      /\ pc \in {"record", "remove"}
      /\ pc' \in {"record", "remove", "exited", "ctorread"}
    BY DEF Recording, RecordDevice, RecordAborts, RecordEnds, RemoveDrive, RemoveEnds
<1>2. i = 0 /\ DOMAIN current = {} /\ DOMAIN last = {} /\ DOMAIN delta = {}
    BY <1>1 DEF IInv, MapsInv
<1>3. i' \in 0..num'
    BY <1>1, <1>2, BoundAssumption DEF TableInv, Distinct
<1> QED
    BY <1>1, <1>2, <1>3 DEF IInv, MapsInv, KeysNested, LastIsCurrent, maps, registry

\* One drive is read, at the slot i, and every other keeps its entry.
LEMMA ReadDriveMaps ==
    ASSUME IInv, ReadDrive
    PROVE  /\ MapsInv'
           /\ table[i] \in Listed
           /\ \A s \in 0..(num - 1) : s # i => table[s] # table[i]
           /\ DOMAIN current \subseteq DOMAIN current'
           /\ \A d \in DOMAIN current : d # table[i] => current'[d] = current[d]
<1> DEFINE d == table[i]
<1>1. /\ UNCHANGED <<registry, drives, last, delta, pc>>
      /\ pc \in {"ctorread", "read"} /\ i < num /\ i' = i + 1
    BY DEF ReadDrive
<1>2. num \in Nat /\ i \in 0..(num - 1) /\ i' \in 0..num
    BY <1>1, BoundAssumption DEF IInv, MapsInv, TableInv, Distinct
<1>3. d \in Listed /\ d \in Drive /\ \A s \in 0..(num - 1) : s # i => table[s] # d
    BY <1>2 DEF IInv, TableInv, Distinct, Listed
<1>4. current' = current \/ \E v \in Unsigned : current' = Put(current, d, v)
  <2>1. work[d] \in Unsigned /\ 0 \in Unsigned
      BY <1>3, BoundAssumption, WordAssumption DEF IInv, MapsInv, Unsigned
  <2> QED
      BY <2>1 DEF ReadDrive
<1>5. /\ IsMap(current')
      /\ DOMAIN current \subseteq DOMAIN current'
      /\ DOMAIN current' \subseteq Listed
      /\ \A x \in DOMAIN current : x # d => current'[x] = current[x]
    BY <1>3, <1>4 DEF IInv, MapsInv, IsMap, Put
<1>6. LastIsCurrent'
  <2>1. ASSUME pc = "read", NEW s \in (i + 1)..(num - 1), table[s] \in DOMAIN delta
        PROVE  last[table[s]] = current'[table[s]]
    <3>1. s \in i..(num - 1) /\ s \in 0..(num - 1) /\ s # i
        BY <1>2, <2>1
    <3>2. table[s] \in DOMAIN current
        BY <2>1 DEF IInv, MapsInv, KeysNested
    <3> QED
        BY <1>3, <1>5, <2>1, <3>1, <3>2 DEF IInv, MapsInv, LastIsCurrent
  <2> QED
      BY <1>1, <2>1 DEF LastIsCurrent, drives
<1>7. MapsInv'
    BY <1>1, <1>2, <1>5, <1>6 DEF IInv, MapsInv, KeysNested, drives, registry, Listed
<1> QED
    BY <1>3, <1>5, <1>7

LEMMA ConstructorEndsMaps == ASSUME IInv, ConstructorEnds PROVE MapsInv'
<1>1. /\ UNCHANGED <<registry, drives, current>>
      /\ last' = Copy(last, current) /\ delta' = Copy(delta, current)
      /\ pc = "ctorread" /\ pc' = "constructed" /\ i' = 0
    BY DEF ConstructorEnds
<1>2. IsMap(current) /\ IsMap(last) /\ IsMap(delta) /\ DOMAIN last = {} /\ DOMAIN delta = {}
    BY <1>1 DEF IInv, MapsInv
<1>3. IsMap(last') /\ DOMAIN last' = DOMAIN current
  <2>1. IsMap(Copy(last, current)) /\ DOMAIN Copy(last, current) = DOMAIN last \cup DOMAIN current
      BY <1>2, CopyType
  <2> QED
      BY <1>1, <1>2, <2>1
<1>4. IsMap(delta') /\ DOMAIN delta' = DOMAIN current
  <2>1. IsMap(Copy(delta, current)) /\ DOMAIN Copy(delta, current) = DOMAIN delta \cup DOMAIN current
      BY <1>2, CopyType
  <2> QED
      BY <1>1, <1>2, <2>1
<1>5. i' \in 0..num'
    BY <1>1, BoundAssumption DEF IInv, TableInv, Distinct, drives
<1> QED
    BY <1>1, <1>3, <1>4, <1>5 DEF IInv, MapsInv, KeysNested, LastIsCurrent, drives, registry, Listed

LEMMA BeginUpdateMaps ==
    ASSUME IInv, BeginUpdate
    PROVE  /\ MapsInv'
           /\ \A d \in DOMAIN delta : last'[d] = current[d]
<1>1. /\ UNCHANGED <<registry, drives, current, delta, i>>
      /\ last' = Copy(last, current)
      /\ pc \in {"constructed", "idle"} /\ pc' = "read"
    BY DEF BeginUpdate, UpdateBegins
<1>2. /\ IsMap(last')
      /\ DOMAIN last' = DOMAIN last \cup DOMAIN current
      /\ \A d \in DOMAIN current : last'[d] = current[d]
  <2>1. IsMap(last) /\ IsMap(current)
      BY DEF IInv, MapsInv
  <2>2. /\ IsMap(Copy(last, current))
        /\ DOMAIN Copy(last, current) = DOMAIN last \cup DOMAIN current
        /\ \A d \in DOMAIN current : Copy(last, current)[d] = current[d]
      BY <2>1, CopyType
  <2> QED
      BY <1>1, <2>2
<1>3. DOMAIN delta \subseteq DOMAIN last /\ DOMAIN last \subseteq DOMAIN current
    BY <1>1 DEF IInv, MapsInv, KeysNested
<1>4. LastIsCurrent'
    BY <1>1, <1>2, <1>3 DEF LastIsCurrent, drives
<1> QED
    BY <1>1, <1>2, <1>3, <1>4 DEF IInv, MapsInv, KeysNested, drives, registry, Listed

LEMMA DiffMaps ==
    ASSUME IInv, Diff
    PROVE  /\ MapsInv'
           /\ DOMAIN delta' = DOMAIN delta
           /\ \A d \in DOMAIN delta : delta'[d] = Minus(current[d], last[d])
<1>1. /\ UNCHANGED <<registry, drives, current, last>>
      /\ delta' = [d \in DOMAIN delta |-> Minus(current[d], last[d])]
      /\ pc = "read" /\ pc' = "idle" /\ i' = 0
    BY DEF Diff, Difference
<1>2. \A d \in DOMAIN delta : current[d] \in Unsigned /\ last[d] \in Unsigned
    BY <1>1 DEF IInv, MapsInv, KeysNested, IsMap
<1>3. \A d \in DOMAIN delta : Minus(current[d], last[d]) \in Unsigned
    BY <1>2, MinusType
<1>4. IsMap(delta') /\ DOMAIN delta' = DOMAIN delta
    BY <1>1, <1>3 DEF IInv, MapsInv, IsMap
<1>5. i' \in 0..num'
    BY <1>1, BoundAssumption DEF IInv, TableInv, Distinct, drives
<1> QED
    BY <1>1, <1>4, <1>5 DEF IInv, MapsInv, KeysNested, LastIsCurrent, drives, registry, Listed

LEMMA NextMaps == IInv /\ TableInv' /\ [Next]_vars => MapsInv'
<1> SUFFICES ASSUME IInv, TableInv', [Next]_vars PROVE MapsInv'
    OBVIOUS
<1>1. ASSUME NEW d \in Drive, Work(d) \/ MediaChanges(d) PROVE MapsInv'
    BY <1>1, RegistryMaps
<1>2. CASE Recording
    BY <1>2, RecordingMaps
<1>3. CASE ReadDrive
    BY <1>3, ReadDriveMaps
<1>4. CASE ConstructorEnds
    BY <1>4, ConstructorEndsMaps
<1>5. CASE BeginUpdate
    BY <1>5, BeginUpdateMaps
<1>6. CASE Diff
    BY <1>6, DiffMaps
<1>7. CASE UNCHANGED vars
    BY <1>7 DEF vars, maps, drives, registry, IInv, MapsInv, KeysNested, LastIsCurrent, Listed
<1> QED
    BY <1>1, <1>2, <1>3, <1>4, <1>5, <1>6, <1>7 DEF Next, Monitor, Recording

\* The table and the maps agree as far as the next step relies on it.
THEOREM InductiveInvariant == Spec => []IInv
<1>1. Init => IInv
    BY InitTable, InitMaps DEF IInv
<1>2. IInv /\ [Next]_vars => IInv'
    BY NextTable, NextMaps DEF IInv
<1> QED
    BY <1>1, <1>2, PTL DEF Spec

\* update() finds every name it looks up: no drive whose properties could not
\* be had makes it dereference a null pointer.
THEOREM KeysNestedHolds == Spec => []KeysNested
<1>1. IInv => KeysNested
    BY DEF IInv, MapsInv
<1> QED
    BY <1>1, InductiveInvariant, PTL

-----------------------------------------------------------------------------
(* Disk implements Meter.                                                  *)

Base == [d \in DOMAIN delta |-> BaseOf(d)]

\* What the refinement mapping yields has the types Meter asks for.
MappingOK ==
    /\ DOMAIN delta \subseteq Drive
    /\ Base \in [DOMAIN delta -> Unsigned]
    /\ delta \in [DOMAIN delta -> Unsigned]

LEMMA MappingType == IInv => MappingOK
<1> SUFFICES ASSUME IInv PROVE MappingOK
    OBVIOUS
<1>1. \A d \in DOMAIN delta :
        current[d] \in Unsigned /\ (pc = "read" => last[d] \in Unsigned)
    BY DEF IInv, TableInv, MapsInv, IsMap, KeysNested
<1>2. \A d \in DOMAIN delta : BaseOf(d) \in Unsigned
    BY <1>1 DEF BaseOf
<1> QED
    BY <1>2 DEF MappingOK, Base, IInv, MapsInv, IsMap

\* When neither map changes in what delta shows, Meter stutters.
LEMMA SameMapping ==
    ASSUME UNCHANGED delta, \A d \in DOMAIN delta : BaseOf(d)' = BaseOf(d)
    PROVE  UNCHANGED <<Base, delta>>
BY DEF Base

LEMMA RefinesInit == Init => Abstract!Init
BY DEF Init, Empty, Abstract!Init

LEMMA RefinesNext == IInv /\ IInv' /\ [Next]_vars => [Abstract!Next]_(Abstract!vars)
<1> SUFFICES ASSUME IInv, IInv', [Next]_vars
             PROVE  Abstract!Next \/ UNCHANGED <<Base, delta>>
    BY DEF Abstract!vars, Base
<1>1. ASSUME NEW d \in Drive, Work(d) \/ MediaChanges(d)
      PROVE  UNCHANGED <<Base, delta>>
    BY <1>1, RegistryMaps, SameMapping DEF BaseOf, maps
<1>2. CASE Recording
    BY <1>2, RecordingMaps, SameMapping DEF IInv, maps
<1>3. CASE ReadDrive
  <2>1. UNCHANGED <<last, delta, pc>> /\ (pc = "read" \/ DOMAIN delta = {})
      BY <1>3 DEF ReadDrive, IInv, MapsInv
  <2> QED
      BY <2>1, SameMapping DEF BaseOf
<1>4. CASE ConstructorEnds
  <2>1. DOMAIN Base = {}
      BY <1>4 DEF ConstructorEnds, IInv, MapsInv, Base
  <2>2. MappingOK'
      BY MappingType, PTL
  <2>3. Abstract!Start
      BY <2>1, <2>2 DEF MappingOK, Abstract!Start, Abstract!Unsigned, Unsigned, Base
  <2> QED
      BY <2>3 DEF Abstract!Next
<1>5. CASE BeginUpdate
    BY <1>5, BeginUpdateMaps, SameMapping DEF BeginUpdate, UpdateBegins, BaseOf
<1>6. CASE Diff
  <2>1. /\ DOMAIN delta' = DOMAIN delta
        /\ \A d \in DOMAIN delta : delta'[d] = Minus(current[d], last[d])
        /\ delta' = [d \in DOMAIN delta |-> delta'[d]]
      BY <1>6, DiffMaps DEF Diff
  <2>2. pc = "read" /\ pc' = "idle" /\ UNCHANGED <<current, last>>
      BY <1>6 DEF Diff
  <2>3. \A d \in DOMAIN delta : BaseOf(d) = last[d] /\ BaseOf(d)' = current[d]
      BY <2>2 DEF BaseOf
  <2>4. Base' \in [DOMAIN Base -> Unsigned]
    <3>1. MappingOK'
        BY MappingType, PTL
    <3> QED
        BY <2>1, <3>1 DEF MappingOK, Base
  <2>5. delta' = [d \in DOMAIN Base |-> Minus(Base'[d], Base[d])]
      BY <2>1, <2>3 DEF Base
  <2> QED
      BY <2>4, <2>5
      DEF Abstract!Next, Abstract!Refresh, Abstract!Minus, Abstract!Unsigned,
          Minus, Unsigned, Base
<1>7. CASE UNCHANGED vars
    BY <1>7, SameMapping DEF BaseOf, maps, vars
<1> QED
    BY <1>1, <1>2, <1>3, <1>4, <1>5, <1>6, <1>7 DEF Next, Monitor, Recording

\* Every refresh of Disk is a refresh of Meter, also when drives go away or
\* lose their statistics in the middle of a reading.
THEOREM MetersDrivesHolds == Spec => MetersDrives
BY InductiveInvariant, RefinesInit, RefinesNext, PTL DEF Spec, MetersDrives, Abstract!Spec

-----------------------------------------------------------------------------
(* What is shown is the work that was done.                                *)

HistoryOK ==
    /\ since \in [Drive -> 0..MaxWork] /\ interval \in [Drive -> 0..MaxWork]
    /\ cut \subseteq Drive /\ broken \subseteq Drive /\ missed \subseteq Drive
    /\ \A d \in Drive : since[d] <= work[d]

\* A drive whose stored reading is its counter has worked on from there.
SinceInv == \A d \in Drive \ cut : d \in DOMAIN current /\ work[d] = current[d] + since[d]

\* The same of the interval between the last two readings, for the drives
\* update()'s reading has reached.
IntervalInv ==
    pc = "read" =>
        \A s \in 0..(i - 1) :
            table[s] \in DOMAIN delta \ broken =>
                current[table[s]] = last[table[s]] + interval[table[s]]

ActivityInv == HistoryOK /\ SinceInv /\ IntervalInv /\ ActivityExact

LEMMA InitActivity == Init => ActivityInv
BY BoundAssumption DEF Init, ActivityInv, HistoryOK, SinceInv, IntervalInv, ActivityExact

LEMMA RegistryActivity ==
    ASSUME IInv, ActivityInv, NEW d \in Drive, Work(d) \/ MediaChanges(d)
    PROVE  ActivityInv'
<1>1. UNCHANGED <<drives, maps, pc, i, interval, cut, broken, missed>>
    BY DEF Work, MediaChanges, history
<1>2. IntervalInv' /\ ActivityExact'
    BY <1>1 DEF ActivityInv, IntervalInv, ActivityExact, drives, maps
<1>3. work \in [Drive -> 0..MaxWork]
    BY DEF IInv, MapsInv
<1>4. CASE Work(d)
  <2>1. work' = [work EXCEPT ![d] = @ + 1] /\ since' = [since EXCEPT ![d] = @ + 1]
        /\ work[d] < MaxWork
      BY <1>4 DEF Work
  <2>2. HistoryOK'
      BY <1>1, <1>3, <2>1, BoundAssumption DEF ActivityInv, HistoryOK
  <2>3. ASSUME NEW x \in Drive \ cut PROVE x \in DOMAIN current /\ work'[x] = current[x] + since'[x]
    <3>1. /\ x \in DOMAIN current /\ work[x] = current[x] + since[x]
          /\ current[x] \in Nat /\ since[x] \in Nat /\ work[x] \in Nat
        BY <1>3, WordAssumption, BoundAssumption
        DEF ActivityInv, HistoryOK, SinceInv, IInv, MapsInv, IsMap, Unsigned
    <3>2. since \in [Drive -> 0..MaxWork]
        BY DEF ActivityInv, HistoryOK
    <3> QED
        BY <1>3, <2>1, <3>1, <3>2
  <2>4. SinceInv'
      BY <1>1, <2>3 DEF SinceInv, maps
  <2> QED
      BY <1>2, <2>2, <2>4 DEF ActivityInv
<1>5. CASE MediaChanges(d)
    BY <1>1, <1>2, <1>5
    DEF MediaChanges, ActivityInv, HistoryOK, SinceInv, history, maps
<1> QED
    BY <1>4, <1>5

\* Reading the drive at slot i.
LEMMA ReadDriveActivity == ASSUME IInv, ActivityInv, ReadDrive PROVE ActivityInv'
<1> DEFINE d == table[i]
<1>1. /\ UNCHANGED <<registry, drives, last, delta, pc>>
      /\ i < num /\ i' = i + 1 /\ pc \in {"ctorread", "read"}
    BY DEF ReadDrive
<1>2. /\ num \in Nat /\ i \in 0..(num - 1)
      /\ d \in Drive /\ \A s \in 0..(num - 1) : s # i => table[s] # d
    BY <1>1, BoundAssumption DEF IInv, MapsInv, TableInv, Distinct
<1>3. /\ work[d] \in 0..MaxWork /\ since \in [Drive -> 0..MaxWork] /\ interval \in [Drive -> 0..MaxWork]
      /\ cut \subseteq Drive /\ broken \subseteq Drive /\ missed \subseteq Drive
    BY <1>2 DEF IInv, MapsInv, ActivityInv, HistoryOK
<1>4. HistoryOK'
  <2>1. since' \in [Drive -> 0..MaxWork] /\ interval' \in [Drive -> 0..MaxWork]
      BY <1>2, <1>3, BoundAssumption DEF ReadDrive
  <2>2. \A x \in Drive : since'[x] <= since[x]
      BY <1>2, <1>3, BoundAssumption DEF ReadDrive
  <2>3. \A x \in Drive : since'[x] <= work'[x]
    <3>1. \A x \in Drive : /\ since[x] <= work[x] /\ work' = work
                           /\ since[x] \in Nat /\ since'[x] \in Nat /\ work[x] \in Nat
        BY <1>1, <1>3, <2>1, BoundAssumption DEF ActivityInv, HistoryOK, registry, IInv, MapsInv
    <3> QED
        BY <2>2, <3>1
  <2>4. cut' \subseteq Drive /\ broken' \subseteq Drive /\ missed' \subseteq Drive
      BY <1>2, <1>3 DEF ReadDrive
  <2> QED
      BY <2>1, <2>3, <2>4 DEF HistoryOK
<1>5. SinceInv /\ (pc = "read" => IntervalInv /\ LastIsCurrent)
    BY DEF ActivityInv, IInv, MapsInv
<1>6. CASE media[d] = "gone"
  <2>1. UNCHANGED <<current, since, interval, cut, work>> /\ broken' = broken \cup {d}
      BY <1>1, <1>6 DEF ReadDrive, registry
  <2>2. SinceInv'
      BY <1>5, <2>1 DEF SinceInv
  <2>3. ASSUME pc = "read", NEW s \in 0..i, table[s] \in DOMAIN delta \ broken'
        PROVE  current[table[s]] = last[table[s]] + interval[table[s]]
    <3>1. s \in 0..(i - 1)
        BY <1>2, <2>1, <2>3
    <3> QED
        BY <1>5, <2>1, <2>3, <3>1 DEF IntervalInv
  <2>4. IntervalInv'
      BY <1>1, <1>2, <2>1, <2>3 DEF IntervalInv, drives
  <2> QED
      BY <1>1, <1>4, <2>2, <2>4 DEF ActivityInv, ActivityExact
<1>7. CASE media[d] # "gone"
  <2>1. /\ current' = Put(current, d, IF media[d] = "ok" THEN work[d] ELSE 0)
        /\ interval' = [interval EXCEPT ![d] = since[d]]
        /\ since' = [since EXCEPT ![d] = 0]
        /\ cut' = IF media[d] = "ok" THEN cut \ {d} ELSE cut \cup {d}
        /\ broken' = IF d \in cut \cup cut' THEN broken \cup {d} ELSE broken \ {d}
        /\ work' = work
      BY <1>1, <1>7 DEF ReadDrive, registry
  <2>2. /\ DOMAIN current' = DOMAIN current \cup {d}
        /\ current'[d] = IF media[d] = "ok" THEN work[d] ELSE 0
        /\ \A x \in DOMAIN current : x # d => current'[x] = current[x]
      BY <2>1 DEF Put
  <2>3. interval'[d] = since[d] /\ since'[d] = 0
      BY <1>2, <1>3, <2>1
  <2>4. SinceInv'
    <3>1. ASSUME NEW x \in Drive \ cut' PROVE x \in DOMAIN current' /\ work[x] = current'[x] + since'[x]
      <4>1. CASE x = d
        <5>1. media[d] = "ok"
            BY <2>1, <3>1, <4>1
        <5> QED
            BY <1>3, <2>2, <2>3, <4>1, <5>1, BoundAssumption
      <4>2. CASE x # d
        <5>1. x \in Drive \ cut /\ since'[x] = since[x]
            BY <1>3, <2>1, <3>1, <4>2
        <5> QED
            BY <1>5, <2>2, <4>2, <5>1 DEF SinceInv
      <4> QED
          BY <4>1, <4>2
    <3> QED
        BY <2>1, <3>1 DEF SinceInv
  <2>5. ASSUME pc = "read", NEW s \in 0..i, table[s] \in DOMAIN delta \ broken'
        PROVE  current'[table[s]] = last[table[s]] + interval'[table[s]]
    <3>1. CASE s = i
      <4>1. d \notin cut /\ media[d] = "ok"
          BY <2>1, <2>5, <3>1
      <4>2. work[d] = current[d] + since[d]
          BY <1>2, <1>5, <4>1 DEF SinceInv
      <4>3. last[d] = current[d]
          BY <1>2, <1>5, <2>5, <3>1 DEF LastIsCurrent
      <4> QED
          BY <2>2, <2>3, <3>1, <4>1, <4>2, <4>3
    <3>2. CASE s # i
      <4>1. s \in 0..(i - 1) /\ table[s] # d /\ table[s] \in DOMAIN delta \ broken
          BY <1>2, <2>1, <2>5, <3>2
      <4>2. table[s] \in Drive /\ table[s] \in DOMAIN current
          BY <2>5, <4>1 DEF IInv, MapsInv, KeysNested, IsMap
      <4>3. interval'[table[s]] = interval[table[s]]
          BY <1>3, <2>1, <4>1, <4>2
      <4>4. current[table[s]] = last[table[s]] + interval[table[s]]
          BY <1>5, <2>5, <4>1 DEF IntervalInv
      <4> QED
          BY <2>2, <4>1, <4>2, <4>3, <4>4
    <3> QED
        BY <3>1, <3>2
  <2>6. IntervalInv'
      BY <1>1, <1>2, <2>5 DEF IntervalInv, drives
  <2> QED
      BY <1>1, <1>4, <2>4, <2>6 DEF ActivityInv, ActivityExact
<1> QED
    BY <1>6, <1>7

LEMMA DiffActivity == ASSUME IInv, ActivityInv, Diff PROVE ActivityInv'
<1>1. /\ UNCHANGED <<registry, current, last, history>>
      /\ pc = "read" /\ pc' = "idle" /\ i = num
    BY DEF Diff
<1>2. /\ DOMAIN delta' = DOMAIN delta
      /\ \A d \in DOMAIN delta : delta'[d] = Minus(current[d], last[d])
    BY DiffMaps
<1>3. ASSUME NEW d \in DOMAIN delta \ broken PROVE delta'[d] = interval[d]
  <2>1. /\ current[d] \in Unsigned /\ last[d] \in Unsigned
        /\ d \in Drive /\ d \in Listed
      BY <1>1 DEF IInv, MapsInv, KeysNested, IsMap
  <2>2. PICK s \in 0..(num - 1) : table[s] = d
      BY <2>1 DEF Listed
  <2>3. current[d] = last[d] + interval[d] /\ interval[d] \in Nat
      BY <1>1, <2>1, <2>2, BoundAssumption DEF ActivityInv, IntervalInv, HistoryOK
  <2>4. last[d] \in 0..current[d]
      BY <2>1, <2>3, WordAssumption DEF Unsigned
  <2>5. Minus(current[d], last[d]) = current[d] - last[d]
      BY <2>1, <2>4, MinusExact
  <2> QED
      BY <1>2, <2>1, <2>3, <2>5, WordAssumption DEF Unsigned
<1> QED
    BY <1>1, <1>2, <1>3
    DEF ActivityInv, HistoryOK, SinceInv, IntervalInv, ActivityExact, history, registry

LEMMA NextActivity == IInv /\ ActivityInv /\ TableInv' /\ [Next]_vars => ActivityInv'
<1> SUFFICES ASSUME IInv, ActivityInv, TableInv', [Next]_vars PROVE ActivityInv'
    OBVIOUS
<1>1. ASSUME NEW d \in Drive, Work(d) \/ MediaChanges(d) PROVE ActivityInv'
    BY <1>1, RegistryActivity
<1>2. CASE Recording
  <2>1. UNCHANGED <<registry, maps, i, history>> /\ pc' \notin {"read", "idle"}
      BY <1>2, RecordingMaps
      DEF Recording, RecordDevice, RecordAborts, RecordEnds, RemoveDrive, RemoveEnds
  <2> QED
      BY <2>1
      DEF ActivityInv, HistoryOK, SinceInv, IntervalInv, ActivityExact, history, registry, maps
<1>3. CASE ReadDrive
    BY <1>3, ReadDriveActivity
<1>4. CASE ConstructorEnds
    BY <1>4
    DEF ConstructorEnds, ActivityInv, HistoryOK, SinceInv, IntervalInv, ActivityExact,
        history, registry
<1>5. CASE BeginUpdate
  <2>1. i' = 0 /\ pc' = "read"
      BY <1>5 DEF BeginUpdate, UpdateBegins, IInv, MapsInv
  <2>2. IntervalInv'
      BY <2>1 DEF IntervalInv
  <2> QED
      BY <1>5, <2>1, <2>2
      DEF BeginUpdate, UpdateBegins, ActivityInv, HistoryOK, SinceInv, ActivityExact, registry
<1>6. CASE Diff
    BY <1>6, DiffActivity
<1>7. CASE UNCHANGED vars
    BY <1>7
    DEF vars, registry, drives, maps, history,
        ActivityInv, HistoryOK, SinceInv, IntervalInv, ActivityExact
<1> QED
    BY <1>1, <1>2, <1>3, <1>4, <1>5, <1>6, <1>7 DEF Next, Monitor, Recording

\* What the history variables say of the counters, drive by drive.
THEOREM ActivityInvariant == Spec => []ActivityInv
<1>1. IInv => TableInv
    BY DEF IInv
<1> QED
    BY <1>1, InductiveInvariant, InitActivity, NextActivity, PTL DEF Spec

\* What is shown of a drive is the work it did between its last two readings,
\* whenever both were readings of its counter.
THEOREM ActivityExactHolds == Spec => []ActivityExact
<1>1. ActivityInv => ActivityExact
    BY DEF ActivityInv
<1> QED
    BY <1>1, ActivityInvariant, PTL

\* All variables have their types in every reachable state.
THEOREM TypeCorrect == Spec => []TypeOK
<1>1. IInv /\ ActivityInv => TypeOK
    BY DEF IInv, TableInv, Distinct, MapsInv, IsMap, ActivityInv, HistoryOK, TypeOK
<1> QED
    BY <1>1, InductiveInvariant, ActivityInvariant, PTL

=============================================================================
