--------------------------------- MODULE CPU ---------------------------------
(***************************************************************************)
(* The processors (src/macos/CPU.cpp, CPU.h).                              *)
(*                                                                         *)
(* As in Network and Disk, last, current and delta map a name to counters; *)
(* here one system call reads them all.  The names are those of the cores  *)
(* and "CPU", whose counters are the sums over the cores; update() divides *)
(* its deltas by the number of cores.  A row of the screen shows the delta *)
(* as a percentage, and a history of the levels it showed before.          *)
(*                                                                         *)
(* user, system and nice ticks are handled alike and are one counter, the  *)
(* busy ticks, here (so the mean is rounded once, not three times).  The   *)
(* kernel counts ticks in 32 bits, cctop in 64.                            *)
(***************************************************************************)
EXTENDS Counters

CONSTANTS
    Cores,          \* the number of cores
    TickWord,       \* modulus of the kernel's counters: 2^32
    HistorySize,    \* CPU_HISTORY_SIZE
    Levels,         \* how many dots there are: 8
    Full,           \* the delta that counts as 100%
    MaxTicks,       \* bound: busy ticks of a core between two readings
    MaxAge          \* bound: refreshes that the ages in seen tell apart

ASSUME CoresAssumption == Cores \in Nat \ {0}
ASSUME TickAssumption  == TickWord \in Nat \ {0} /\ Cores * TickWord <= Word
ASSUME ShowAssumption  == HistorySize \in Nat \ {0} /\ Levels \in Nat \ {0} /\ Full \in Nat \ {0}
ASSUME BoundAssumption == MaxTicks \in Nat /\ MaxTicks < TickWord
ASSUME AgeAssumption   == MaxAge \in Nat /\ MaxAge > HistorySize

Core  == 0..(Cores - 1)
Total == Cores              \* stands for the name "CPU"
Name  == Core \cup {Total}

Column == 1..HistorySize

VARIABLES
    ticks,      \* the kernel's counters
    \* class CPU
    current, last, delta, num_cores,
    history,    \* the history of each entry of delta; 0 is a blank, l + 1 is dots[l]
    \* where the constructor, update() or print() stands
    pc,
    \* history, read by the properties only
    since,      \* busy ticks of each core since the last reading
    interval,   \* the same, between the last two readings
    cut,        \* the last reading failed
    broken,     \* one of the last two did
    seen        \* of each history, how many refreshes ago an entry was shown
                \* (1 for the last refresh); 0 where there is none

maps   == <<current, last, delta, num_cores>>
ghosts == <<since, interval, cut, broken>>
rows   == <<history, seen>>
vars   == <<ticks, maps, rows, pc, ghosts>>

Empty == [n \in {} |-> 0]
Blank == [k \in Column |-> 0]

TypeOK ==
    /\ ticks \in [Core -> 0..(TickWord - 1)]
    /\ \A m \in {current, last, delta} : DOMAIN m \subseteq Name /\ m \in [DOMAIN m -> Unsigned]
    /\ num_cores \in {0, Cores}
    /\ history \in [Name -> [Column -> 0..Levels]]
    /\ seen \in [Name -> [Column -> 0..MaxAge]]
    /\ pc \in {"start", "constructed", "idle", "print", "crashed"}
    /\ since \in [Core -> 0..MaxTicks] /\ interval \in [Core -> 0..MaxTicks]
    /\ cut \in BOOLEAN /\ broken \in BOOLEAN

Init ==
    /\ ticks \in [Core -> 0..(TickWord - 1)]
    /\ current = Empty /\ last = Empty /\ delta = Empty
    /\ num_cores = 0
    /\ history = [n \in Name |-> Blank] /\ seen = [n \in Name |-> Blank]
    /\ pc = "start"
    /\ since = [c \in Core |-> 0] /\ interval = [c \in Core |-> 0]
    /\ cut = TRUE /\ broken = TRUE

-----------------------------------------------------------------------------
(* The kernel.                                                             *)

Tick(c) ==
    /\ since[c] < MaxTicks
    /\ ticks' = [ticks EXCEPT ![c] = (@ + 1) % TickWord]
    /\ since' = [since EXCEPT ![c] = @ + 1]
    /\ UNCHANGED <<maps, rows, pc, interval, cut, broken>>

-----------------------------------------------------------------------------
(* class CPU                                                               *)

\* The sum of the counters of the first cores, added up one by one.
Sum(m, count) ==
    LET upTo[n \in 0..count] == IF n = 0 THEN 0 ELSE (upTo[n - 1] + m[n - 1]) % Word
    IN  upTo[count]

\* read() of processorCount cores, whose counters are in load, into the map m.
Read(m, count, load) ==
    LET cores == 0..(count - 1) IN
    [n \in DOMAIN m \cup cores \cup {Total} |->
        IF n = Total THEN Sum(load, count)
        ELSE IF n \in cores THEN load[n]
        ELSE m[n]]

\* host_processor_info(): when it fails, which read() does not look at,
\* processorCount and cpuLoad are what was on the stack: no core; or those of
\* the last reading, which is never deallocated and is read once more; or, in
\* ReadCrashes, an arbitrary address.
Reading(count) ==
    /\ \/ count = Cores /\ current' = Read(current, count, ticks) /\ cut' = FALSE
       \/ count = 0 /\ current' = Read(current, count, ticks) /\ cut' = TRUE
       \/ /\ count = Cores /\ Core \subseteq DOMAIN current
          /\ current' = Read(current, count, current) /\ cut' = TRUE
    /\ interval' = since
    /\ since' = [c \in Core |-> 0]
    /\ broken' = (cut \/ cut')

ReadCrashes ==
    /\ pc \in {"start", "constructed", "idle"}
    /\ pc' = "crashed"
    /\ UNCHANGED <<ticks, maps, rows, ghosts>>

\* Mutant of Constructor: delta gets no entries.
ConstructorNoDelta ==
    /\ pc = "start"
    /\ \E count \in {0, Cores} : Reading(count) /\ num_cores' = count
    /\ last' = Copy(last, current')
    /\ pc' = "constructed"
    /\ UNCHANGED <<ticks, delta, rows>>

\* The constructor up to its update().
Constructor ==
    /\ pc = "start"
    /\ \E count \in {0, Cores} : Reading(count) /\ num_cores' = count
    /\ last' = Copy(last, current')
    /\ delta' = Copy(delta, current')
    /\ pc' = "constructed"
    /\ UNCHANGED <<ticks, rows>>

\* Mutant of Mean: the row of "CPU" counts as a core.
MeanOfRows(sum) == IF num_cores > 0 THEN {sum \div (num_cores + 1)} ELSE {0}

\* cpu->user /= num_cores.  Without a core that traps or, on arm64, yields 0.
Mean(sum) == IF num_cores > 0 THEN {sum \div num_cores} ELSE {0}

\* Mutant of Difference: the arguments are swapped.
DifferenceSwapped(newer, older) == Minus(older, newer)

\* CPUCore::diff
Difference(newer, older) == Minus(newer, older)

\* update(); the constructor's own is not followed by print().
Update ==
    /\ pc \in {"constructed", "idle"}
    /\ \E count \in {0, Cores} : Reading(count)
    /\ last' = Copy(last, current)
    /\ LET diff == [n \in DOMAIN delta |-> Difference(current'[n], last'[n])]
       IN  \E mean \in Mean(diff[Total]) : delta' = [diff EXCEPT ![Total] = mean]
    /\ pc' = IF pc = "constructed" THEN "idle" ELSE "print"
    /\ UNCHANGED <<ticks, num_cores, rows>>

UpdateTraps ==
    /\ pc \in {"constructed", "idle"}
    /\ num_cores = 0
    /\ pc' = "crashed"
    /\ UNCHANGED <<ticks, maps, rows, ghosts>>

\* The index into dots[] of a percentage: one dot for each eighth.
Level(use) == IF use * Levels < Full * (Levels - 1) THEN (use * Levels) \div Full ELSE Levels - 1

\* Mutant of AddHistory: the newest entry goes to the front.
AddHistoryFront(h, entry) == [k \in Column |-> IF k = 1 THEN entry ELSE h[k - 1]]

\* CPUCore::addHistory
AddHistory(h, entry) == [k \in Column |-> IF k = HistorySize THEN entry ELSE h[k + 1]]

\* The ages of the entries after one more refresh.
Older(ages) == [k \in Column |-> IF ages[k] \in 1..(MaxAge - 1) THEN ages[k] + 1 ELSE ages[k]]

\* print(): the row of "CPU", and those of the cores unless they are condensed;
\* a row adds to its history when it is printed.
PrintRows ==
    /\ pc = "print"
    /\ \E condenseCPU \in BOOLEAN :
        LET printed == {Total} \cup (IF condenseCPU THEN {} ELSE 0..(num_cores - 1)) IN
        /\ history' = [n \in Name |-> IF n \in printed
                                       THEN AddHistory(history[n], Level(delta[n]) + 1)
                                       ELSE history[n]]
        /\ seen' = [n \in Name |-> IF n \in printed
                                    THEN AddHistory(Older(seen[n]), 1)
                                    ELSE Older(seen[n])]
    /\ pc' = "idle"
    /\ UNCHANGED <<ticks, maps, ghosts>>

Monitor == ReadCrashes \/ Constructor \/ Update \/ UpdateTraps \/ PrintRows

Next == (\E c \in Core : Tick(c)) \/ Monitor

\* The monitor refreshes again and again (see Cctop).
Spec == Init /\ [][Next]_vars /\ WF_vars(Monitor)

-----------------------------------------------------------------------------
(* Properties.                                                             *)

Shown == pc \in {"print", "idle"}

\* Every name that update() and print() look up is there: print() asks delta
\* for the cores the constructor counted, update() asks current and last for
\* the names of delta, also after readings that brought nothing.
KeysNested ==
    pc \in {"constructed", "print", "idle"} =>
        /\ 0..(num_cores - 1) \cup {Total} \subseteq DOMAIN delta
        /\ DOMAIN delta \subseteq DOMAIN last
        /\ DOMAIN last \subseteq DOMAIN current

\* The delta of a core is the ticks it was busy between the last two readings,
\* unless its 32-bit counter began anew between them; then the 64-bit delta is
\* wrong in its upper half only.
UsageExact ==
    Shown /\ ~broken =>
        \A c \in DOMAIN delta \cap Core :
            /\ last[c] <= current[c] => delta[c] = interval[c]
            /\ last[c] > current[c] => delta[c] = Minus(interval[c], TickWord)

\* The sum of what the cores show, of any size.
PlainSum(m, count) ==
    LET upTo[n \in 0..count] == IF n = 0 THEN 0 ELSE upTo[n - 1] + m[n - 1]
    IN  upTo[count]

\* "CPU" shows the mean of what the cores show, though it is computed from sums
\* of their counters and never from that.  The exception: when counters began
\* anew since the last reading, so that some core shows nearly 2^64, the mean
\* is that of what is left of the cores' sum in 64 bits.
TotalIsMean ==
    Shown /\ ~broken /\ num_cores > 0 =>
        LET sum == PlainSum(delta, num_cores) IN
        IF \A c \in 0..(num_cores - 1) : last[c] <= current[c]
        THEN delta[Total] = sum \div num_cores
        ELSE delta[Total] = (sum % Word) \div num_cores

\* The age of column k in a history without gaps.
Age(k) == (HistorySize - k) + 1

\* Which refreshes the columns of the histories are about, however often the
\* section was condensed in between.  Entries fill the columns from the last
\* one on.  A column of the cores is about one and the same refresh, whichever
\* core.  The columns of "CPU" are about the last refreshes, without a gap.  So
\* a column of the cores is about the refresh "CPU" has there or, once the
\* section was condensed, an earlier one, never a later one.
HistoriesAligned ==
    /\ \A n \in Name : \A k \in Column : history[n][k] = 0 <=> seen[n][k] = 0
    /\ \A n \in Name : \A k \in Column :
            seen[n][k] # 0 => \A j \in k..HistorySize : seen[n][j] # 0
    /\ \A c, d \in 0..(num_cores - 1) : seen[c] = seen[d]
    /\ \A k \in Column : seen[Total][k] # 0 => seen[Total][k] = Age(k)
    /\ \A c \in Core : \A k \in Column :
            seen[c][k] # 0 => seen[Total][k] # 0 /\ seen[c][k] >= Age(k)

=============================================================================
