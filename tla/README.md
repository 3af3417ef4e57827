# cctop in TLA+

cctop is a `top` for macOS. One thread samples the system about once a second
and draws what changed since the sample before. This directory holds TLA+
models of it, the TLC configurations that check them, and proofs for TLAPS. All
paths below are relative to `src/`.

Nothing in cctop locks, sends or stores anything, so what is hard about it is
elsewhere: a sample takes many system calls and the system moves between them;
maps are updated in place and differences are taken between readings that may be
of different things; counters are unsigned and wrap; the terminal is resized and
keys are typed while the program waits; and half of what is on the screen is
there only if calls came in the right order.

## The system

| Component | State | Operations | What is hard |
|---|---|---|---|
| Process list (`macos/ProcessList.*`) | `list`: pid -> struct, `touched`: refresh number | `update()`: one listing, then two calls per pid; `print()`: drops what `update()` did not touch | processes end, start and hand on their pids between any two calls; failed calls |
| Network (`macos/Network.*`) | maps `last`, `current`, `delta`: name -> counters | constructor, `update()`, `print()`; `read()` takes two `sysctl()`s | interfaces come and go; maps whose keys differ, looked up without asking; wrap-around |
| Disk (`macos/Disk.*`) | a sorted table of at most 16 drives, and the same three maps | constructor with `record_*` and `remove_drivelist()`, `read()` drive by drive, `update()` | the table at its limit, drives that vanish between two calls |
| CPU (`macos/CPU.*`) | the same three maps with a row "CPU" for all cores, a history per row, `total_ticks` | constructor, `read()`, `update()`, `print()` | 32-bit counters in 64-bit arithmetic, a failure nobody looks at, rows that are not always printed |
| Memory (`macos/Memory.*`) | structs `last`, `current`, `delta` | constructor, `update()`, two prints | which reading is the baseline |
| Main loop (`main.cpp`, `lib/Options.*`, `lib/Help.*`) | `options`, the screen | `main()`, `loop()`, `Options::process()` | resizes and keys in any order, timing |
| Console (`lib/Console.*`) | terminal size, attributes, saved termios, `aborting` | `read_character()`, `resize()`, drawing, `abort()`, `cleanup()`, the signal handler | a resize arrives as a key; a refresh is drawn over the one before; signals anywhere, also in `cleanup()` and `exit()` |
| Platform (`macos/Platform.*`) | load, battery, names | `update()`, `print()` | everything is read anew at each refresh; the first line is filled by an unsigned count of cells, and its parts have no bound |
| Parser, Debug, Docker, VirtualMemory, Battery | | | not used by the program, or a log file |

`loop()` calls `update()` of every sampler, then `print()` of every sampler, then
`Help::show()`. The samplers share `console` and `options`; the process list reads
`processor.total_ticks`. Between two calls of `loop()`, `main()` waits in
`Console::read_character()` and hands the key, if there is one, to
`Options::process()`.

## The modules

| Module | What it models |
|---|---|
| `Counters` | unsigned subtraction, and the `copy()` that Network, Disk and CPU each have |
| `Meter` | abstract: what a sampler of counters promises |
| `ProcessList` | the process table and the kernel's processes |
| `Network` | the interfaces; implements `Meter` |
| `Disk` | the drive table and the drives; implements `Meter` |
| `CPU` | the cores, their mean, the histories |
| `Memory` | page queues, paging, swap |
| `Cctop` | `main()`, `loop()`, keys, resizes, waiting |
| `Terminal` | the terminal from the program's start to its end: exits and signals |
| `Screen` | what a refresh draws: every `print()`, composed, on one window |
| `ProcessListProofs`, `NetworkProofs`, `DiskProofs`, `CPUProofs`, `CctopProofs`, `TerminalProofs`, `ScreenProofs` | theorems about the module of the same name |
| `Lemmas` | what several of the proofs rest on |
| `MC*` | what TLC needs besides a configuration |

Conventions. A system call and what the code does with its result up to the next
one is one action; the actions of other processes, devices and the user may come
between any two of them. `pc` says where in `update()` the thread stands, and
locals that live across a call are variables. Operators have the names of the
functions and members they stand for. Variables listed as *history* are read by
properties alone. Operators called a *mutant* are faulty variants of the operator
that follows them; no specification uses them, and each of them makes TLC find
one of the properties violated.

**ProcessList.** `BeginUpdate` is `update()` up to the loop (`touched++`, the
listing, which may fail); `Lookup` takes a pid of the listing and finds or creates
the entry; `BsdInfo` and `BsdInfoFails` are the first `proc_pidinfo()`, `TaskInfo`
the second with the computation that follows it; `PrintList` is `print()`. The kernel
may `Spawn`, `Exit` and `RunProc` anywhere. A process is a pid together with a
generation, which the code does not know and the properties do. A process of
another user (`foreign`) answers no call. pids come in any order, which covers the
order of `proc_listallpids()`. Left out: the struct's other members, the sort, the
name caches and `pct_cpu`.

**Network.** `ConstructorSize`, `ConstructorList` and then `BeginUpdate`, `List`,
`Diff` are the two system calls of `read()` and what surrounds them. `List` puts
every interface into `current`, keeping names that are no longer there. `SizeFails`
is the first `sysctl()` failing, `ListFails` the second finding its buffer too small;
after either cctop exits.
`Rows` are the lines of `print()`. Four counters are one.

**Disk.** The iterators of IOKit are sets of drives; `RecordDevice`,
`RecordAborts`, `RecordEnds`, `RemoveDrive`, `RemoveEnds` are the constructor's
work on the table, `Without` the `memmove()` with its one element too many
(`Garbage` comes from behind the array). `RecordAborts` stands for every `abort()` of
`record_device()` and for the missing iterator before it; `RecordEnds` may end in the
one for the second iterator. `ReadDrive` is one turn of the loop of
`read()`: a drive may be gone (its entry keeps its old totals) or have no
statistics (its totals become 0). The notifications are delivered to a run loop
that is never run, so no action changes the table later. Drive names are numbers.

**CPU.** One call reads all cores, so `Constructor`, `Update` and `PrintRows` are whole
functions. `host_processor_info()` may fail without being noticed, with
`processorCount` and the address of the counters being what the stack holds: 0 cores
are read, or the counters of the last reading once more, which is never deallocated,
or the program crashes (`ReadCrashes`); a constructor that counted 0 makes `update()` divide by zero,
which traps or, on arm64, yields 0 (`UpdateTraps`, `Mean`). User, nice and system
ticks are one counter; `Levels` and `Full` scale the eight dots and the 100 percent
down. `seen` is history: for each column of a row's history, how many refreshes ago
its entry was printed, up to `MaxAge`. `sample()`, whose result is not used, and idle
ticks are left out.

**Memory.** Two system calls per reading, neither of which is checked: when one fails,
its struct is what the stack holds (`VmStats`, `SwapUsages`). The five event counters
are one.

**Cctop.** `Start`, `AnswerPrompt` and `ResizeAnswersPrompt` are `main()` up to its
loop; `DrawTooSmall` and `Refresh` are `loop()`; `Check`, `Tick`, `GetchTimesOut`,
`GetchResizes` and `GetchReturnsKey` are `read_character()` and, for a key,
`Options::process()`. A picture on the screen is what it was drawn from: a size and
the options. Time passes in ticks, only inside `getch()`. Keys that differ only in
case, and act the same, are one key.

**Terminal.** `modes` and `window` say who the terminal's settings are for. Each
action is what lies between two points where a signal makes a difference:
`SaveTermios` to `InstallSigterm` are Console's constructor, `Globals` the other
constructors, `Raw`, `Prompt`, `Hide`, `Draw` and `Wait` are `main()`;
`RestoreTermios`, `EndWin` and `SetAborting` are `cleanup()`, which `abort()`, the
handler and the destructor share (`by` says who runs it), `LastWords`, `Exit`,
`Destructors` and `Flush` what follows it. `ExitHandler` may come anywhere,
except in itself. A handler does not return, so the stack is not modelled: what
matters of what it interrupted is whether that was ncurses, stdio or the heap
(`midway`), which may then crash or hang (`LibraryCrashes`, `LibraryHangs`). A
program whose `exit()` was interrupted calls `exit()` again, which goes on with
the handlers that have not been called yet (`registered`).

**Screen.** A `print()` is a sequence of calls of Console, which are values (`Plain`,
`Newline`, `MoveTo`, ...); `Call` is what each does to the window. Of a text its
length is kept and whether it is meant to be plain; of a line, which refresh drew
it. A number outgrows its field when it is large enough, and several of these numbers
wrap; so a line is as long as its fields and what the data say its numbers take beyond
(`Sampled`), for each process, interface and drive of its own. `Spare` says how much
each line can take at the width of the window. The parts of the first line (host,
system, date) have any length; if they do not fit, the program writes beyond its buffer
(`HeadOverruns`). A key that `Options::process()` does not know still changes the
window, since nobody called `noecho()` (`IgnoredKey`). `Update` is `loop()` up to the first `print()` and there is one action for each
`print()` and for `Help::show()`. What the samplers know is one of a set of
records (`Data`), since `print()` reads them and changes nothing but the window.
Colours count as one, wherever they come from, except that where a gauge and the
dots of a CPU row take theirs from is modelled (`Gauge`, `Rendered`).

`Cctop`, `Terminal` and `Screen` divide the same code among them: `Cctop` has its
order in time, `Terminal` its ways to end, `Screen` what it draws. A frame of
`Cctop` is what the loop of `Screen` draws for that size and those options;
`NothingOldBetween` of `Screen` is why `Cctop` may take it for one picture.

## What TLC checks

All passing runs check a type invariant, too. Each property is stated in words
above its definition.

| Run | Shows | Bounds |
|---|---|---|
| `process_list` | `ListIsRecent`: a row names a process that ran during this refresh. `StableShown`: a process that stays is shown. `DeltaExact`: a delta between two readings of one process is the time it used. `UpdateCompletes`: a refresh ends. | 2 pids, 2 processes per pid, 3 refreshes, 1 unit of CPU time per process |
| `network` | `KeysNested`: no lookup yields a null pointer. `TrafficExact`: what is shown is the traffic between two readings. `MetersInterfaces`: Network implements Meter. | 2 interfaces, one of them hidden, counters up to 1, arithmetic modulo 3, any number of refreshes |
| `disk` | `TableSound`, `OnlyGoneRemoved`: the table. `KeysNested`, `ActivityExact`, `MetersDrives`: as for Network. | a table of 2, 3 block devices and 1 other medium, counters up to 1 modulo 3, any number of refreshes |
| `cpu` | `UsageExact`: a core's delta, also when its counter wraps. `TotalIsMean`: the row "CPU" is the mean of what the cores show or, once a counter began anew, of what 64 bits keep of their sum. `HistoriesAligned`: which refresh each column of a history is about. `KeysNested`. | 2 cores, up to 2 ticks modulo 3 between readings, 64-bit arithmetic modulo 7, history of 3, ages up to 4, any number of refreshes |
| `cctop` | `ScreenFaithful`: no outdated picture. `ForcedCondenseReverts`: a low window condenses the CPU section only while it is low. `SampledInTime`: nobody can put off the sampling. `ResizeFollowed`, `QuitQuits`: liveness. | 3 sizes, 5 kinds of keys, 2 keys typed, 3 resizes, a second of 4 ticks |
| `terminal` | `RestoredAtExit`, `WordsStay`: every `exit()` gives the terminal back, and what is said last is seen. `ModesFirst`: a handler that breaks down has put the modes back. `GivenBackForGood`: nothing takes the terminal again. `EndsWhenTold`: liveness. | none: all states of the module |
| `screen` | `NothingOldBetween`, `NothingBleeds`: nothing of an older refresh and no attribute of another section shows. `ListFillsWindow`, `RoomForProcesses`: the process list has room and uses it. `NothingWraps`: no line runs into the next whose numbers need no more than its spare cells. | 5 sizes, 10 cores, 6 drives, 7 interfaces, 5 records of data; any number of refreshes, keys and resizes |

Why the bounds are enough. A wrong baseline in the process list takes a refresh
that creates an entry, one that measures it and one that measures again, and a pid
that changes hands takes two processes; the second pid lets something happen to
another entry meanwhile. In Network, Disk and CPU nothing bounds the number of
refreshes; a counter with two or three values is enough to tell a right difference
from a wrong, swapped or wrapped one. The disk table is full with two drives and
one more block device competes for it, so that the first and the last slot are
taken out of a full table, and a drive is passed over. The sizes lie on both sides
of each threshold of `loop()` that the properties depend on: the minimum of 96 x 30
and the 40 lines below which the CPU section is condensed. Three resizes and two
keys allow a resize on either side of each key. In Screen the heights 30, 35, 40
and 45 and the widths 95 and 96 are the thresholds of `loop()` and the minimum size,
and the machine is the largest for which they leave the processes a line
(`RoomAssumption`, which names what the constants of `main.cpp` presuppose); a
window is only as wide as needed: 96, 97, where each line has one more cell to spare,
and 98, from which on Network has all its columns. The data are an ordinary refresh and
those that differ from it: fewer processes than lines and every line as long as a
window of 96 can take, a core at 109 percent among them; no processes; lines one cell
too long for 96, so that they fit 97 or run into the next; a core far above 100 percent
together with a first line that fits 97 and overruns the buffer at 96. In CPU, 2 ticks
modulo 3 let both cores' counters begin anew in one refresh, so that the sum of what
they show exceeds 7, and three columns with ages up to 4 tell a gap from a shift.

Deadlock is checked where the system cannot stop (`network`: devices always go on,
also after cctop has exited). The other models stop where a bound or the end of the
program is reached, `screen` where the first line overran its buffer.

Fairness. Only the program's own steps are weakly fair, together: it is one thread
of straight-line code, and `getch()` returns after its half second. No fairness is
assumed of processes, devices or the user. Accordingly `ResizeFollowed` excepts a
user who never answers the prompt. It also excepts a resize that *answered* the
prompt: `KEY_RESIZE` is taken for an answer there, cut to a `char`, and the
console keeps the old size until the next resize. `EndsWhenTold` admits an end that
is a hang: a handler that interrupted the heap or stdio may wait for a lock that its
own thread holds, and no fairness helps.

### Where the program is not what it says

These runs end in a violation. Each shows that the code does something else than a
comment, a header or a text on the screen says.

| Run | What is said | What the code does |
|---|---|---|
| `process_list_reuse` | `ProcessList.cpp:123-125`: what is not up to date "is no longer running and needs to be removed" | an entry whose pid is in use again stays, and the new process's delta is taken against the old one's totals |
| `network_per_interface` | `Network.h:9`: "Network traffic (per interface)" | interfaces that appear or come up after the start have no line: `delta` has the names and flags of the start |
| `disk_defaults` | `Disk.cpp:274-277`: "If the drive goes away ... take some defaults" | the loop continues before the defaults are stored |
| `cctop_help` | `Help.cpp:44`, `48`: H toggles the help, ^D quits | neither key does anything (h and ^C do) |
| `memory_current` | `Memory.cpp:140`: "IN Current OUT" | counted from the start of cctop, since `last` is never updated |

## What is proved

`ProcessListProofs` proves of `ProcessList`, for every finite or infinite set of
pids, all bounds and every width of the counters:

- `TypeCorrect`: `Spec => []TypeOK`
- `ListIsRecentHolds`: `Spec => []ListIsRecent`
- `StableShownHolds`: `Spec => []StableShown`
- `DeltaExactHolds`: `Spec => DeltaExact`

The assumptions are those named in the modules: pids are natural numbers, and a
process's CPU time stays below the width of a counter, which 64 bits of
nanoseconds justify.

None of the properties is inductive. `ListIsRecent` speaks of the moment after
`print()` only, so the invariant has to say what is known in the middle of the
loop: every touched entry was filled during this refresh (`FreshInv`), the entry
the loop stands at is there and holds what the calls so far put into it
(`VisitInv`), each listed process that has not ended is still to be visited, being
visited, or touched (`StableInv`), an entry's total is the last reading taken for
it (`SampleInv`), and an entry is stored under the pid it holds, without which
`print()` might drop another entry than the stale one it found (`KeyIsPid`).
`IInv` is the conjunction with `TypeOK`; there is one lemma per action
(`SpawnStep` to `PrintStep`), `InductiveInvariant` puts them together, and the
theorems follow from it.

`NetworkProofs` proves of `Network`, for every finite set of interfaces and every
width of the counters:

- `TypeCorrect`: `Spec => []TypeOK`
- `KeysNestedHolds`: `Spec => []KeysNested`
- `TrafficExactHolds`: `Spec => []TrafficExact`
- `MetersInterfacesHolds`: `Spec => MetersInterfaces`, that is, `Network`
  implements `Meter`

The invariant `IInv` adds to the types of the maps and `KeysNested` what holds in
the middle of a refresh: `last` and `current` agree on all that `delta` shows from
the copy until `current` is overwritten (`LastIsCurrent`). Without it a step of
`List` would not be a stutter of `Meter`. `TrafficInv` relates the maps to the
kernel's counters: an interface that stayed has counted on from what was read
(`SinceInv`), and the last two readings are as far apart as its traffic
(`IntervalInv`). The refinement is proved action by action: the constructor's
reading is `Meter`'s `Start`, `Diff` is its `Refresh`, all others stutter. The
assumptions are that the set of interfaces is finite and that the traffic of an
interface stays below the width of a counter.

`DiskProofs` proves of `Disk`, for every set of drives, every `MAXDRIVES` and every
width of the counters:

- `TypeCorrect`: `Spec => []TypeOK`
- `TableSoundHolds`: `Spec => []TableSound`
- `OnlyGoneRemovedHolds`: `Spec => OnlyGoneRemoved`
- `KeysNestedHolds`: `Spec => []KeysNested`
- `ActivityExactHolds`: `Spec => []ActivityExact`
- `MetersDrivesHolds`: `Spec => MetersDrives`

What `qsort()` does is said in `Disk` by ranks, so the first lemmas show that `n`
different names have the ranks 0 to `n - 1`, each once (`RanksTaken`), and that
sorting keeps the names and orders them (`SortedSound`). `WithoutSound` is about the
`memmove()`: the element from behind the array lands in the last slot, and `num` has
become too small for it. `TableInv` adds to this that no drive waits to be recorded
twice and that what is looked at for removal is gone. The proof of `MapsInv` is that
of Network with one difference: the reading takes many steps, so `last` and `current`
agree on the drives it has yet to reach (`LastIsCurrent`), and `IntervalInv` speaks of
those it has passed. That a slot belongs to one drive only (`Distinct`) is what keeps
a reading of one slot from disturbing another's. The proof also shows what TLC's
table of two slots cannot: a constructor that aborts leaves a table that is not
sorted, so `TableSound` promises order only to a program that goes on.

`CPUProofs` proves of `CPU`, for every number of cores and all widths:

- `TypeCorrect`: `Spec => []TypeOK`
- `KeysNestedHolds`: `Spec => []KeysNested`
- `UsageExactHolds`: `Spec => []UsageExact`
- `TotalIsMeanHolds`: `Spec => []TotalIsMean`
- `HistoriesAlignedHolds`: `Spec => []HistoriesAligned`

`IInv` relates the kernel's counters to the last reading, modulo their width
(`SinceInv`, `Later`), as long as no reading failed; `DeltaOfCore` is the arithmetic
of two widths. It rests on `TickAssumption`, that the sum of all cores' counters fits
into cctop's, and `BoundAssumption`, that a counter wraps at most once between two
readings. For the mean, `last` and `current` have to hold the sum of their cores under
"CPU"; the difference of two sums is the sum of the differences, modulo cctop's width,
whichever of the cores' counters began anew. This is an induction over the cores, for
which the sum is a function of the number of cores added up (`Sum`). The property adds
up what the cores show without a bound (`PlainSum`). The two agree modulo cctop's width,
and altogether when no counter began anew, as each delta is then at most the kernel's
counter. When one did, its core shows nearly 2^64, the sum exceeds 64 bits, and the row
"CPU" is not the mean of what stands below it: the property says what it is.
`HistoriesAligned` needs, besides `IInv`, that all rows grow in the same refreshes or,
condensed, not at all; ages are compared with `AgeAssumption`.

`CctopProofs` proves of `Cctop`, for every set of sizes, keys and every timeout:
`TypeCorrect`, `ScreenFaithfulHolds`, `ForcedCondenseRevertsHolds` and
`SampledInTimeHolds`. The invariant needs, for the last, that a `getch()` begins
before the deadline and that what is left of it (`slice`) bounds how far it may go
beyond (`TimeInv`); for the others that the screen is one of the pictures that can
be drawn at all (`Screens`).

`TerminalProofs` proves of `Terminal`: `TypeCorrect`, `RestoredAtExitHolds`,
`ModesFirstHolds`, `WordsStayHolds` and `GivenBackForGoodHolds`. They follow from
knowing how far `cleanup()` has come from where the program stands (`CleanupInv`),
however often it was interrupted and begun anew; `AbortingIsRestored` is why
`cleanup()` may skip everything once `aborting` is set, and `ExitInv` why `exit()` may
skip the destructor: either it is still registered, or a `cleanup()` has been to its
end. `TerminalProofs` assumes nothing; TLC already checks all states of the module,
and what the proof adds is the argument.

`ScreenProofs` proves of `Screen`, for every set of window sizes, all data of the
samplers, and every number of cores, drives and interfaces within the assumptions:

- `TypeCorrect`: `Spec => []TypeOK`
- `NothingOldBetweenHolds`: `Spec => []NothingOldBetween`
- `ListFillsWindowHolds`: `Spec => []ListFillsWindow`
- `RoomForProcessesHolds`: `Spec => []RoomForProcesses`
- `NothingWrapsHolds`: `Spec => []NothingWraps`
- `NothingBleedsHolds`: `Spec => []NothingBleeds`

The window changes by calls, and there are hundreds of them in a refresh, so the
argument is made in layers. For each call there is a lemma about the fields of the
window it leaves (`TextFields`, `MarkFields`, `NewlineFields`). A line is a sequence
of calls; `LineConcat` says that drawing two sequences one after the other is drawing
their concatenation, so that what a line does can be put together from its parts. Of
the parts it is known that they take back the attributes they turn on (`Tidy`), how
many cells they need (`Cells`), and that they leave no line above the cursor begun
only (`Keeps`). `Rows` are the lines that end with a newline and have these
properties, and `After` is what `n` of them do to a window: they take `n` rows or
reach its end, and nothing wraps if each fits. Every `print()` is shown to be a
sequence of `Rows`, and how many it is.

`ScreenInv` is the inductive invariant. The properties speak of a refresh that has
been drawn, so in the middle of one it says that the next section begins at the
beginning of a line with no attribute on (`Placed`) and no lower than the rows that
the sections above may have taken (`Room`, `RowsBefore`). That this leaves three rows
in the window for the process list is arithmetic of the thresholds of `loop()`
(`RoomLeft`): it uses that blank lines are left out in windows of less than 35 lines
and between 40 and 44, and the cores below 40. The proof of `PrintProcesses` also has
the case of a window without room, since a line that was too long may have used it up:
`RoomForProcesses` promises room to a refresh without one only. For `NothingWraps` the
length of each line is counted against `Spare`, for each of the processes, interfaces
and drives. The help moves the cursor about, over a refresh that is
complete: of it only the attributes and the end of a line matter (`Placing`).

`RoomAssumption` is the size of machine the thresholds are right for (`Cores + Drives
+ Interfaces <= 23` and `Drives + Interfaces <= 13`), which `main.cpp` presupposes
and does not say. It is as weak as it can be: with one more of either, all sections open
and 45 or 35 lines, the list's only line is drawn over.
`SizeAssumption` is that a terminal
has at least one line and one column, `DataAssumption` that the samplers' data have
their types. Nothing is assumed of the length of a number, a name or a date.

`Lemmas` holds what is needed of unsigned subtraction: it is exact as long as a
counter did not go back (`MinusExact`), and adding it to the older reading yields the
newer one in any case (`MinusInverts`). And it holds induction over the natural
numbers, for sets (`SetInduction`), as the library's theorems, which take the formula
as an operator, cannot be used. From it follow that a function defined step by step
on `0..N` exists (`BoundedRecursion`) and that taking some steps and then others is
taking all of them (`JoinedRecursion`), which `Sum`, lines and sections need.

Only model-checked: liveness (`UpdateCompletes`, `ResizeFollowed`, `QuitQuits`,
`EndsWhenTold`), which is out of TLAPS's reach. Every invariant and every other action
property of the passing runs is a theorem. Memory has no passing run and no theorem:
its one property is violated.

## What is not modelled

- The wording and number formats of what is drawn. Screen keeps lengths; of colours,
  that they are turned off again, not which one is chosen: the gauges compare a
  percentage with .2 and .5 (`Console.cpp:826-846`), so they are green from half a
  percent on.
- `NothingOldBetween` is about the lines a refresh reaches. Below them older ones stay:
  a list of processes that has become shorter leaves its last rows in the window until a
  key or a resize clears it.
- The lengths of names other than those of the first line: what the platform's second
  and third line say is taken to have the length it is formatted for.
- In Screen the console's size is the window's. After a resize that answered the prompt
  they differ until the next one; only Cctop has this. Cctop in turn leaves the echo of
  a key out: the refresh follows at once.
- The counts of lines at the end of some `print()`s, which nobody uses.
- The message of `Network::read()` before its `exit()`: it is printed into the program's
  window, which `endwin()` takes away. `WordsStay` excepts it.
- The sort of the processes, the caches of user names, `pct_cpu`, which divides the
  nanoseconds of one refresh by the ticks since boot, and memory management (every
  entry the process list erases leaks its struct).
- Suspension (^Z) and SIGQUIT beyond ending the process (`Killed`).
- That the prompt "(y/N)" goes on for every key but n (`main.cpp`): no state depends on it
  but that the program does go on, which `AnswerPrompt` has.
- A refresh is not exactly a second after the one before: a key shortens the interval
  and a resize lengthens it, while the columns are headed "(B/s)" and nothing is divided.
  `SampledInTime` bounds the delay.
- The platform's readings: load and battery are read anew at each refresh; Screen takes
  the battery's charge as given. Memory's aggregate of two readings is modelled as far as
  the baseline goes (`Memory`), its lines in Screen.
- Code that nothing calls (`Parser`, `Docker`, `VirtualMemory`, `Battery`, some of
  Console's operations), the debug log, and the branches for a build without ncurses,
  which `cctop.h` does not select.
- Real time: the wall clock is taken to be monotonic in `Cctop`; the code would wait
  longer or shorter if it is set.

## Plan

1. The process list's percentages: CPU and ProcessList composed over `total_ticks`.
2. A passing run for Memory, and its arithmetic of free pages.
3. That a drawn refresh of `Screen` is one picture of `Cctop`, as a refinement.
