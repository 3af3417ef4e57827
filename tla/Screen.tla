------------------------------- MODULE Screen -------------------------------
(***************************************************************************)
(* What a refresh draws: loop() (src/main.cpp), the print() of every       *)
(* sampler, Help::show(), and the drawing operations of Console            *)
(* (src/lib/Console.cpp) on the window of ncurses.                         *)
(*                                                                         *)
(* A refresh does not clear the window: it begins at its upper left corner *)
(* and each line erases what is left of the line under it.  Attributes     *)
(* stay on until they are turned off.  So a line that is too long, one too *)
(* many, or an attribute too late spoils what others draw after it, and    *)
(* only together do the print()s fit a window of the minimum size.         *)
(*                                                                         *)
(* Of a text, only its length is modelled, and whether it is meant to be   *)
(* plain; of a line of the window, which refresh drew it.  A number's field *)
(* grows with the number, and the samplers show some that are absurd (a    *)
(* counter that began anew, Counters), so lengths depend on the data.      *)
(***************************************************************************)
EXTENDS Integers, Sequences

CONSTANTS
    Sizes,      \* the terminal's possible sizes, records [w, h]
    Cores,      \* num_cores
    Drives,     \* drives with a line
    Interfaces, \* most interfaces with a line
    Data        \* what the samplers may come up with, see Sampled

MinWidth  == 96
MinHeight == 30

\* The lines that print numbers once: of each core, of real memory and swap
\* space, and of virtual memory.
Field == {"cpu", "memory", "swap", "virtual"}

\* What print() gets to see after update(): the ticks used by each core, the
\* charge of the battery, the share of memory in use, in percent, and the length
\* of host, system and date.  Of each line with numbers, by how many cells they
\* exceed the fields they are formatted for: for the processes listed, for the
\* interfaces that pass the filter and for the drives, one by one.
Sampled == [processes: Seq(Nat), interfaces: {s \in Seq(Nat) : Len(s) <= Interfaces},
            drives: [1..Drives -> Nat], over: [Field -> Nat], use: Nat,
            charge: 0..100, real: {share \in Int : share <= 100}, head: Nat]

ASSUME SizeAssumption == Sizes \subseteq [w: Nat \ {0}, h: Nat \ {0}]
ASSUME DataAssumption == Data \subseteq Sampled

\* The machine is of a size the thresholds of loop() are made for.
ASSUME RoomAssumption ==
    /\ Cores \in Nat /\ Drives \in Nat /\ Interfaces \in Nat
    /\ Drives + Interfaces <= 13
    /\ Cores + Drives + Interfaces <= 23

VARIABLES
    pc,         \* what loop() draws next
    size,       \* console.width, console.height
    opts,       \* class Options
    data,       \* what the samplers know
    win,        \* the window
    shown       \* lines of processes drawn by this refresh

vars == <<pc, size, opts, data, win, shown>>

Section == {"m", "v", "d", "n", "p"}

Options == [help: BOOLEAN, main: BOOLEAN, cpu: BOOLEAN, cpuState: BOOLEAN,
            condensed: SUBSET Section]

\* A line is blank, drawn by this refresh or an older one, or begun by this one
\* with the end of an older one behind it.
Line == {"blank", "new", "old", "mixed"}

\* stuck: the cursor could not leave the last line; spoiled: and drew on there;
\* wrapped: a line was too long.
Window(s) == [row: 0..(s.h - 1), col: 0..(s.w - 1), lines: [0..(s.h - 1) -> Line],
              looks: SUBSET {"bold", "inverse", "colour"}, stuck: BOOLEAN,
              spoiled: BOOLEAN, wrapped: BOOLEAN, bleeds: BOOLEAN]

Cleared(s) == [row |-> 0, col |-> 0, lines |-> [r \in 0..(s.h - 1) |-> "blank"],
               looks |-> {}, stuck |-> FALSE, spoiled |-> FALSE, wrapped |-> FALSE,
               bleeds |-> FALSE]

TypeOK ==
    /\ pc \in {"loop", "platform", "cpu", "memory", "virtual", "disk", "network",
               "processes", "help", "wait", "crashed"}
    /\ size \in Sizes
    /\ opts \in Options
    /\ data \in Data
    /\ win \in Window(size)
    /\ shown \in Nat

Init ==
    /\ pc = "loop"
    /\ size \in Sizes
    /\ opts = [help |-> FALSE, main |-> FALSE, cpu |-> FALSE, cpuState |-> FALSE,
               condensed |-> {}]
    /\ data \in Data
    /\ win = Cleared(size)
    /\ shown = 0

-----------------------------------------------------------------------------
(* Calls of Console, as values: a print() is a sequence of them.           *)

Plain(n)  == [do |-> "text", cells |-> n, plain |-> TRUE]   \* meant to be plain
Styled(n) == [do |-> "text", cells |-> n, plain |-> FALSE]
BoldOn     == [do |-> "on", look |-> "bold"]
BoldOff    == [do |-> "off", look |-> "bold"]
InverseOn  == [do |-> "on", look |-> "inverse"]
InverseOff == [do |-> "off", look |-> "inverse"]
Colour     == [do |-> "on", look |-> "colour"]
ModeClear  == [do |-> "clear"]
Newline    == [do |-> "newline"]
MoveTo(r, c) == [do |-> "move", row |-> r, col |-> c]

\* A line after text was put at its beginning.
Begun(line) == IF line \in {"old", "mixed"} THEN "mixed" ELSE "new"

\* ncurses puts n cells at the cursor and goes on in the next line when one is
\* full; in the last line the cursor then stays in the last column and what is
\* left of the text is lost.
PutText(w, n, plain) ==
    LET end  == w.col + n
        fits == w.row + (end \div size.w) < size.h
        down == IF fits THEN w.row + (end \div size.w) ELSE size.h - 1
        last == IF ~fits THEN "new"
                ELSE IF (down = w.row /\ w.col > 0) \/ end % size.w = 0 THEN w.lines[down]
                ELSE Begun(w.lines[down])
    IN  IF n <= 0 THEN w ELSE
        [w EXCEPT !.row = down,
                  !.col = IF fits THEN end % size.w ELSE size.w - 1,
                  !.lines = [r \in 0..(size.h - 1) |->
                                IF r = down THEN last
                                ELSE IF r \in w.row..down THEN "new" ELSE w.lines[r]],
                  !.wrapped = @ \/ (~w.stuck /\ end >= size.w),
                  !.spoiled = @ \/ w.stuck,
                  !.bleeds = @ \/ (plain /\ w.looks # {})]

ClearEol(w) ==
    [w EXCEPT !.lines[w.row] = IF w.col = 0 THEN "blank"
                               ELSE IF @ = "mixed" THEN "new" ELSE @]

\* ncurses refuses a newline in the last line: the window does not scroll.  That
\* it would also erase the rest of the line is not relied on by Console.
LineFeed(w) ==
    IF w.row < size.h - 1 THEN [w EXCEPT !.row = @ + 1, !.col = 0]
                          ELSE [w EXCEPT !.stuck = TRUE]

\* Mutant of PutNewline: nothing is erased.
PutNewlineOnly(w) == LineFeed(w)

PutNewline(w) == LineFeed(ClearEol(w))

Call(w, c) ==
    CASE c.do = "text"    -> PutText(w, c.cells, c.plain)
      [] c.do = "on"      -> [w EXCEPT !.looks = @ \cup {c.look}]
      [] c.do = "off"     -> [w EXCEPT !.looks = @ \ {c.look}]
      [] c.do = "clear"   -> [w EXCEPT !.looks = {}]
      [] c.do = "newline" -> PutNewline(w)
      [] c.do = "move"    -> [w EXCEPT !.row = c.row, !.col = c.col, !.stuck = FALSE]

\* A line is drawn call by call, a section line by line.
DrawLine(w, calls) ==
    LET after[n \in 0..Len(calls)] == IF n = 0 THEN w ELSE Call(after[n - 1], calls[n])
    IN  after[Len(calls)]

DrawLines(w, lines) ==
    LET after[n \in 0..Len(lines)] ==
            IF n = 0 THEN w
            ELSE LET before == after[n - 1]
                 \* the condition has TLC draw a line before it begins the next
                 IN  IF before.row < size.h THEN DrawLine(before, lines[n]) ELSE before
    IN  after[Len(lines)]

Times(n, line) == [i \in 1..n |-> line]

\* A line of its own.
Ln(calls) == calls \o <<Newline>>

\* inverseln() fills the line up to its last cell.
InverseLn(n) == Ln(<<InverseOn, Styled(n), Styled(size.w - n - 1), InverseOff>>)

\* The label of a number.
Bold(n) == <<BoldOn, Styled(n), ModeClear>>

\* C++ rounds towards 0.
Filled(width, pct) == IF pct < 0 THEN 0 ELSE (width * pct) \div 100

\* Mutant of Gauge: the colour stays on.
GaugeColoured(width, pct) ==
    <<Plain(1)>> \o <<Colour, Styled(Filled(width, pct))>>
    \o <<Plain(width - Filled(width, pct)), Plain(1)>>

Gauge(width, pct) ==
    <<Plain(1)>> \o <<Colour, Styled(Filled(width, pct)), ModeClear>>
    \o <<Plain(width - Filled(width, pct)), Plain(1)>>

\* What ends a section, unless blank lines are condensed.
Blank(condense) == IF condense THEN <<>> ELSE << Ln(<<>>) >>

-----------------------------------------------------------------------------
(* The print() of each sampler.                                            *)

\* The spaces between the two parts of the first line.
HeadFill == size.w - data.head - 2

PlatformLines ==
    <<InverseLn(data.head + HeadFill),
      Ln(Bold(8) \o <<Plain(20)>> \o Bold(14) \o <<Plain(17)>>),
      Ln(Bold(14) \o <<Plain(14)>> \o Bold(9) \o <<Plain(5)>> \o Gauge(20, data.charge)
         \o <<Plain(27)>>)>>

\* Mutant of CPUBar: one cell for each per cent.
CPUBarLong(use) == <<Styled(use), Styled(20 - use)>>

\* The bar of CPUCore::print() has a limit to the left only.
CPUBar(use) == <<Styled(use \div 5), Styled(20 - (use \div 5))>>

\* renderColor(), what it applies to, and mode_clear().  Some of the colours
\* are bold.
Rendered(calls) == <<Colour, BoldOn>> \o calls \o <<ModeClear>>

\* CPUCore::print(): numbers, a dot, the gauge, the history.
CPULine(use) ==
    Ln(<<Plain(49 + data.over["cpu"])>> \o Rendered(<<Styled(1)>>) \o Bold(2)
       \o Rendered(CPUBar(use)) \o Bold(2) \o Rendered(<<Styled(20)>>))

MemoryLines ==
    <<InverseLn(64), Ln(<<Plain(65 + data.over["memory"])>> \o Gauge(20, data.real))>>
    \o (IF "m" \in opts.condensed THEN <<>> ELSE << Ln(<<Plain(44 + data.over["swap"])>>) >>)

\* Below a section's title its lines, unless the section is condensed: cells by
\* the fields' widths, and what the numbers of each line take beyond.
TitleAndLines(title, key, cells, beyond) ==
    <<InverseLn(title)>>
    \o (IF key \in opts.condensed THEN <<>>
        ELSE [i \in 1..Len(beyond) |-> Ln(<<Plain(cells + beyond[i])>>)])

\* The columns of the network need 98 cells or are left out.
NetworkWidth == IF size.w < 98 THEN 40 ELSE 96

-----------------------------------------------------------------------------
(* loop()                                                                  *)

\* Mutant of Small: any width will do.
SmallByHeight(s) == s.h < MinHeight

Small(s) == s.w < MinWidth \/ s.h < MinHeight

\* Mutant of CondenseMain: blank lines are condensed below 35 lines only.
CondenseMainLess == opts.main \/ size.h < 35

\* The blank lines go in a window of less than 35 lines, and again from 40 on,
\* where the cores come back, up to 45.
CondenseMain == opts.main \/ size.h < 35 \/ (size.h >= 40 /\ size.h < 45)

\* resize_help() instead of a refresh.
ShowTooSmall ==
    /\ pc = "loop"
    /\ Small(size)
    /\ win' = DrawLine(Cleared(size), Ln(<<Plain(50)>>))
    /\ pc' = "wait"
    /\ UNCHANGED <<size, opts, data, shown>>

\* All update()s; then drawing begins, over what the refresh before has drawn.
Update ==
    /\ pc = "loop"
    /\ ~Small(size)
    /\ data' \in Data
    /\ opts' = [opts EXCEPT !.cpu = opts.cpuState \/ size.h < 40]
    /\ win' = [Cleared(size) EXCEPT
                  !.lines = [r \in DOMAIN win.lines |->
                                IF win.lines[r] = "blank" THEN "blank" ELSE "old"]]
    /\ shown' = 0
    /\ pc' = "platform"
    /\ UNCHANGED size

Draws(from, to, lines) ==
    /\ pc = from /\ pc' = to
    /\ win' = DrawLines(win, lines \o Blank(CondenseMain))
    /\ UNCHANGED <<size, opts, data, shown>>

PrintPlatform ==
    /\ HeadFill >= 0
    /\ Draws("platform", "cpu", PlatformLines)

\* The spaces are counted without sign, and neither the host's name nor the date
\* of the locale is bounded: a negative number of them is written far beyond the
\* buffer.
HeadOverruns ==
    /\ pc = "platform" /\ pc' = "crashed"
    /\ HeadFill < 0
    /\ UNCHANGED <<size, opts, data, win, shown>>

PrintCPU == Draws("cpu", "memory",
    <<InverseLn(81)>> \o Times(IF opts.cpu THEN 1 ELSE 1 + Cores, CPULine(data.use)))

PrintMemory == Draws("memory", "virtual", MemoryLines)

PrintVirtualMemory == Draws("virtual", "disk",
    TitleAndLines(61, "v", 60, Times(2, data.over["virtual"])))

PrintDisk == Draws("disk", "network", TitleAndLines(88, "d", 88, data.drives))

PrintNetwork == Draws("network", "processes",
    TitleAndLines(NetworkWidth, "n", NetworkWidth, data.interfaces))

Listed == Len(data.processes)

Fewer(a, b) == IF a < b THEN a ELSE b

\* Mutant of ProcessLines: one line less.
ProcessLinesLess(room) ==
    Fewer(Listed, IF "p" \in opts.condensed \/ room < 1 THEN 1 ELSE room)

\* The loop breaks after the first line if the section is condensed, otherwise
\* when it has printed more than room lines.
ProcessLines(room) ==
    Fewer(Listed, IF "p" \in opts.condensed \/ room < 0 THEN 1 ELSE room + 1)

\* ProcessList::print(): the room is what is left below its title.  The line of
\* cctop itself is bold, say the first; then the number of processes.
PrintProcesses ==
    LET titled  == DrawLine(win, InverseLn(64))
        n       == ProcessLines(size.h - titled.row - 2)
        bold(i) == IF i = 1 THEN <<BoldOn, Styled(64 + data.processes[i])>>
                            ELSE <<Plain(64 + data.processes[i])>>
        lines   == [i \in 1..n |-> Ln(bold(i)) \o <<BoldOff>>]
    IN
    /\ pc = "processes" /\ pc' = "help"
    /\ win' = DrawLines(titled, lines \o << Ln(<<Plain(17)>>) >> \o Blank(CondenseMain))
    /\ shown' = n
    /\ UNCHANGED <<size, opts, data>>

\* Help::show(): a frame of 15 lines with nine lines of text.
HelpLines ==
    [i \in 1..15 |-> <<MoveTo(3 + i, 4), Plain(size.w - 8)>>]
    \o << <<MoveTo(4, 6), Plain(6)>> >>
    \o [i \in 1..7 |-> <<MoveTo(5 + i, 6), Plain(60)>>]
    \o << <<MoveTo(14, 6), Plain(26)>>, <<MoveTo(16, 6), Plain(21), MoveTo(20, 6)>> >>

ShowHelp ==
    /\ pc = "help" /\ pc' = "wait"
    /\ win' = IF opts.help THEN DrawLines(win, HelpLines) ELSE win
    /\ UNCHANGED <<size, opts, data, shown>>

-----------------------------------------------------------------------------
(* main()'s wait.                                                          *)

\* No key.
NoKey ==
    /\ pc = "wait" /\ pc' = "loop"
    /\ UNCHANGED <<size, opts, data, win, shown>>

\* A key Options::process() knows nothing of.  getch() has shown it at the cursor,
\* for nobody called noecho(): a letter, a control character as two, a tab.
IgnoredKey ==
    /\ pc = "wait" /\ pc' = "loop"
    /\ \/ \E n \in {1, 2, 8} : win' = PutText(win, n, FALSE)
       \/ win' = PutNewline(win)
    /\ UNCHANGED <<size, opts, data, shown>>

\* Options::process(): a key that changes an option clears the window.
Key ==
    /\ pc = "wait" /\ pc' = "loop"
    /\ \/ opts' = [opts EXCEPT !.cpuState = ~@, !.help = FALSE]
       \/ opts' = [opts EXCEPT !.main = ~@, !.help = FALSE]
       \/ opts' = [opts EXCEPT !.help = ~@]
       \/ opts' = [opts EXCEPT !.help = FALSE]
       \/ \E k \in Section : opts' = [opts EXCEPT !.condensed = (@ \ {k}) \cup ({k} \ @),
                                                  !.help = FALSE]
    /\ win' = Cleared(size)
    /\ UNCHANGED <<size, data, shown>>

\* Mutant of Resize: the console keeps its old size.
ResizeUnseen(s) ==
    /\ pc = "wait"
    /\ win' = Cleared(s)
    /\ UNCHANGED <<pc, size, opts, data, shown>>

\* KEY_RESIZE: Console::resize() clears the window, and the wait goes on.
Resize(s) ==
    /\ pc = "wait"
    /\ size' = s
    /\ win' = Cleared(s)
    /\ UNCHANGED <<pc, opts, data, shown>>

Loop ==
    \/ ShowTooSmall \/ Update
    \/ PrintPlatform \/ HeadOverruns \/ PrintCPU \/ PrintMemory \/ PrintVirtualMemory
    \/ PrintDisk \/ PrintNetwork \/ PrintProcesses \/ ShowHelp

Next == Loop \/ NoKey \/ IgnoredKey \/ Key \/ \E s \in Sizes : Resize(s)

Spec == Init /\ [][Next]_vars

-----------------------------------------------------------------------------
(* Properties, of a refresh that has been drawn.                           *)

Drawn == pc = "help"

\* From the first line to the last one it reaches, the window shows this
\* refresh and nothing of the one it was drawn over: each line is complete, and
\* none was drawn over another for want of room.
NothingOldBetween ==
    Drawn => \A r \in 0..(win.row - 1) : win.lines[r] \in {"new", "blank"}

\* As many processes are listed as there is room for (ProcessList.cpp:152-168,
\* main.cpp:41-51): all of them, or the number of processes stands in the
\* window's last line, and the list above leaves no gap.
ListFillsWindow ==
    Drawn /\ "p" \notin opts.condensed /\ shown < Listed =>
        /\ win.row = size.h - 1
        /\ win.lines[size.h - 1] = "new"

\* The thresholds of loop() leave the process list a line, and the number of
\* processes another, in every window that is large enough, with every section
\* open, for the machine's cores, drives and interfaces (RoomAssumption): as long
\* as no line is too long, nothing is drawn over the last line.
RoomForProcesses == Drawn /\ ~win.wrapped => ~win.spoiled

\* What each line of numbers has to spare in a window of this width: a core's bar
\* grows with its use beyond 100 percent, other lines with their numbers.
Spare ==
    /\ data.over["cpu"] + (IF data.use < 100 THEN 0 ELSE (data.use \div 5) - 20) <= size.w - 95
    /\ data.over["memory"] <= size.w - 88
    /\ data.over["swap"] <= size.w - 45
    /\ data.over["virtual"] <= size.w - 61
    /\ \A d \in 1..Drives : data.drives[d] <= size.w - 89
    /\ \A i \in 1..Len(data.interfaces) : data.interfaces[i] < size.w - NetworkWidth
    /\ \A p \in 1..Listed : data.processes[p] <= size.w - 65

\* The minimum width leaves every line of a refresh its last cell free, and some
\* more for numbers that outgrow their fields: one cell for the bar of a core
\* that used more than the ticks of a second (CPU.cpp:174), seven for the
\* differences of a drive whose counters began anew (Disk.cpp:294), one for those
\* of an interface where all its columns are shown (Network.cpp:42), eight for an
\* absurd amount of free memory (Memory.cpp:69).
NothingWraps == pc # "loop" /\ ~Small(size) /\ Spare => ~win.wrapped

\* Numbers are drawn plain: no attribute of a title, a label or a gauge is left
\* on for what follows, be it in the next section.
NothingBleeds == ~win.bleeds

=============================================================================
