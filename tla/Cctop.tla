------------------------------- MODULE Cctop -------------------------------
(***************************************************************************)
(* The program around the samplers: main() and loop() (src/main.cpp), the  *)
(* keys (src/lib/Options.cpp, Help.cpp) and the waiting for them           *)
(* (Console::read_character and resize, src/lib/Console.cpp).              *)
(*                                                                         *)
(* One thread refreshes the screen, waits for a key for about a second in  *)
(* calls of getch() of half a second each, and obeys the key.  The user    *)
(* types and resizes the terminal at any moment; ncurses learns the new    *)
(* size, and reports it as a key of its own, only in a call of getch().    *)
(*                                                                         *)
(* Time passes only inside getch(): sampling and drawing take none here.   *)
(* What a refresh samples is the subject of the other modules; here a      *)
(* refresh only matters by when it happens and what it is drawn from.      *)
(***************************************************************************)
EXTENDS Naturals, Sequences

CONSTANTS
    Sizes,      \* the terminal's possible sizes, records [w, h]
    Key,        \* the keys the user may type
    Timeout,    \* options.read_timeout, in ticks
    Slice,      \* what ::timeout() lets getch() wait, in ticks
    MaxKeys,    \* bound: keys typed
    MaxResizes  \* bound: resizes of the terminal

ASSUME SizeAssumption  == Sizes \subseteq [w: Nat, h: Nat]
ASSUME TimeAssumption  == Timeout \in Nat \ {0} /\ Slice \in Nat \ {0}
ASSUME BoundAssumption == MaxKeys \in Nat /\ MaxResizes \in Nat

VARIABLES
    \* the terminal and what ncurses knows of it
    term,       \* its size
    winch,      \* a SIGWINCH that getch() has not handled
    queue,      \* keys typed, not yet read
    typed, resized, \* how often the user acted
    \* the program
    pc,         \* what it does next
    size,       \* console.width, console.height
    opts,       \* class Options
    waited,     \* ticks since read_character() was called
    slice,      \* ticks since it called getch()
    screen,     \* what the screen shows
    \* history, read by the properties only
    elapsed,    \* ticks since the last refresh sampled the system
    skipped,    \* a refresh since then found the window too small
    lost        \* a resize was taken for a key

user    == <<term, winch, queue, typed, resized>>
history == <<elapsed, skipped, lost>>
vars    == <<user, pc, size, opts, waited, slice, screen, history>>

MinWidth  == 96
MinHeight == 30

Section == {"m", "v", "d", "n", "p"}    \* keys that condense one section

Options == [help: BOOLEAN, main: BOOLEAN, cpu: BOOLEAN, cpuState: BOOLEAN,
            condensed: SUBSET Section]

\* The screen is blank, holds the message of resize_help(), or a refresh drawn
\* for a size with some options (which decide its layout: whether sections are
\* condensed, separated by blank lines, or covered by the help window).
Blank       == [kind |-> "blank"]
TooSmall(s) == [kind |-> "small", size |-> s]
Frame(s, o) == [kind |-> "frame", size |-> s, opts |-> o]

\* History cannot tell more than that a refresh is overdue.
Overdue == Timeout + Slice

TypeOK ==
    /\ term \in Sizes /\ size \in Sizes
    /\ winch \in BOOLEAN
    /\ queue \in Seq(Key) /\ Len(queue) <= MaxKeys
    /\ typed \in 0..MaxKeys /\ resized \in 0..MaxResizes
    /\ pc \in {"start", "prompt", "first", "loop", "check", "getch", "exited"}
    /\ opts \in Options
    /\ waited \in 0..(Timeout + Slice)
    /\ slice \in 0..Slice
    /\ \/ screen = Blank
       \/ \E s \in Sizes : screen = TooSmall(s)
       \/ screen.kind = "frame" /\ screen.size \in Sizes /\ screen.opts \in Options
    /\ elapsed \in 0..Overdue
    /\ skipped \in BOOLEAN /\ lost \in BOOLEAN

\* The console knows the terminal's size from its constructor.
Init ==
    /\ term \in Sizes
    /\ winch = FALSE
    /\ queue = <<>>
    /\ typed = 0 /\ resized = 0
    /\ pc = "start"
    /\ size = term
    /\ opts = [help |-> FALSE, main |-> FALSE, cpu |-> FALSE, cpuState |-> FALSE,
               condensed |-> {}]
    /\ waited = 0 /\ slice = 0
    /\ screen = Blank
    /\ elapsed = 0 /\ skipped = FALSE /\ lost = FALSE

-----------------------------------------------------------------------------
(* The user.                                                               *)

TypeKey(k) ==
    /\ typed < MaxKeys
    /\ typed' = typed + 1
    /\ queue' = Append(queue, k)
    /\ UNCHANGED <<term, winch, resized, pc, size, opts, waited, slice, screen, history>>

ResizeTerminal(s) ==
    /\ resized < MaxResizes
    /\ s # term
    /\ resized' = resized + 1
    /\ term' = s
    /\ winch' = TRUE
    /\ UNCHANGED <<queue, typed, pc, size, opts, waited, slice, screen, history>>

\* SIGINT (^C: the terminal is in cbreak mode) or SIGTERM: exit_handler().
Signal ==
    /\ pc # "exited"
    /\ pc' = "exited"
    /\ UNCHANGED <<user, size, opts, waited, slice, screen, history>>

-----------------------------------------------------------------------------
(* main() up to its loop.                                                  *)

\* Root goes on to the first refresh, others are asked.
Start ==
    /\ pc = "start"
    /\ pc' \in {"first", "prompt"}
    /\ UNCHANGED <<user, size, opts, waited, slice, screen, history>>

\* read_character(&c, false): a blocking getch().  Any key but N goes on.
AnswerPrompt ==
    /\ pc = "prompt"
    /\ queue # <<>>
    /\ queue' = Tail(queue)
    /\ pc' = IF Head(queue) = "n" THEN "exited" ELSE "first"
    /\ UNCHANGED <<term, winch, typed, resized, size, opts, waited, slice, screen, history>>

\* So does KEY_RESIZE, which is stored in a char here: ncurses has the new
\* size, the console does not.
ResizeAnswersPrompt ==
    /\ pc = "prompt"
    /\ winch
    /\ winch' = FALSE
    /\ pc' = "first"
    /\ lost' = TRUE
    /\ UNCHANGED <<term, queue, typed, resized, size, opts, waited, slice, screen, elapsed, skipped>>

-----------------------------------------------------------------------------
(* loop()                                                                  *)

Small(s) == s.w < MinWidth \/ s.h < MinHeight

\* The second loop() of main() follows the first without waiting; every other
\* one is followed by read_character().
AfterLoop == IF pc = "first" THEN "loop" ELSE "check"

DrawTooSmall ==
    /\ pc \in {"first", "loop"}
    /\ Small(size)
    /\ screen' = TooSmall(size)
    /\ skipped' = TRUE
    /\ waited' = 0
    /\ pc' = AfterLoop
    /\ UNCHANGED <<user, size, opts, slice, elapsed, lost>>

\* Mutant of CondenseCPU: what a low window forced is never taken back.
CondenseCPUSticks(o, s) == [o EXCEPT !.cpu = @ \/ o.cpuState \/ s.h < 40]

\* options.condenseCPU is what the user chose, unless the window is low.
CondenseCPU(o, s) == [o EXCEPT !.cpu = o.cpuState \/ s.h < 40]

\* All samplers update(), then all print().
Refresh ==
    /\ pc \in {"first", "loop"}
    /\ ~Small(size)
    /\ opts' = CondenseCPU(opts, size)
    /\ screen' = Frame(size, opts')
    /\ elapsed' = 0
    /\ skipped' = FALSE
    /\ waited' = 0
    /\ pc' = AfterLoop
    /\ UNCHANGED <<user, size, slice, lost>>

-----------------------------------------------------------------------------
(* read_character(&c, true)                                                *)

\* Mutant of Check: no deadline.
CheckForever ==
    /\ pc = "check"
    /\ pc' = "getch" /\ slice' = 0
    /\ UNCHANGED <<user, size, opts, waited, screen, history>>

\* while (millis() < when): one more getch(), or no key.
Check ==
    /\ pc = "check"
    /\ IF waited < Timeout THEN pc' = "getch" /\ slice' = 0
                           ELSE pc' = "loop" /\ UNCHANGED slice
    /\ UNCHANGED <<user, size, opts, waited, screen, history>>

\* Time passes in getch() while it has nothing to return.
Tick ==
    /\ pc = "getch"
    /\ queue = <<>> /\ ~winch
    /\ slice < Slice
    /\ slice' = slice + 1
    /\ waited' = waited + 1
    /\ elapsed' = IF elapsed < Overdue THEN elapsed + 1 ELSE elapsed
    /\ UNCHANGED <<user, pc, size, opts, screen, skipped, lost>>

\* getch() returns ERR after its half second.
GetchTimesOut ==
    /\ pc = "getch"
    /\ slice = Slice
    /\ pc' = "check"
    /\ UNCHANGED <<user, size, opts, waited, slice, screen, history>>

\* getch() returns KEY_RESIZE, and the wait goes on.
KeyResize(newSize, newScreen, newWaited, newQueue) ==
    /\ pc = "getch"
    /\ winch
    /\ winch' = FALSE
    /\ size' = newSize
    /\ screen' = newScreen
    /\ waited' = newWaited
    /\ queue' = newQueue
    /\ pc' = "check"
    /\ lost' = FALSE
    /\ UNCHANGED <<term, typed, resized, opts, slice, elapsed, skipped>>

\* Mutants of GetchResizes: the second begins anew; the screen is not cleared;
\* the console keeps its old size; the keys typed so far are flushed.
GetchResizesAnew     == KeyResize(term, Blank, 0, queue)
GetchResizesOver     == KeyResize(term, screen, waited, queue)
GetchResizesNot      == KeyResize(size, Blank, waited, queue)
GetchResizesFlushing == KeyResize(term, Blank, waited, <<>>)

\* Console::resize(): the size ncurses has, and a clear screen.
GetchResizes == KeyResize(term, Blank, waited, queue)

\* Options::process() for the keys that change an option: the toggles close
\* the help window, h and ? open or close it.
Toggled(k) ==
    CASE k = "c" -> [opts EXCEPT !.cpuState = ~@, !.help = FALSE]
      [] k = "x" -> [opts EXCEPT !.main = ~@, !.help = FALSE]
      [] k \in Section -> [opts EXCEPT !.condensed = (@ \ {k}) \cup ({k} \ @), !.help = FALSE]
      [] k \in {"h", "?"} -> [opts EXCEPT !.help = ~@]
      [] k = "^L" -> [opts EXCEPT !.help = FALSE]

Obeyed == {"c", "x", "h", "?", "^L"} \cup Section

\* getch() returns a key, and main() obeys it: q quits (Console::abort), the
\* others change an option and clear the screen, or do nothing.
GetchReturnsKey ==
    LET k == Head(queue) IN
    /\ pc = "getch"
    /\ queue # <<>>
    /\ queue' = Tail(queue)
    /\ pc' = IF k = "q" THEN "exited" ELSE "loop"
    /\ IF k \in Obeyed THEN opts' = Toggled(k) /\ screen' = Blank
                       ELSE UNCHANGED <<opts, screen>>
    /\ UNCHANGED <<term, winch, typed, resized, size, waited, slice, history>>

Program ==
    \/ Start \/ AnswerPrompt \/ ResizeAnswersPrompt
    \/ DrawTooSmall \/ Refresh
    \/ Check \/ Tick \/ GetchTimesOut \/ GetchResizes \/ GetchReturnsKey

User == (\E k \in Key : TypeKey(k)) \/ (\E s \in Sizes : ResizeTerminal(s)) \/ Signal

Next == Program \/ User

\* The program runs on, and so does time.  Nothing obliges the user to act.
Spec == Init /\ [][Next]_vars /\ WF_vars(Program)

-----------------------------------------------------------------------------
(* Properties.                                                             *)

Waiting == pc \in {"check", "getch"}

\* While the program waits, what is on the screen, if anything, was drawn for
\* the size and the options the program has now: no key and no resize leaves
\* an outdated picture standing.
ScreenFaithful ==
    Waiting =>
        /\ screen.kind = "small" => screen.size = size /\ Small(size)
        /\ screen.kind = "frame" => screen.size = size /\ screen.opts = opts

\* A low window condenses the CPU section, but only as long as it is low: when
\* it has been drawn in a higher one, the section is as the user chose.
ForcedCondenseReverts ==
    Waiting /\ screen.kind = "frame" =>
        (opts.cpu # opts.cpuState => size.h < 40 /\ ~opts.cpuState)

\* As long as the window is large enough, the system is sampled less than
\* Timeout + Slice after it was sampled before, however the user types and
\* resizes meanwhile.
SampledInTime == ~skipped => elapsed < Timeout + Slice

\* The program ends up, and stays, with a picture drawn for the terminal's
\* size, unless the user quits or never answers the prompt, or the last resize
\* was what answered it.
ResizeFollowed ==
    <>[](\/ pc \in {"exited", "prompt"}
         \/ lost
         \/ screen.kind # "blank" /\ screen.size = term)

\* Once the program waits for keys, q ends it, however many keys and resizes
\* come before.
QuitQuits ==
    (pc \notin {"start", "prompt"} /\ \E n \in DOMAIN queue : queue[n] = "q") ~> pc = "exited"

\* What the help window says (Help.cpp:44 and 48, "H toggles this Help
\* Window", "Q, ^D,  or ^C to quit"): H and ^D do what they are listed for.
\* Options::process() knows neither.
HelpKeysWork ==
    [][pc = "getch" /\ queue # <<>> /\ queue' = Tail(queue) =>
         /\ Head(queue) = "H" => opts'.help # opts.help
         /\ Head(queue) = "^D" => pc' = "exited"]_vars

=============================================================================
