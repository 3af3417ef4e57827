------------------------------ MODULE Terminal ------------------------------
(***************************************************************************)
(* The terminal from the start of the program to its end: the constructor, *)
(* raw(), cleanup(), abort() and destructor of Console, the signal handler *)
(* (src/lib/Console.cpp), main() (src/main.cpp), and the exits of others.  *)
(*                                                                         *)
(* The terminal belongs to the shell, which lends it to the program: its   *)
(* modes (termios) and its window (alternate screen, keypad, cursor) are   *)
(* changed by initscr() and have to be given back however the program      *)
(* ends.  It ends by exit(), called in five places, one of them a handler  *)
(* of SIGINT and SIGTERM that runs wherever the program happens to be: in  *)
(* the middle of cleanup(), of exit(), or of ncurses and the heap, neither *)
(* of which may be used then.                                              *)
(*                                                                         *)
(* The handler does not return, so what it interrupted never goes on and   *)
(* only the innermost routine is state.  A signal is masked while its own  *)
(* handler runs; the other one may still come.                             *)
(***************************************************************************)
EXTENDS Naturals

VARIABLES
    \* the terminal: who its settings are for
    modes,      \* termios
    window,     \* what endwin() puts back: screen, keypad, cursor
    \* class Console
    aborting,
    \* the process
    pc,         \* what it does next
    by,         \* whose routine that is: "main", "abort", a signal, "destructor"
    installed,  \* signals that exit_handler() is installed for
    handled,    \* signals whose handler has been entered
    registered, \* exit() has yet to call ~Console()
    midway,     \* a signal came in the middle of ncurses, stdio or the heap
    ended,      \* how the process ended
    \* history, read by the properties only
    said        \* last words: who said them, and in whose window

terminal == <<modes, window>>
process  == <<by, installed, handled, registered, midway, ended>>
vars     == <<terminal, aborting, pc, process, said>>

Owner  == {"shell", "program"}
Signal == {"SIGINT", "SIGTERM"}

Stage ==
    {"tcgetattr", "initscr", "sigint", "sigterm", "globals", "raw", "prompt",
     "hide", "draw", "wait", "tcsetattr", "endwin", "aborting", "words",
     "exit", "destructors", "flush", "hung", "ended"}

\* The stages at which the program is inside ncurses, stdio or the heap.
InLibrary ==
    {"globals", "raw", "prompt", "hide", "draw", "wait", "endwin",
     "words", "destructors", "flush"}

TypeOK ==
    /\ modes \in Owner /\ window \in Owner
    /\ aborting \in BOOLEAN
    /\ pc \in Stage
    /\ by \in {"main", "abort", "destructor"} \cup Signal
    /\ installed \subseteq Signal /\ handled \subseteq installed
    /\ registered \in BOOLEAN /\ midway \in BOOLEAN
    /\ ended \in {"no", "exit", "crash", "killed"}
    /\ said \subseteq [who: {"abort", "sysctl"} \cup Signal, where: Owner]

Init ==
    /\ modes = "shell" /\ window = "shell"
    /\ aborting = FALSE
    /\ pc = "tcgetattr" /\ by = "main"
    /\ installed = {} /\ handled = {}
    /\ registered = FALSE /\ midway = FALSE
    /\ ended = "no"
    /\ said = {}

Goto(from, to) == pc = from /\ pc' = to

\* refresh() and getch() take the terminal, also after an endwin().
Take == modes' = "program" /\ window' = "program"

-----------------------------------------------------------------------------
(* Console::Console().  It is the first of the globals that matter here:   *)
(* the others are constructed after and destroyed before it.               *)

SaveTermios ==
    /\ Goto("tcgetattr", "initscr")
    /\ UNCHANGED <<terminal, aborting, process, said>>

InitScr ==
    /\ Goto("initscr", "sigint")
    /\ Take
    /\ UNCHANGED <<aborting, process, said>>

Install(s) ==
    /\ installed' = installed \cup {s}
    /\ UNCHANGED <<terminal, aborting, by, handled, midway, ended, said>>

InstallSigint == Goto("sigint", "sigterm") /\ Install("SIGINT") /\ UNCHANGED registered

\* The last statement of the constructor, after which exit() knows of it.
InstallSigterm == Goto("sigterm", "globals") /\ Install("SIGTERM") /\ registered' = TRUE

-----------------------------------------------------------------------------
(* main()                                                                  *)

Globals ==
    /\ Goto("globals", "raw")
    /\ UNCHANGED <<terminal, aborting, process, said>>

\* raw(), which ncurses obeys at once; anybody but root is asked.
Raw ==
    /\ pc = "raw"
    /\ pc' \in {"prompt", "hide"}
    /\ UNCHANGED <<terminal, aborting, process, said>>

\* N is the only answer that ends the program: exit(0).
Prompt ==
    /\ pc = "prompt"
    /\ Take
    /\ pc' \in {"exit", "hide"}
    /\ UNCHANGED <<aborting, process, said>>

\* raw(true), show_cursor(false)
Hide ==
    /\ Goto("hide", "draw")
    /\ Take
    /\ UNCHANGED <<aborting, process, said>>

\* loop() and update().
Draw ==
    /\ Goto("draw", "wait")
    /\ Take
    /\ UNCHANGED <<aborting, process, said>>

\* read_character() and a key other than q, or none.
Wait ==
    /\ Goto("wait", "draw")
    /\ Take
    /\ UNCHANGED <<aborting, process, said>>

\* Mutant of Abort: the message first, while the window is the program's.
AbortSpeaking ==
    /\ pc \in {"globals", "wait"}
    /\ by' = "abort"
    /\ pc' = "tcsetattr"
    /\ said' = said \cup {[who |-> "abort", where |-> window]}
    /\ UNCHANGED <<terminal, aborting, installed, handled, registered, midway, ended>>

\* Console::abort(): a drive's constructor finds something missing, or q.
Abort ==
    /\ pc \in {"globals", "wait"}
    /\ by' = "abort"
    /\ pc' = "tcsetattr"
    /\ UNCHANGED <<terminal, aborting, installed, handled, registered, midway, ended, said>>

\* Network::read(), in its constructor or a refresh, prints why and exits
\* without a cleanup() of its own: the window is still the program's.
SysctlFails ==
    /\ pc \in {"globals", "draw"}
    /\ said' = said \cup {[who |-> "sysctl", where |-> window]}
    /\ pc' = "exit"
    /\ UNCHANGED <<terminal, aborting, process>>

-----------------------------------------------------------------------------
(* Console::cleanup(), called by abort(), exit_handler() and ~Console().   *)

RestoreTermios ==
    /\ Goto("tcsetattr", "endwin")
    /\ modes' = "shell"
    /\ UNCHANGED <<window, aborting, process, said>>

\* endwin() gives the window back, and the modes once more.
EndWin ==
    /\ Goto("endwin", "aborting")
    /\ IF aborting THEN UNCHANGED terminal
                   ELSE modes' = "shell" /\ window' = "shell"
    /\ UNCHANGED <<aborting, process, said>>

\* The end of cleanup(): ~Console() is the last destructor, the others have
\* something to say.
SetAborting ==
    /\ pc = "aborting"
    /\ aborting' = TRUE
    /\ pc' = IF by = "destructor" THEN "flush" ELSE "words"
    /\ UNCHANGED <<terminal, process, said>>

\* abort() prints its message, exit_handler() ^C or KILLED.
LastWords ==
    /\ Goto("words", "exit")
    /\ said' = said \cup {[who |-> by, where |-> window]}
    /\ UNCHANGED <<terminal, aborting, process>>

-----------------------------------------------------------------------------
(* exit(), which may be called again while it runs: it goes on with the    *)
(* destructors that have not been called.                                  *)

\* Mutant of Exit: exit_handler() returns, and main() goes on.
ExitReturns ==
    /\ pc = "exit"
    /\ pc' = IF by \in Signal THEN "draw" ELSE "destructors"
    /\ UNCHANGED <<terminal, aborting, process, said>>

Exit ==
    /\ Goto("exit", "destructors")
    /\ UNCHANGED <<terminal, aborting, process, said>>

\* The other globals' destructors, then ~Console() if it has not been called.
Destructors ==
    /\ pc = "destructors"
    /\ IF registered THEN /\ registered' = FALSE
                          /\ by' = "destructor"
                          /\ pc' = "tcsetattr"
                     ELSE pc' = "flush" /\ UNCHANGED <<registered, by>>
    /\ UNCHANGED <<terminal, aborting, installed, handled, midway, ended, said>>

Ends(how) ==
    /\ ended' = how
    /\ pc' = "ended"
    /\ UNCHANGED <<aborting, by, installed, handled, registered, midway, said>>

Flush == pc = "flush" /\ Ends("exit") /\ UNCHANGED terminal

\* A handler that came in the middle of a library uses it all the same, and
\* finds it in a state it is not made for: a crash, or a lock that whom it
\* interrupted will never give back.
InLibraryAgain == midway /\ pc \in {"endwin", "words", "destructors", "flush"}

LibraryCrashes == InLibraryAgain /\ Ends("crash") /\ UNCHANGED terminal

LibraryHangs ==
    /\ InLibraryAgain
    /\ pc' = "hung"
    /\ UNCHANGED <<terminal, aborting, process, said>>

-----------------------------------------------------------------------------
(* Signals.                                                                *)

\* Mutants of ExitHandler: it is there before signal() is called; it relies on
\* endwin() for the modes; another signal while it runs ends the program at once.
ExitHandlerEarly(s) ==
    /\ pc # "ended"
    /\ s \notin handled
    /\ handled' = handled \cup {s}
    /\ midway' = (midway \/ pc \in InLibrary)
    /\ by' = s
    /\ pc' = "tcsetattr"
    /\ UNCHANGED <<terminal, aborting, installed, registered, ended, said>>

ExitHandlerLate(s) ==
    /\ pc # "ended"
    /\ s \in installed \ handled
    /\ handled' = handled \cup {s}
    /\ midway' = (midway \/ pc \in InLibrary)
    /\ by' = s
    /\ pc' = "endwin"
    /\ UNCHANGED <<terminal, aborting, installed, registered, ended, said>>

ExitHandlerOnce(s) ==
    /\ pc # "ended"
    /\ s \in installed \ handled
    /\ handled' = handled \cup {s}
    /\ midway' = (midway \/ pc \in InLibrary)
    /\ by' = s
    /\ pc' = IF handled = {} THEN "tcsetattr" ELSE "flush"
    /\ UNCHANGED <<terminal, aborting, installed, registered, ended, said>>

\* exit_handler() is entered.
ExitHandler(s) ==
    /\ pc # "ended"
    /\ s \in installed \ handled
    /\ handled' = handled \cup {s}
    /\ midway' = (midway \/ pc \in InLibrary)
    /\ by' = s
    /\ pc' = "tcsetattr"
    /\ UNCHANGED <<terminal, aborting, installed, registered, ended, said>>

\* Before signal() has been called for it: death at once, or, after initscr(),
\* the handler of ncurses, which calls endwin() first.
EarlySignal(s) ==
    /\ pc \in {"tcgetattr", "initscr", "sigint", "sigterm"}
    /\ s \notin installed
    /\ modes' = "shell" /\ window' = "shell"
    /\ Ends("killed")

\* A signal that nobody handles (SIGKILL, SIGQUIT, a trap) ends everything.
Killed == pc # "ended" /\ Ends("killed") /\ UNCHANGED terminal

-----------------------------------------------------------------------------

Cleanup == RestoreTermios \/ EndWin \/ SetAborting

Program ==
    \/ SaveTermios \/ InitScr \/ InstallSigint \/ InstallSigterm
    \/ Globals \/ Raw \/ Prompt \/ Hide \/ Draw \/ Wait \/ Abort \/ SysctlFails
    \/ Cleanup \/ LastWords \/ Exit \/ Destructors \/ Flush
    \/ LibraryCrashes \/ LibraryHangs

Next == Program \/ Killed \/ \E s \in Signal : ExitHandler(s) \/ EarlySignal(s)

\* The process is scheduled.  Nothing obliges anybody to send a signal, and
\* nothing obliges main() to come to an end.
Spec == Init /\ [][Next]_vars /\ WF_vars(Program)

-----------------------------------------------------------------------------
(* Properties.                                                             *)

\* A program that ends by exit(), wherever it was called and whatever signals
\* came meanwhile, leaves the terminal as it found it: no order of cleanup()s
\* interrupting one another makes each of them rely on another's endwin()
\* (Console.cpp:240-252).
RestoredAtExit == ended = "exit" => modes = "shell" /\ window = "shell"

\* Should the handler break down in a library it interrupted, the modes, which
\* a user cannot see to type without, have been put back before.
ModesFirst == ended = "crash" \/ pc = "hung" => modes = "shell"

\* What abort() and the handler print ("print a message and exit cleanly",
\* Console.h:64) appears in the shell's window, not in one that endwin() then
\* takes away.  Network::read() does not see to that.
WordsStay == \A w \in said : w.who # "sysctl" => w.where = "shell"

\* Once cleanup() has run endwin(), nothing takes the terminal again.
GivenBackForGood ==
    [][aborting /\ window = "shell" => window' = "shell" /\ modes' = "shell"]_vars

\* A signal that is handled, or a quit by key, ends the program, however many
\* handlers and destructors that takes, unless it hangs in a library.
EndsWhenTold == (handled # {} \/ by = "abort") ~> pc \in {"hung", "ended"}

=============================================================================
