--------------------------- MODULE TerminalProofs ---------------------------
(***************************************************************************)
(* Theorems about Terminal: whatever signals come, and wherever they find  *)
(* the program, the terminal is given back by every exit(), its modes      *)
(* before anything that may fail, and never taken again.                   *)
(***************************************************************************)
EXTENDS Terminal, TLAPS

\* Where the program holds the terminal, and where it is being given back.
Main    == {"tcgetattr", "initscr", "sigint", "sigterm", "globals", "raw",
            "prompt", "hide", "draw", "wait"}
Cleaning == {"tcsetattr", "endwin", "aborting", "words"}

\* Only abort(), the handlers and the destructor call cleanup(), and the
\* destructor has no last words.
ByWhom ==
    /\ pc \in Cleaning => by # "main"
    /\ pc = "words" => by # "destructor"

\* aborting says that the terminal has been given back, for good.
AbortingIsRestored == aborting => modes = "shell" /\ window = "shell" /\ pc \notin Main

\* How far cleanup() has come, whoever runs it.
CleanupInv ==
    /\ pc = "endwin" => modes = "shell"
    /\ pc = "aborting" => modes = "shell" /\ window = "shell"
    /\ pc \in {"words", "flush"} => aborting

\* exit() either has ~Console() to call yet, or comes after a cleanup() that
\* has been to its end.
ExitInv ==
    /\ pc \in {"globals", "raw", "prompt", "hide", "draw", "wait"} => registered
    /\ pc \in {"exit", "destructors"} => registered \/ aborting

\* A handler that interrupted a library never lets the program go on, and has
\* put the modes back when it uses a library itself.
MidwayInv ==
    /\ midway => pc \notin Main
    /\ midway /\ pc \in {"exit", "destructors"} => aborting

Ending == ended = "no" \/ pc = "ended"

IInv ==
    /\ TypeOK /\ ByWhom /\ AbortingIsRestored /\ CleanupInv /\ ExitInv /\ MidwayInv
    /\ Ending
    /\ RestoredAtExit /\ ModesFirst /\ WordsStay

-----------------------------------------------------------------------------
(* The invariant.                                                          *)

LEMMA InitIInv == Init => IInv
BY DEF Init, IInv, TypeOK, Owner, Signal, Stage, ByWhom, Cleaning, AbortingIsRestored, Main,
       CleanupInv, ExitInv, MidwayInv, Ending, RestoredAtExit, ModesFirst, WordsStay

\* The constructor and main(): while they run, nobody has given anything back.
LEMMA MainStep ==
    ASSUME IInv,
           \/ SaveTermios \/ InitScr \/ InstallSigint \/ InstallSigterm
           \/ Globals \/ Raw \/ Prompt \/ Hide \/ Draw \/ Wait
    PROVE  IInv'
<1> USE DEF IInv, TypeOK, Owner, Signal, Stage, ByWhom, Cleaning, AbortingIsRestored, Main,
            CleanupInv, ExitInv, MidwayInv, Ending, RestoredAtExit, ModesFirst, WordsStay,
            Goto, Take, terminal, process
<1>1. CASE SaveTermios
    BY <1>1 DEF SaveTermios
<1>2. CASE InitScr
    BY <1>2 DEF InitScr
<1>3. CASE InstallSigint
    BY <1>3 DEF InstallSigint, Install
<1>4. CASE InstallSigterm
    BY <1>4 DEF InstallSigterm, Install
<1>5. CASE Globals
    BY <1>5 DEF Globals
<1>6. CASE Raw
    BY <1>6 DEF Raw
<1>7. CASE Prompt
    BY <1>7 DEF Prompt
<1>8. CASE Hide
    BY <1>8 DEF Hide
<1>9. CASE Draw
    BY <1>9 DEF Draw
<1>10. CASE Wait
    BY <1>10 DEF Wait
<1> QED
    BY <1>1, <1>2, <1>3, <1>4, <1>5, <1>6, <1>7, <1>8, <1>9, <1>10

\* What ends main(): abort(), a failing sysctl(), a signal.
LEMMA EndStep ==
    ASSUME IInv,
           \/ Abort \/ SysctlFails \/ Killed
           \/ \E s \in Signal : ExitHandler(s) \/ EarlySignal(s)
    PROVE  IInv'
<1> USE DEF IInv, TypeOK, Owner, Stage, ByWhom, Cleaning, AbortingIsRestored, Main,
            CleanupInv, ExitInv, MidwayInv, Ending, RestoredAtExit, ModesFirst, WordsStay,
            terminal, process
<1>1. CASE Abort
    BY <1>1 DEF Abort, Signal
<1>2. CASE SysctlFails
  <2>1. [who |-> "sysctl", where |-> window] \in
            [who: {"abort", "sysctl"} \cup Signal, where: Owner]
      OBVIOUS
  <2> QED
      BY <1>2, <2>1 DEF SysctlFails, Signal
<1>3. CASE Killed
    BY <1>3 DEF Killed, Ends
<1>4. ASSUME NEW s \in Signal, ExitHandler(s) PROVE IInv'
    BY <1>4 DEF ExitHandler, InLibrary, Signal
<1>5. ASSUME NEW s \in Signal, EarlySignal(s) PROVE IInv'
    BY <1>5 DEF EarlySignal, Ends
<1> QED
    BY <1>1, <1>2, <1>3, <1>4, <1>5

\* cleanup() and what its callers do next.
LEMMA CleanupStep ==
    ASSUME IInv, RestoreTermios \/ EndWin \/ SetAborting \/ LastWords
    PROVE  IInv'
<1> USE DEF IInv, TypeOK, Owner, Signal, Stage, ByWhom, Cleaning, AbortingIsRestored, Main,
            CleanupInv, ExitInv, MidwayInv, Ending, RestoredAtExit, ModesFirst, WordsStay,
            Goto, terminal, process
<1>1. CASE RestoreTermios
    BY <1>1 DEF RestoreTermios
<1>2. CASE EndWin
    BY <1>2 DEF EndWin
<1>3. CASE SetAborting
    BY <1>3 DEF SetAborting
<1>4. CASE LastWords
  <2>1. window = "shell" /\ by \in {"abort"} \cup Signal
      BY <1>4 DEF LastWords
  <2>2. [who |-> by, where |-> window] \in
            [who: {"abort", "sysctl"} \cup Signal, where: Owner]
      BY <2>1
  <2> QED
      BY <1>4, <2>1, <2>2 DEF LastWords
<1> QED
    BY <1>1, <1>2, <1>3, <1>4

\* exit(), to its end or the one a library makes.
LEMMA ExitStep ==
    ASSUME IInv, Exit \/ Destructors \/ Flush \/ LibraryCrashes \/ LibraryHangs
    PROVE  IInv'
<1> USE DEF IInv, TypeOK, Owner, Signal, Stage, ByWhom, Cleaning, AbortingIsRestored, Main,
            CleanupInv, ExitInv, MidwayInv, Ending, RestoredAtExit, ModesFirst, WordsStay,
            Goto, terminal, process
<1>1. CASE Exit
    BY <1>1 DEF Exit
<1>2. CASE Destructors
    BY <1>2 DEF Destructors
<1>3. CASE Flush
    BY <1>3 DEF Flush, Ends
<1>4. CASE LibraryCrashes
    BY <1>4 DEF LibraryCrashes, InLibraryAgain, Ends
<1>5. CASE LibraryHangs
    BY <1>5 DEF LibraryHangs, InLibraryAgain
<1> QED
    BY <1>1, <1>2, <1>3, <1>4, <1>5

LEMMA NextIInv == IInv /\ [Next]_vars => IInv'
<1> SUFFICES ASSUME IInv, [Next]_vars PROVE IInv'
    OBVIOUS
<1>1. CASE UNCHANGED vars
    BY <1>1
    DEF vars, terminal, process, IInv, TypeOK, ByWhom, AbortingIsRestored, CleanupInv,
        ExitInv, MidwayInv, Ending, RestoredAtExit, ModesFirst, WordsStay
<1>2. CASE Next
    BY <1>2, MainStep, EndStep, CleanupStep, ExitStep DEF Next, Program, Cleanup
<1> QED
    BY <1>1, <1>2

\* What the properties follow from: how far cleanup() has come is known by
\* where the program stands, however often it was interrupted and begun anew.
THEOREM InductiveInvariant == Spec => []IInv
BY InitIInv, NextIInv, PTL DEF Spec

-----------------------------------------------------------------------------
(* What follows.                                                           *)

\* All variables have their types in every reachable state.
THEOREM TypeCorrect == Spec => []TypeOK
<1>1. IInv => TypeOK
    BY DEF IInv
<1> QED
    BY <1>1, InductiveInvariant, PTL

\* A program that ends by exit(), wherever it was called and whatever signals
\* came meanwhile, leaves the terminal as it found it (Console::cleanup).
THEOREM RestoredAtExitHolds == Spec => []RestoredAtExit
<1>1. IInv => RestoredAtExit
    BY DEF IInv
<1> QED
    BY <1>1, InductiveInvariant, PTL

\* A handler that breaks down in a library it interrupted has put the modes
\* back before (cleanup() calls tcsetattr() first).
THEOREM ModesFirstHolds == Spec => []ModesFirst
<1>1. IInv => ModesFirst
    BY DEF IInv
<1> QED
    BY <1>1, InductiveInvariant, PTL

\* The last words of abort() and of the handler appear in the shell's window.
THEOREM WordsStayHolds == Spec => []WordsStay
<1>1. IInv => WordsStay
    BY DEF IInv
<1> QED
    BY <1>1, InductiveInvariant, PTL

\* Once cleanup() has given the terminal back, no step takes it again: the
\* stages that take it are those of main(), which a handler does not return to.
THEOREM GivenBackForGoodHolds == Spec => GivenBackForGood
<1>1. ASSUME IInv, [Next]_vars, aborting, window = "shell"
      PROVE  window' = "shell" /\ modes' = "shell"
  <2>1. pc \notin Main /\ modes = "shell"
      BY <1>1 DEF IInv, AbortingIsRestored
  <2>2. CASE UNCHANGED vars
      BY <2>1, <2>2, <1>1 DEF vars, terminal
  <2>3. CASE \/ SaveTermios \/ InitScr \/ InstallSigint \/ InstallSigterm
             \/ Globals \/ Raw \/ Prompt \/ Hide \/ Draw \/ Wait
      BY <2>1, <2>3
      DEF Main, Goto, SaveTermios, InitScr, InstallSigint, InstallSigterm, Globals, Raw,
          Prompt, Hide, Draw, Wait
  <2>4. CASE \/ Abort \/ SysctlFails \/ Killed
             \/ \E s \in Signal : ExitHandler(s) \/ EarlySignal(s)
      BY <2>1, <2>4, <1>1
      DEF Abort, SysctlFails, Killed, ExitHandler, EarlySignal, Ends, terminal
  <2>5. CASE \/ RestoreTermios \/ EndWin \/ SetAborting \/ LastWords
             \/ Exit \/ Destructors \/ Flush \/ LibraryCrashes \/ LibraryHangs
      BY <2>1, <2>5, <1>1
      DEF RestoreTermios, EndWin, SetAborting, LastWords, Exit, Destructors, Flush,
          LibraryCrashes, LibraryHangs, Ends, Goto, terminal
  <2> QED
      BY <1>1, <2>2, <2>3, <2>4, <2>5 DEF Next, Program, Cleanup
<1>2. IInv /\ [Next]_vars => [aborting /\ window = "shell" => window' = "shell" /\ modes' = "shell"]_vars
    BY <1>1
<1> QED
    BY <1>2, InductiveInvariant, PTL DEF Spec, GivenBackForGood

=============================================================================
