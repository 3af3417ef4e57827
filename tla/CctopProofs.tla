---------------------------- MODULE CctopProofs ----------------------------
(***************************************************************************)
(* Theorems about Cctop, for every set of sizes and keys and every         *)
(* timeout: what is on the screen is never outdated, and sampling goes on  *)
(* in time, whatever the user types and resizes.                           *)
(***************************************************************************)
EXTENDS Cctop, TLAPS

Screens ==
    {Blank} \cup {TooSmall(s) : s \in Sizes}
            \cup {Frame(s, o) : s \in Sizes, o \in Options}

Stages == {"start", "prompt", "first", "loop", "check", "getch", "exited"}

\* The types, with the screen as a member of a set.
TypeInv ==
    /\ term \in Sizes /\ size \in Sizes
    /\ winch \in BOOLEAN
    /\ queue \in Seq(Key) /\ Len(queue) <= typed
    /\ typed \in 0..MaxKeys /\ resized \in 0..MaxResizes
    /\ pc \in Stages
    /\ opts \in Options
    /\ screen \in Screens
    /\ skipped \in BOOLEAN /\ lost \in BOOLEAN

\* A call of getch() began before the deadline, so it ends less than a slice
\* after it; and the wait is as long as the last sample is old.
TimeInv ==
    /\ waited \in Nat /\ waited < Timeout + Slice
    /\ slice \in 0..Slice
    /\ elapsed \in 0..Overdue
    /\ pc = "getch" => waited < Timeout + slice
    /\ Waiting /\ ~skipped => elapsed = waited
    /\ SampledInTime

IInv == TypeInv /\ TimeInv /\ ScreenFaithful /\ ForcedCondenseReverts

-----------------------------------------------------------------------------
(* What is drawn.                                                          *)

\* The three kinds of picture can be told apart.
LEMMA ScreenKinds ==
    ASSUME NEW x \in Screens
    PROVE  /\ x.kind \in {"blank", "small", "frame"}
           /\ x.kind = "blank" => x = Blank
           /\ x.kind = "small" => \E s \in Sizes : x = TooSmall(s)
           /\ x.kind = "frame" => x.size \in Sizes /\ x.opts \in Options
BY DEF Screens, Blank, TooSmall, Frame

LEMMA PictureFields ==
    ASSUME NEW s, NEW o
    PROVE  /\ Blank.kind = "blank" /\ Blank \in Screens
           /\ TooSmall(s).kind = "small" /\ TooSmall(s).size = s
           /\ Frame(s, o).kind = "frame" /\ Frame(s, o).size = s /\ Frame(s, o).opts = o
BY DEF Blank, TooSmall, Frame, Screens

\* The options stay options: a key changes one of them and the help window.
LEMMA ToggledType ==
    ASSUME opts \in Options, NEW k \in Obeyed
    PROVE  Toggled(k) \in Options
<1>1. CASE k \in Section
  <2>1. (opts.condensed \ {k}) \cup ({k} \ opts.condensed) \in SUBSET Section
      BY <1>1 DEF Options
  <2>2. k \notin {"c", "x", "h", "?", "^L"}
      BY <1>1 DEF Section
  <2>3. Toggled(k) = [opts EXCEPT
            !.condensed = (opts.condensed \ {k}) \cup ({k} \ opts.condensed), !.help = FALSE]
      BY <1>1, <2>2 DEF Toggled, Options
  <2> QED
      BY <2>1, <2>3 DEF Options
<1>2. CASE k \in {"c", "x", "h", "?", "^L"}
  <2>1. k \notin Section
      BY <1>2 DEF Section
  <2> QED
      BY <1>2, <2>1 DEF Toggled, Options
<1> QED
    BY <1>1, <1>2 DEF Obeyed

\* loop() condenses the CPU section by the user's choice or in a low window.
LEMMA CondenseCPUType ==
    ASSUME NEW o \in Options, NEW s
    PROVE  /\ CondenseCPU(o, s) \in Options
           /\ CondenseCPU(o, s).cpu = (o.cpuState \/ s.h < 40)
           /\ CondenseCPU(o, s).cpuState = o.cpuState
<1>1. (o.cpuState \/ s.h < 40) \in BOOLEAN
    OBVIOUS
<1> QED
    BY <1>1 DEF CondenseCPU, Options

-----------------------------------------------------------------------------
(* The invariant.                                                          *)

LEMMA InitIInv == Init => IInv
<1> SUFFICES ASSUME Init PROVE IInv
    OBVIOUS
<1>1. opts \in Options
    BY DEF Init, Options
<1>2. TypeInv
  <2>1. queue \in Seq(Key) /\ Len(queue) <= typed
      BY DEF Init
  <2>2. screen \in Screens
      BY PictureFields DEF Init
  <2>3. typed \in 0..MaxKeys /\ resized \in 0..MaxResizes
      BY BoundAssumption DEF Init
  <2>4. winch \in BOOLEAN /\ skipped \in BOOLEAN /\ lost \in BOOLEAN
      BY DEF Init
  <2> QED
      BY <1>1, <2>1, <2>2, <2>3, <2>4 DEF Init, TypeInv, Stages
<1>3. TimeInv
    BY TimeAssumption DEF Init, TimeInv, Overdue, Waiting, SampledInTime
<1> QED
    BY <1>2, <1>3 DEF Init, IInv, ScreenFaithful, ForcedCondenseReverts, Waiting

\* The user touches nothing that the program draws from.
LEMMA UserStep ==
    ASSUME IInv, User
    PROVE  IInv'
<1>1. UNCHANGED <<size, opts, waited, slice, screen, history>>
    BY DEF User, TypeKey, ResizeTerminal, Signal
<1>2. pc' \in {pc, "exited"}
    BY DEF User, TypeKey, ResizeTerminal, Signal
<1>3. TypeInv'
  <2>1. ASSUME NEW k \in Key, TypeKey(k) PROVE TypeInv'
    <3>1. Append(queue, k) \in Seq(Key) /\ Len(Append(queue, k)) = Len(queue) + 1
        BY DEF IInv, TypeInv
    <3> QED
        BY <2>1, <3>1, BoundAssumption DEF TypeKey, IInv, TypeInv, history
  <2>2. ASSUME NEW s \in Sizes, ResizeTerminal(s) PROVE TypeInv'
      BY <2>2, BoundAssumption DEF ResizeTerminal, IInv, TypeInv, history
  <2>3. CASE Signal
      BY <2>3 DEF Signal, IInv, TypeInv, Stages, history, user
  <2> QED
      BY <2>1, <2>2, <2>3 DEF User
<1>4. TimeInv'
    BY <1>1, <1>2 DEF IInv, TimeInv, Overdue, Waiting, SampledInTime, history
<1> QED
    BY <1>1, <1>2, <1>3, <1>4 DEF IInv, ScreenFaithful, ForcedCondenseReverts, Waiting

\* main() up to its loop draws nothing and lets no time pass.
LEMMA StartStep ==
    ASSUME IInv, Start \/ AnswerPrompt \/ ResizeAnswersPrompt
    PROVE  IInv'
<1>1. pc' \in {"first", "prompt", "exited"}
    BY DEF Start, AnswerPrompt, ResizeAnswersPrompt
<1>2. UNCHANGED <<size, opts, waited, slice, screen, elapsed, skipped>>
    BY DEF Start, AnswerPrompt, ResizeAnswersPrompt, history
<1>3. TypeInv'
  <2>1. CASE Start
      BY <2>1, <1>1 DEF Start, IInv, TypeInv, Stages, history, user
  <2>2. CASE AnswerPrompt
    <3>1. Tail(queue) \in Seq(Key) /\ Len(Tail(queue)) <= Len(queue)
        BY <2>2 DEF AnswerPrompt, IInv, TypeInv
    <3> QED
        BY <2>2, <3>1, <1>1 DEF AnswerPrompt, IInv, TypeInv, Stages, history
  <2>3. CASE ResizeAnswersPrompt
      BY <2>3, <1>1 DEF ResizeAnswersPrompt, IInv, TypeInv, Stages
  <2> QED
      BY <2>1, <2>2, <2>3
<1>4. TimeInv'
    BY <1>1, <1>2 DEF IInv, TimeInv, Overdue, Waiting, SampledInTime
<1> QED
    BY <1>1, <1>3, <1>4 DEF IInv, ScreenFaithful, ForcedCondenseReverts, Waiting

\* loop(): what it draws is drawn from the size and the options it leaves.
LEMMA LoopStep ==
    ASSUME IInv, DrawTooSmall \/ Refresh
    PROVE  IInv'
<1>1. pc' \in {"loop", "check"} /\ waited' = 0 /\ UNCHANGED <<user, size, slice, lost>>
    BY DEF DrawTooSmall, Refresh, AfterLoop
<1>2. CASE DrawTooSmall
  <2>1. screen' = TooSmall(size) /\ skipped' = TRUE /\ UNCHANGED <<opts, elapsed>>
      BY <1>2 DEF DrawTooSmall
  <2>2. screen' \in Screens /\ screen'.kind = "small" /\ screen'.size = size
      BY <2>1, PictureFields DEF Screens, IInv, TypeInv
  <2>3. TypeInv'
      BY <1>1, <2>1, <2>2 DEF IInv, TypeInv, Stages, user
  <2>4. TimeInv'
      BY <1>1, <2>1, TimeAssumption DEF IInv, TimeInv, Overdue, Waiting, SampledInTime
  <2>5. Small(size)
      BY <1>2 DEF DrawTooSmall
  <2> QED
      BY <1>1, <2>2, <2>3, <2>4, <2>5
      DEF IInv, ScreenFaithful, ForcedCondenseReverts, Small
<1>3. CASE Refresh
  <2>1. /\ opts' = CondenseCPU(opts, size) /\ screen' = Frame(size, opts')
        /\ elapsed' = 0 /\ skipped' = FALSE
      BY <1>3 DEF Refresh
  <2>2. /\ opts' \in Options
        /\ opts'.cpu = (opts.cpuState \/ size.h < 40) /\ opts'.cpuState = opts.cpuState
      BY <2>1, CondenseCPUType DEF IInv, TypeInv
  <2>3. /\ screen' \in Screens
        /\ screen'.kind = "frame" /\ screen'.size = size /\ screen'.opts = opts'
      BY <2>1, <2>2, PictureFields DEF Screens, IInv, TypeInv
  <2>4. TypeInv'
      BY <1>1, <2>1, <2>2, <2>3 DEF IInv, TypeInv, Stages, user
  <2>5. TimeInv'
      BY <1>1, <2>1, TimeAssumption DEF IInv, TimeInv, Overdue, Waiting, SampledInTime
  <2>6. ScreenFaithful'
      BY <1>1, <2>3 DEF ScreenFaithful
  <2>7. ForcedCondenseReverts'
    <3>1. opts.cpuState \in BOOLEAN
        BY DEF IInv, TypeInv, Options
    <3> QED
        BY <1>1, <2>2, <3>1 DEF ForcedCondenseReverts
  <2> QED
      BY <2>4, <2>5, <2>6, <2>7 DEF IInv
<1> QED
    BY <1>2, <1>3

\* The wait: time passes in a call of getch() only, and a resize blanks the
\* screen.
LEMMA WaitStep ==
    ASSUME IInv, Check \/ Tick \/ GetchTimesOut \/ GetchResizes
    PROVE  IInv'
<1>1. CASE Check \/ Tick \/ GetchTimesOut
  <2>1. pc' \in {"getch", "check", "loop"} /\ Waiting
      BY <1>1 DEF Check, Tick, GetchTimesOut, Waiting
  <2>2. UNCHANGED <<user, size, opts, screen, skipped, lost>>
      BY <1>1 DEF Check, Tick, GetchTimesOut, history
  <2>3. TypeInv'
      BY <2>1, <2>2 DEF IInv, TypeInv, Stages, user
  <2>4. TimeInv'
    <3>1. CASE Check
        BY <3>1, TimeAssumption
        DEF Check, IInv, TimeInv, Overdue, Waiting, SampledInTime, history
    <3>2. CASE Tick
        BY <3>2, TimeAssumption
        DEF Tick, IInv, TimeInv, Overdue, Waiting, SampledInTime
    <3>3. CASE GetchTimesOut
        BY <3>3, TimeAssumption
        DEF GetchTimesOut, IInv, TimeInv, Overdue, Waiting, SampledInTime, history
    <3> QED
        BY <1>1, <3>1, <3>2, <3>3
  <2>5. ScreenFaithful' /\ ForcedCondenseReverts'
      BY <2>1, <2>2 DEF IInv, ScreenFaithful, ForcedCondenseReverts, Small
  <2> QED
      BY <2>3, <2>4, <2>5 DEF IInv
<1>2. CASE GetchResizes
  <2>1. screen' \in Screens /\ screen'.kind = "blank"
      BY <1>2, PictureFields DEF GetchResizes, KeyResize
  <2>2. TypeInv'
      BY <1>2, <2>1 DEF GetchResizes, KeyResize, IInv, TypeInv, Stages
  <2>3. TimeInv'
      BY <1>2 DEF GetchResizes, KeyResize, IInv, TimeInv, Overdue, Waiting, SampledInTime
  <2> QED
      BY <2>1, <2>2, <2>3 DEF IInv, ScreenFaithful, ForcedCondenseReverts
<1> QED
    BY <1>1, <1>2

\* A key ends the wait.
LEMMA KeyStep ==
    ASSUME IInv, GetchReturnsKey
    PROVE  IInv'
<1>1. pc' \in {"loop", "exited"}
    BY DEF GetchReturnsKey
<1>2. Tail(queue) \in Seq(Key) /\ Len(Tail(queue)) <= Len(queue)
    BY DEF GetchReturnsKey, IInv, TypeInv
<1>3. opts' \in Options /\ screen' \in Screens
  <2>1. CASE Head(queue) \in Obeyed
      BY <2>1, ToggledType DEF GetchReturnsKey, IInv, TypeInv, Screens
  <2>2. CASE Head(queue) \notin Obeyed
      BY <2>2 DEF GetchReturnsKey, IInv, TypeInv
  <2> QED
      BY <2>1, <2>2
<1>4. TypeInv'
    BY <1>1, <1>2, <1>3 DEF GetchReturnsKey, IInv, TypeInv, Stages, history
<1>5. TimeInv'
    BY <1>1 DEF GetchReturnsKey, IInv, TimeInv, Overdue, Waiting, SampledInTime, history
<1> QED
    BY <1>1, <1>4, <1>5 DEF IInv, ScreenFaithful, ForcedCondenseReverts, Waiting

LEMMA NextIInv == IInv /\ [Next]_vars => IInv'
<1> SUFFICES ASSUME IInv, [Next]_vars PROVE IInv'
    OBVIOUS
<1>1. CASE UNCHANGED vars
    BY <1>1
    DEF vars, user, history, IInv, TypeInv, TimeInv, ScreenFaithful, ForcedCondenseReverts,
        Waiting, SampledInTime, Overdue, Small
<1>2. CASE Next
    BY <1>2, UserStep, StartStep, LoopStep, WaitStep, KeyStep DEF Next, Program
<1> QED
    BY <1>1, <1>2

\* What the properties follow from.
THEOREM InductiveInvariant == Spec => []IInv
BY InitIInv, NextIInv, PTL DEF Spec

-----------------------------------------------------------------------------
(* What follows.                                                           *)

\* All variables have their types in every reachable state.
THEOREM TypeCorrect == Spec => []TypeOK
<1>1. ASSUME IInv PROVE TypeOK
  <2>1. \/ screen = Blank
        \/ \E s \in Sizes : screen = TooSmall(s)
        \/ screen.kind = "frame" /\ screen.size \in Sizes /\ screen.opts \in Options
      BY <1>1, ScreenKinds DEF IInv, TypeInv
  <2>2. Len(queue) <= MaxKeys
      BY <1>1, BoundAssumption DEF IInv, TypeInv
  <2>3. waited \in 0..(Timeout + Slice)
      BY <1>1, TimeAssumption DEF IInv, TimeInv
  <2> QED
      BY <1>1, <2>1, <2>2, <2>3 DEF IInv, TypeInv, TimeInv, Stages, TypeOK
<1> QED
    BY <1>1, InductiveInvariant, PTL

\* While the program waits, what is on the screen was drawn for the size and
\* the options it has.
THEOREM ScreenFaithfulHolds == Spec => []ScreenFaithful
<1>1. IInv => ScreenFaithful
    BY DEF IInv
<1> QED
    BY <1>1, InductiveInvariant, PTL

\* Only a low window overrides the user's choice for the CPU section.
THEOREM ForcedCondenseRevertsHolds == Spec => []ForcedCondenseReverts
<1>1. IInv => ForcedCondenseReverts
    BY DEF IInv
<1> QED
    BY <1>1, InductiveInvariant, PTL

\* Keys and resizes, however many, put off the next sample by less than a
\* slice of getch().
THEOREM SampledInTimeHolds == Spec => []SampledInTime
<1>1. IInv => SampledInTime
    BY DEF IInv, TimeInv
<1> QED
    BY <1>1, InductiveInvariant, PTL

=============================================================================
