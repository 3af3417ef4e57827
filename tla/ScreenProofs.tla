---------------------------- MODULE ScreenProofs ----------------------------
(***************************************************************************)
(* Theorems about Screen, for every set of window sizes, all data of the   *)
(* samplers, and every machine the thresholds of loop() are made for       *)
(* (RoomAssumption).                                                       *)
(*                                                                         *)
(* The argument goes from the single calls of Console (PutText, newline,   *)
(* attributes) to the sequences of them that make a line, and from the     *)
(* lines to the sections.  Three things are known of a line: where it      *)
(* leaves the cursor and what lies above it (Keeps), that it takes back    *)
(* the attributes it turns on (Tidy), and how many cells it needs (Cells). *)
(* A line that ends with a newline and has all three is one of Rows, each  *)
(* print() is a sequence of Rows, and After says what n of them make of a  *)
(* window: they take n rows, or the window ends before.  The invariant     *)
(* counts the rows: each section begins no lower than RowsBefore it.       *)
(***************************************************************************)
EXTENDS Screen, TLAPS, SequenceTheorems

Common == INSTANCE Lemmas WITH Word <- 1    \* the lemmas on recursion need no width

-----------------------------------------------------------------------------
(* Short sequences, one element at a time.                                 *)

LEMMA Pair ==
    ASSUME NEW a, NEW b
    PROVE  <<a>> \o <<b>> = <<a, b>>
<1> DEFINE S == {a, b}
<1> DEFINE s == <<a>>
<1> DEFINE t == <<b>>
<1> DEFINE r == <<a, b>>
<1>1. /\ s \in Seq(S) /\ t \in Seq(S) /\ r \in Seq(S) /\ Len(s) = 1 /\ Len(t) = 1 /\ Len(r) = 2
      /\ s[1] = a /\ t[1] = b /\ r[1] = a /\ r[2] = b
    OBVIOUS
<1> HIDE DEF s, t, r, S
<1>2. /\ s \o t \in Seq(S) /\ Len(s \o t) = Len(s) + Len(t)
      /\ \A i \in 1..(Len(s) + Len(t)) : (s \o t)[i] = IF i <= Len(s) THEN s[i] ELSE t[i - Len(s)]
    BY <1>1, ConcatProperties
<1>3. Len(s \o t) = Len(r) /\ \A i \in 1..Len(s \o t) : (s \o t)[i] = r[i]
    BY <1>1, <1>2
<1>4. s \o t = r
    BY <1>1, <1>2, <1>3, SeqEqual
<1> QED
    BY <1>4 DEF s, t, r

LEMMA Triple ==
    ASSUME NEW a, NEW b, NEW c
    PROVE  (<<a>> \o <<b>>) \o <<c>> = <<a, b, c>>
<1> DEFINE S == {a, b, c}
<1> DEFINE s == <<a, b>>
<1> DEFINE t == <<c>>
<1> DEFINE r == <<a, b, c>>
<1>1. /\ s \in Seq(S) /\ t \in Seq(S) /\ r \in Seq(S) /\ Len(s) = 2 /\ Len(t) = 1 /\ Len(r) = 3
      /\ s[1] = a /\ s[2] = b /\ t[1] = c /\ r[1] = a /\ r[2] = b /\ r[3] = c
    OBVIOUS
<1> HIDE DEF s, t, r, S
<1>2. /\ s \o t \in Seq(S) /\ Len(s \o t) = Len(s) + Len(t)
      /\ \A i \in 1..(Len(s) + Len(t)) : (s \o t)[i] = IF i <= Len(s) THEN s[i] ELSE t[i - Len(s)]
    BY <1>1, ConcatProperties
<1>3. Len(s \o t) = Len(r) /\ \A i \in 1..Len(s \o t) : (s \o t)[i] = r[i]
    BY <1>1, <1>2
<1>4. s \o t = r
    BY <1>1, <1>2, <1>3, SeqEqual
<1>5. <<a>> \o <<b>> = s
    BY Pair DEF s
<1> QED
    BY <1>4, <1>5 DEF t, r

LEMMA Quadruple ==
    ASSUME NEW a, NEW b, NEW c, NEW d
    PROVE  ((<<a>> \o <<b>>) \o <<c>>) \o <<d>> = <<a, b, c, d>>
<1> DEFINE S == {a, b, c, d}
<1> DEFINE s == <<a, b, c>>
<1> DEFINE t == <<d>>
<1> DEFINE r == <<a, b, c, d>>
<1>1. /\ s \in Seq(S) /\ t \in Seq(S) /\ r \in Seq(S) /\ Len(s) = 3 /\ Len(t) = 1 /\ Len(r) = 4
      /\ s[1] = a /\ s[2] = b /\ s[3] = c /\ t[1] = d
      /\ r[1] = a /\ r[2] = b /\ r[3] = c /\ r[4] = d
    OBVIOUS
<1> HIDE DEF s, t, r, S
<1>2. /\ s \o t \in Seq(S) /\ Len(s \o t) = Len(s) + Len(t)
      /\ \A i \in 1..(Len(s) + Len(t)) : (s \o t)[i] = IF i <= Len(s) THEN s[i] ELSE t[i - Len(s)]
    BY <1>1, ConcatProperties
<1>3. Len(s \o t) = Len(r) /\ \A i \in 1..Len(s \o t) : (s \o t)[i] = r[i]
    BY <1>1, <1>2
<1>4. s \o t = r
    BY <1>1, <1>2, <1>3, SeqEqual
<1>5. (<<a>> \o <<b>>) \o <<c>> = s
    BY Triple DEF s
<1> QED
    BY <1>4, <1>5 DEF t, r

-----------------------------------------------------------------------------
(* Single calls.                                                           *)

Text  == [do: {"text"}, cells: Int, plain: BOOLEAN]
Mark  == [do: {"on", "off"}, look: {"bold", "inverse", "colour"}] \cup {ModeClear}
Still == Text \cup Mark
Jump  == [do: {"move"}, row: 0..(size.h - 1), col: 0..(size.w - 1)]
Calls == Still \cup {Newline} \cup Jump

\* A window as each print() leaves it to the next: above the cursor there is
\* nothing old, left of it neither, and only the last line holds it back.
Good(v) ==
    /\ v \in Window(size)
    /\ \A r \in 0..(v.row - 1) : v.lines[r] \in {"new", "blank"}
    /\ v.col > 0 => v.lines[v.row] \in {"new", "mixed"}
    /\ v.stuck => v.row = size.h - 1

LEMMA SizeType ==
    ASSUME size \in Sizes
    PROVE  size.w \in Nat /\ size.w > 0 /\ size.h \in Nat /\ size.h > 0
BY SizeAssumption

LEMMA Division ==
    ASSUME NEW a \in Nat, NEW b \in Nat, b > 0
    PROVE  /\ a \div b \in Nat /\ a % b \in 0..(b - 1)
           /\ a < b => a \div b = 0 /\ a % b = a
           /\ a >= b => a \div b >= 1
OBVIOUS

\* Where a text leaves the cursor, and what it changes besides.
LEMMA TextFields ==
    ASSUME size \in Sizes, NEW v \in Window(size), NEW n \in Int, n > 0, NEW p \in BOOLEAN
    PROVE  LET r == PutText(v, n, p) IN
           /\ r \in Window(size)
           /\ r.looks = v.looks /\ r.stuck = v.stuck
           /\ r.spoiled <=> v.spoiled \/ v.stuck
           /\ r.bleeds <=> v.bleeds \/ (p /\ v.looks # {})
           /\ r.wrapped <=> v.wrapped \/ (~v.stuck /\ v.col + n >= size.w)
           /\ v.col + n < size.w => r.row = v.row /\ r.col = v.col + n
           /\ v.row <= r.row
           /\ v.row = size.h - 1 /\ size.w > 1 => r.col > 0
           /\ \A i \in 0..(v.row - 1) : r.lines[i] = v.lines[i]
           /\ \A i \in v.row..(r.row - 1) : r.lines[i] = "new"
           /\ r.col > 0 /\ (v.col > 0 => v.lines[v.row] \in {"new", "mixed"})
              => r.lines[r.row] \in {"new", "mixed"}
           /\ v.row = r.row /\ v.col > 0 /\ v.lines[v.row] = "new" => r.lines[r.row] = "new"
<1> DEFINE end  == v.col + n
<1> DEFINE q    == end \div size.w
<1> DEFINE m    == end % size.w
<1> DEFINE fits == v.row + q < size.h
<1> DEFINE down == IF fits THEN v.row + q ELSE size.h - 1
<1> DEFINE col  == IF fits THEN m ELSE size.w - 1
<1> DEFINE last == IF ~fits THEN "new"
                   ELSE IF (down = v.row /\ v.col > 0) \/ m = 0 THEN v.lines[down]
                   ELSE Begun(v.lines[down])
<1> DEFINE lines == [i \in 0..(size.h - 1) |->
                        IF i = down THEN last
                        ELSE IF i \in v.row..down THEN "new" ELSE v.lines[i]]
<1> DEFINE wrapped == v.wrapped \/ (~v.stuck /\ end >= size.w)
<1> DEFINE spoiled == v.spoiled \/ v.stuck
<1> DEFINE bleeds  == v.bleeds \/ (p /\ v.looks # {})
<1> DEFINE r == [v EXCEPT !.row = down, !.col = col, !.lines = lines, !.wrapped = wrapped,
                          !.spoiled = spoiled, !.bleeds = bleeds]
<1>1. PutText(v, n, p) = r
  <2>1. PutText(v, n, p) = IF n <= 0 THEN v ELSE r
      BY Zenon DEF PutText
  <2> HIDE DEF r
  <2> QED
      BY <2>1
<1>2. /\ size.w \in Nat /\ size.w > 0 /\ size.h \in Nat /\ size.h > 0
      /\ v.row \in 0..(size.h - 1) /\ v.col \in 0..(size.w - 1)
      /\ v.lines \in [0..(size.h - 1) -> Line] /\ end \in Nat
    BY SizeType DEF Window
<1>3. /\ q \in Nat /\ m \in 0..(size.w - 1)
      /\ end < size.w => q = 0 /\ m = end
      /\ end >= size.w => q >= 1
    BY <1>2, Division
<1> HIDE DEF q, m
<1>4. down \in 0..(size.h - 1) /\ v.row <= down /\ col \in 0..(size.w - 1)
  <2>1. v.row \in Nat /\ v.row <= size.h - 1
      BY <1>2
  <2>2. CASE fits
      BY <1>2, <1>3, <2>1, <2>2, SMTT(20)
  <2>3. CASE ~fits
      BY <1>2, <1>3, <2>1, <2>3, SMTT(20)
  <2> QED
      BY <2>2, <2>3
<1>5. last \in Line
    BY <1>2, <1>4 DEF Begun, Line
<1>6. lines \in [0..(size.h - 1) -> Line]
    BY <1>2, <1>5 DEF Line
<1>7. /\ r.row = down /\ r.col = col /\ r.lines = lines
      /\ r.looks = v.looks /\ r.stuck = v.stuck
    BY DEF Window
<1>8. /\ r.spoiled <=> v.spoiled \/ v.stuck
      /\ r.bleeds <=> v.bleeds \/ (p /\ v.looks # {})
      /\ r.wrapped <=> v.wrapped \/ (~v.stuck /\ v.col + n >= size.w)
    BY DEF Window
<1>9. r \in Window(size)
  <2>1. wrapped \in BOOLEAN /\ spoiled \in BOOLEAN /\ bleeds \in BOOLEAN
      OBVIOUS
  <2> HIDE DEF down, col, lines, wrapped, spoiled, bleeds
  <2> QED
      BY <1>4, <1>6, <2>1 DEF Window
<1>10. ASSUME v.row = size.h - 1, size.w > 1 PROVE col > 0
  <2>1. CASE fits
    <3>1. end < size.w /\ end > 0
        BY <1>2, <1>3, <1>10, <2>1
    <3> QED
        BY <1>3, <2>1, <3>1
  <2>2. CASE ~fits
      BY <1>2, <1>10, <2>2
  <2> QED
      BY <2>1, <2>2
<1>11. ASSUME v.col + n < size.w PROVE down = v.row /\ col = v.col + n
  <2>1. q = 0 /\ m = end
      BY <1>3, <1>11
  <2>2. fits
      BY <1>2, <2>1
  <2> QED
      BY <1>2, <2>1, <2>2
<1>12. /\ \A i \in 0..(v.row - 1) : lines[i] = v.lines[i]
       /\ \A i \in v.row..(down - 1) : lines[i] = "new"
       /\ lines[down] = last
  <2> HIDE DEF down, last
  <2>1. v.row \in Nat /\ down \in Nat /\ size.h \in Nat /\ v.row <= down /\ down < size.h
      BY <1>2, <1>4
  <2>2. ASSUME NEW i \in 0..(v.row - 1) PROVE lines[i] = v.lines[i]
    <3>1. i \in 0..(size.h - 1) /\ i < down /\ i < v.row
        BY <2>1
    <3> QED
        BY <2>1, <3>1
  <2>3. ASSUME NEW i \in v.row..(down - 1) PROVE lines[i] = "new"
    <3>1. i \in 0..(size.h - 1) /\ i < down /\ i \in v.row..down
        BY <2>1
    <3> QED
        BY <2>1, <3>1
  <2>4. lines[down] = last
      BY <2>1
  <2> QED
      BY <2>2, <2>3, <2>4
<1>13. col > 0 /\ (v.col > 0 => v.lines[v.row] \in {"new", "mixed"}) => last \in {"new", "mixed"}
    BY <1>2, <1>3, <1>4 DEF Begun
<1>14. v.row = down /\ v.col > 0 /\ v.lines[v.row] = "new" => last = "new"
    BY <1>2, <1>3, <1>4 DEF Begun
<1> HIDE DEF r, lines, last, down, col
<1> QED
    BY <1>1, <1>4, <1>7, <1>8, <1>9, <1>10, <1>11, <1>12, <1>13, <1>14

\* What each call does, by its kind.
LEMMA CallKinds ==
    ASSUME NEW v
    PROVE  /\ \A c \in Text : Call(v, c) = PutText(v, c.cells, c.plain)
           /\ Call(v, Newline) = PutNewline(v)
           /\ \A c \in Jump : Call(v, c) = [v EXCEPT !.row = c.row, !.col = c.col, !.stuck = FALSE]
<1>1. ASSUME NEW c \in Text PROVE Call(v, c) = PutText(v, c.cells, c.plain)
    BY DEF Text, Call
<1>2. ASSUME NEW c \in Jump
      PROVE  Call(v, c) = [v EXCEPT !.row = c.row, !.col = c.col, !.stuck = FALSE]
    BY DEF Jump, Call
<1>3. Call(v, Newline) = PutNewline(v)
    BY DEF Newline, Call
<1> QED
    BY <1>1, <1>2, <1>3

\* An attribute changes the looks only.
LEMMA MarkFields ==
    ASSUME size \in Sizes, NEW v \in Window(size), NEW c \in Mark
    PROVE  LET r == Call(v, c) IN
           /\ r \in Window(size)
           /\ r.row = v.row /\ r.col = v.col /\ r.lines = v.lines
           /\ r.stuck = v.stuck /\ r.spoiled = v.spoiled /\ r.wrapped = v.wrapped
           /\ r.bleeds = v.bleeds
           /\ c.do = "on" => r.looks = v.looks \cup {c.look}
           /\ c.do = "off" => r.looks = v.looks \ {c.look}
           /\ c = ModeClear => r.looks = {}
<1>1. CASE c = ModeClear
    BY <1>1 DEF ModeClear, Call, Window
<1>2. CASE c.do = "on" /\ c # ModeClear
  <2>1. Call(v, c) = [v EXCEPT !.looks = v.looks \cup {c.look}]
      BY <1>2 DEF Call
  <2>2. v.looks \cup {c.look} \in SUBSET {"bold", "inverse", "colour"}
      BY <1>2 DEF Mark, Window
  <2> QED
      BY <1>2, <2>1, <2>2 DEF Window
<1>3. CASE c.do = "off" /\ c # ModeClear
  <2>1. Call(v, c) = [v EXCEPT !.looks = v.looks \ {c.look}]
      BY <1>3 DEF Call
  <2>2. v.looks \ {c.look} \in SUBSET {"bold", "inverse", "colour"}
      BY DEF Window
  <2> QED
      BY <1>3, <2>1, <2>2 DEF Window
<1> QED
    BY <1>1, <1>2, <1>3 DEF Mark

\* A newline ends the line and begins the next, but for the last one.
LEMMA NewlineFields ==
    ASSUME size \in Sizes, NEW v \in Window(size)
    PROVE  LET r == PutNewline(v) IN
           /\ r \in Window(size)
           /\ r.looks = v.looks /\ r.spoiled = v.spoiled /\ r.wrapped = v.wrapped
           /\ r.bleeds = v.bleeds
           /\ v.row < size.h - 1 => r.row = v.row + 1 /\ r.col = 0 /\ r.stuck = v.stuck
           /\ v.row = size.h - 1 => r.row = v.row /\ r.col = v.col /\ r.stuck
           /\ \A i \in 0..(size.h - 1) : i # v.row => r.lines[i] = v.lines[i]
           /\ r.lines[v.row] = IF v.col = 0 THEN "blank"
                               ELSE IF v.lines[v.row] = "mixed" THEN "new"
                               ELSE v.lines[v.row]
<1> DEFINE line == IF v.col = 0 THEN "blank"
                   ELSE IF v.lines[v.row] = "mixed" THEN "new"
                   ELSE v.lines[v.row]
<1> DEFINE e == [v EXCEPT !.lines = [v.lines EXCEPT ![v.row] = line]]
<1>1. ClearEol(v) = e
    BY DEF ClearEol
<1>2. /\ size.h \in Nat /\ size.h > 0 /\ size.w \in Nat /\ size.w > 0
      /\ v.row \in 0..(size.h - 1) /\ v.col \in 0..(size.w - 1)
      /\ v.lines \in [0..(size.h - 1) -> Line]
    BY SizeType DEF Window
<1>3. line \in Line
    BY <1>2 DEF Line
<1> HIDE DEF line
<1>4. /\ e \in Window(size)
      /\ e.row = v.row /\ e.col = v.col /\ e.looks = v.looks /\ e.spoiled = v.spoiled
      /\ e.wrapped = v.wrapped /\ e.stuck = v.stuck
      /\ e.bleeds = v.bleeds
      /\ \A i \in 0..(size.h - 1) : e.lines[i] = IF i = v.row THEN line ELSE v.lines[i]
    BY <1>2, <1>3 DEF Window
<1> HIDE DEF e
<1>5. PutNewline(v) = IF v.row < size.h - 1 THEN [e EXCEPT !.row = v.row + 1, !.col = 0]
                                             ELSE [e EXCEPT !.stuck = TRUE]
    BY <1>1, <1>4 DEF PutNewline, LineFeed
<1> DEFINE r == PutNewline(v)
<1>6. /\ r \in Window(size) /\ r.lines = e.lines
      /\ r.looks = e.looks /\ r.spoiled = e.spoiled /\ r.wrapped = e.wrapped
      /\ r.bleeds = e.bleeds
      /\ v.row < size.h - 1 => r.row = v.row + 1 /\ r.col = 0 /\ r.stuck = e.stuck
      /\ v.row = size.h - 1 => r.row = e.row /\ r.col = e.col /\ r.stuck
  <2>1. CASE v.row < size.h - 1
    <3>1. r = [e EXCEPT !.row = v.row + 1, !.col = 0]
        BY <1>5, <2>1
    <3>2. v.row + 1 \in 0..(size.h - 1) /\ 0 \in 0..(size.w - 1)
        BY <1>2, <2>1
    <3>3. r \in Window(size)
        BY <1>4, <3>1, <3>2 DEF Window
    <3>4. /\ r.row = v.row + 1 /\ r.col = 0 /\ r.lines = e.lines /\ r.looks = e.looks
          /\ r.spoiled = e.spoiled /\ r.wrapped = e.wrapped /\ r.stuck = e.stuck
          /\ r.bleeds = e.bleeds
        BY <1>4, <3>1 DEF Window
    <3> QED
        BY <1>2, <2>1, <3>3, <3>4
  <2>2. CASE v.row = size.h - 1
    <3>1. r = [e EXCEPT !.stuck = TRUE]
        BY <1>2, <1>5, <2>2
    <3>2. r \in Window(size)
        BY <1>4, <3>1 DEF Window
    <3>3. /\ r.row = e.row /\ r.col = e.col /\ r.lines = e.lines /\ r.looks = e.looks
          /\ r.spoiled = e.spoiled /\ r.wrapped = e.wrapped /\ r.stuck
          /\ r.bleeds = e.bleeds
        BY <1>4, <3>1 DEF Window
    <3>4. ~(v.row < size.h - 1)
        BY <1>2, <2>2
    <3> QED
        BY <2>2, <3>2, <3>3, <3>4
  <2> QED
      BY <1>2, <2>1, <2>2
<1> HIDE DEF r
<1>7. r.lines[v.row] = line /\ \A i \in 0..(size.h - 1) : i # v.row => r.lines[i] = v.lines[i]
    BY <1>2, <1>4, <1>6
<1> QED
    BY <1>4, <1>6, <1>7 DEF line, r

\* The last line is complete and the cursor in it.
Complete(v) == v.row = size.h - 1 /\ v.col > 0 /\ v.lines[v.row] = "new"

\* What a call that stays in the line leaves of a window v, and a print() too.
Keeps(v, r) ==
    /\ Good(r)
    /\ r.stuck <=> v.stuck
    /\ v.wrapped => r.wrapped
    /\ r.wrapped \/ v.stuck \/ r.row = v.row
    /\ v.stuck \/ (r.spoiled <=> v.spoiled)
    /\ v.row <= r.row
    /\ Complete(v) => Complete(r)

LEMMA KeepsItself == \A v : size \in Sizes /\ Good(v) => Keeps(v, v)
BY SizeType DEF Keeps, Good, Window

LEMMA KeepsOn ==
    ASSUME size \in Sizes, NEW v, NEW u, NEW r, Good(v), Keeps(v, u), Keeps(u, r)
    PROVE  Keeps(v, r)
<1>1. v.row \in Int /\ u.row \in Int /\ r.row \in Int
    BY SizeType DEF Keeps, Good, Window
<1> QED
    BY <1>1 DEF Keeps

LEMMA TextKeeps ==
    ASSUME size \in Sizes, size.w > 1, NEW v, Good(v), NEW n \in Int, NEW p \in BOOLEAN
    PROVE  Keeps(v, PutText(v, n, p))
<1>1. CASE n <= 0
  <2>1. PutText(v, n, p) = v
      BY <1>1 DEF PutText
  <2> QED
      BY <2>1, KeepsItself
<1>2. CASE n > 0
  <2> DEFINE r == PutText(v, n, p)
  <2>1. v \in Window(size)
      BY DEF Good
  <2>2. /\ r \in Window(size)
        /\ r.stuck = v.stuck
        /\ r.spoiled <=> v.spoiled \/ v.stuck
        /\ r.wrapped <=> v.wrapped \/ (~v.stuck /\ v.col + n >= size.w)
        /\ v.col + n < size.w => r.row = v.row
        /\ v.row <= r.row
        /\ v.row = size.h - 1 => r.col > 0
        /\ \A i \in 0..(v.row - 1) : r.lines[i] = v.lines[i]
        /\ \A i \in v.row..(r.row - 1) : r.lines[i] = "new"
        /\ r.col > 0 /\ (v.col > 0 => v.lines[v.row] \in {"new", "mixed"})
           => r.lines[r.row] \in {"new", "mixed"}
        /\ v.row = r.row /\ v.col > 0 /\ v.lines[v.row] = "new" => r.lines[r.row] = "new"
      BY <1>2, <2>1, TextFields
  <2> HIDE DEF r
  <2>3. /\ size.w \in Nat /\ size.h \in Nat /\ size.h > 0
        /\ v.row \in 0..(size.h - 1) /\ v.col \in 0..(size.w - 1)
        /\ r.row \in 0..(size.h - 1) /\ r.col \in 0..(size.w - 1)
      BY <2>1, <2>2, SizeType DEF Window
  <2>4. \A i \in 0..(r.row - 1) : r.lines[i] \in {"new", "blank"}
    <3>1. \A i \in 0..(v.row - 1) : v.lines[i] \in {"new", "blank"}
        BY DEF Good
    <3> QED
        BY <2>2, <2>3, <3>1
  <2>5. Good(r)
      BY <2>2, <2>3, <2>4 DEF Good
  <2>6. v.row = size.h - 1 => r.row = size.h - 1
      BY <2>2, <2>3
  <2>7. Complete(v) => Complete(r)
      BY <2>2, <2>3, <2>6 DEF Complete
  <2>8. r.wrapped \/ v.stuck \/ r.row = v.row
      BY <1>2, <2>2, <2>3
  <2>9. Keeps(v, r)
      BY <2>2, <2>5, <2>6, <2>7, <2>8 DEF Keeps
  <2> QED
      BY <2>9 DEF r
<1> QED
    BY <1>1, <1>2

LEMMA MarkKeeps ==
    ASSUME size \in Sizes, NEW v, Good(v), NEW c \in Mark
    PROVE  Keeps(v, Call(v, c))
<1>1. v \in Window(size)
    BY DEF Good
<1> DEFINE r == Call(v, c)
<1>2. /\ r \in Window(size)
      /\ r.row = v.row /\ r.col = v.col /\ r.lines = v.lines
      /\ r.stuck = v.stuck /\ r.spoiled = v.spoiled /\ r.wrapped = v.wrapped
      /\ r.bleeds = v.bleeds
    BY <1>1, MarkFields
<1> HIDE DEF r
<1>3. v.row <= r.row
    BY <1>1, <1>2, SizeType DEF Window
<1> QED
    BY <1>2, <1>3 DEF Good, Keeps, Complete, r

\* What a newline leaves: the line above the cursor is complete.
LEMMA NewlineGood ==
    ASSUME size \in Sizes, NEW v, Good(v)
    PROVE  /\ Good(PutNewline(v))
           /\ Complete(v) => Complete(PutNewline(v))
           /\ v.row = size.h - 1 /\ v.col > 0 => Complete(PutNewline(v))
<1> DEFINE r == PutNewline(v)
<1>1. v \in Window(size)
    BY DEF Good
<1>2. /\ r \in Window(size)
      /\ v.row < size.h - 1 => r.row = v.row + 1 /\ r.col = 0 /\ r.stuck = v.stuck
      /\ v.row = size.h - 1 => r.row = v.row /\ r.col = v.col /\ r.stuck
      /\ \A i \in 0..(size.h - 1) : i # v.row => r.lines[i] = v.lines[i]
      /\ r.lines[v.row] = IF v.col = 0 THEN "blank"
                          ELSE IF v.lines[v.row] = "mixed" THEN "new"
                          ELSE v.lines[v.row]
    BY <1>1, NewlineFields
<1> HIDE DEF r
<1>3. /\ size.w \in Nat /\ size.h \in Nat /\ size.h > 0
      /\ v.row \in 0..(size.h - 1) /\ v.col \in 0..(size.w - 1)
    BY <1>1, SizeType DEF Window
<1>4. /\ \A i \in 0..(v.row - 1) : v.lines[i] \in {"new", "blank"}
      /\ v.col > 0 => v.lines[v.row] \in {"new", "mixed"}
      /\ v.stuck => v.row = size.h - 1
    BY DEF Good
<1>5. r.lines[v.row] \in {"new", "blank"} /\ (v.col > 0 => r.lines[v.row] = "new")
    BY <1>2, <1>3, <1>4
<1>6. \A i \in 0..(v.row - 1) : r.lines[i] \in {"new", "blank"}
    BY <1>2, <1>3, <1>4
<1>7. Good(r)
  <2>1. CASE v.row < size.h - 1
      BY <1>2, <1>3, <1>4, <1>5, <1>6, <2>1 DEF Good
  <2>2. CASE v.row = size.h - 1
      BY <1>2, <1>3, <1>4, <1>5, <1>6, <2>2 DEF Good
  <2> QED
      BY <1>3, <2>1, <2>2
<1> QED
    BY <1>2, <1>3, <1>5, <1>7 DEF Complete, r

-----------------------------------------------------------------------------
(* Lines and sections: what holds of the calls holds of their sequences.   *)

LEMMA CallType ==
    ASSUME size \in Sizes, NEW v \in Window(size), NEW c \in Calls
    PROVE  Call(v, c) \in Window(size)
<1>1. CASE c \in Text
  <2>1. c.cells \in Int /\ c.plain \in BOOLEAN
      BY <1>1 DEF Text
  <2>2. Call(v, c) = PutText(v, c.cells, c.plain)
      BY <1>1, CallKinds
  <2>3. CASE c.cells <= 0
      BY <2>2, <2>3 DEF PutText
  <2>4. CASE c.cells > 0
    <3>1. PutText(v, c.cells, c.plain) \in Window(size)
        BY <2>1, <2>4, TextFields
    <3> QED
        BY <2>2, <3>1
  <2> QED
      BY <2>1, <2>3, <2>4
<1>2. CASE c \in Mark
    BY <1>2, MarkFields
<1>3. CASE c = Newline
    BY <1>3, CallKinds, NewlineFields
<1>4. CASE c \in Jump
  <2>1. Call(v, c) = [v EXCEPT !.row = c.row, !.col = c.col, !.stuck = FALSE]
      BY <1>4, CallKinds
  <2>2. c.row \in 0..(size.h - 1) /\ c.col \in 0..(size.w - 1)
      BY <1>4 DEF Jump
  <2> QED
      BY <2>1, <2>2 DEF Window
<1> QED
    BY <1>1, <1>2, <1>3, <1>4 DEF Calls, Still

CallSteps(calls) == [n \in 1..Len(calls) |-> [u \in Window(size) |-> Call(u, calls[n])]]

LEMMA CallStepsType ==
    ASSUME size \in Sizes, NEW calls \in Seq(Calls)
    PROVE  CallSteps(calls) \in Common!Steps(Len(calls), Window(size))
<1>1. \A n \in 1..Len(calls) : calls[n] \in Calls
    OBVIOUS
<1>2. \A n \in 1..Len(calls) : \A u \in Window(size) : Call(u, calls[n]) \in Window(size)
    BY <1>1, CallType
<1> QED
    BY <1>2 DEF Common!Steps, CallSteps

\* A line is drawn call by call.
LEMMA LineRun ==
    ASSUME size \in Sizes, NEW v \in Window(size), NEW calls \in Seq(Calls)
    PROVE  \E f \in [0..Len(calls) -> Window(size)] :
               /\ f[0] = v /\ f[Len(calls)] = DrawLine(v, calls)
               /\ \A n \in 1..Len(calls) : f[n] = Call(f[n - 1], calls[n])
               /\ Common!IsRecursion(f, Len(calls), Window(size), v, CallSteps(calls))
<1> DEFINE N == Len(calls)
<1> DEFINE Is(g) == g = [n \in 0..N |-> IF n = 0 THEN v ELSE Call(g[n - 1], calls[n])]
<1> DEFINE after == CHOOSE g : Is(g)
<1>1. N \in Nat
    OBVIOUS
<1>2. CallSteps(calls) \in Common!Steps(N, Window(size))
    BY CallStepsType
<1>3. \A n \in 1..N : \A u \in Window(size) : CallSteps(calls)[n][u] = Call(u, calls[n])
    BY DEF CallSteps
<1>4. DrawLine(v, calls) = after[N]
    BY DEF DrawLine
<1> HIDE DEF N
<1>5. \E f : Common!IsRecursion(f, N, Window(size), v, CallSteps(calls))
    BY <1>1, <1>2, Common!BoundedRecursion
<1>6. PICK f : Common!IsRecursion(f, N, Window(size), v, CallSteps(calls))
    BY <1>5
<1>7. /\ f \in [0..N -> Window(size)] /\ f[0] = v
      /\ \A n \in 1..N : f[n] = CallSteps(calls)[n][f[n - 1]]
    BY <1>6 DEF Common!IsRecursion
<1>8. \A n \in 1..N : f[n] = Call(f[n - 1], calls[n])
    BY <1>1, <1>3, <1>7
<1>9. Is(f)
  <2>1. \A n \in 0..N : f[n] = IF n = 0 THEN v ELSE Call(f[n - 1], calls[n])
      BY <1>1, <1>7, <1>8
  <2> QED
      BY <1>7, <2>1
<1>10. Is(after)
  <2> HIDE DEF Is
  <2> QED
      BY <1>9
<1> HIDE DEF after
<1>11. after[0] = v /\ \A n \in 1..N : after[n] = Call(after[n - 1], calls[n])
  <2>1. \A n \in 0..N : after[n] = IF n = 0 THEN v ELSE Call(after[n - 1], calls[n])
      BY <1>10
  <2> QED
      BY <1>1, <2>1
<1>12. \A n \in 0..N : after[n] = f[n]
  <2> DEFINE S == {n \in Nat : n <= N => after[n] = f[n]}
  <2>1. 0 \in S
      BY <1>7, <1>11
  <2>2. ASSUME NEW n \in Nat, n \in S PROVE n + 1 \in S
      BY <1>1, <1>8, <1>11, <2>2
  <2>3. Nat \subseteq S
    <3> HIDE DEF S
    <3> QED
        BY <2>1, <2>2, Common!SetInduction, SMTT(30)
  <2> QED
      BY <1>1, <2>3
<1>13. f[N] = DrawLine(v, calls)
    BY <1>1, <1>4, <1>12
<1> QED
    BY <1>6, <1>7, <1>8, <1>13 DEF N

\* What each call of a line leaves alone, the line does.
LEMMA LineStays ==
    ASSUME size \in Sizes, NEW S \in SUBSET Window(size), NEW v \in S,
           NEW C \in SUBSET Calls, NEW calls \in Seq(C),
           \A u \in S : \A c \in C : Call(u, c) \in S
    PROVE  DrawLine(v, calls) \in S
<1>1. calls \in Seq(Calls) /\ \A n \in 1..Len(calls) : calls[n] \in C
    OBVIOUS
<1>2. v \in Window(size)
    OBVIOUS
<1>3. PICK f \in [0..Len(calls) -> Window(size)] :
          /\ f[0] = v /\ f[Len(calls)] = DrawLine(v, calls)
          /\ \A n \in 1..Len(calls) : f[n] = Call(f[n - 1], calls[n])
    BY <1>1, <1>2, LineRun
<1> DEFINE I == {n \in Nat : n <= Len(calls) => f[n] \in S}
<1>4. 0 \in I
    BY <1>3
<1>5. ASSUME NEW n \in Nat, n \in I PROVE n + 1 \in I
  <2>1. SUFFICES ASSUME n + 1 <= Len(calls) PROVE f[n + 1] \in S
      OBVIOUS
  <2>2. n + 1 \in 1..Len(calls) /\ (n + 1) - 1 = n /\ n <= Len(calls)
      BY <2>1
  <2>3. f[n + 1] = Call(f[n], calls[n + 1]) /\ calls[n + 1] \in C /\ f[n] \in S
      BY <1>1, <1>3, <1>5, <2>2
  <2> QED
      BY <2>3
<1>6. Nat \subseteq I
  <2> HIDE DEF I
  <2> QED
      BY <1>4, <1>5, Common!SetInduction, SMTT(30)
<1>7. Len(calls) \in Nat
    OBVIOUS
<1> QED
    BY <1>3, <1>6, <1>7

\* The steps of two sequences in a row.
LEMMA StepsJoin ==
    ASSUME NEW s \in Seq(Calls), NEW t \in Seq(Calls)
    PROVE  /\ \A n \in 1..Len(s) : CallSteps(s)[n] = CallSteps(s \o t)[n]
           /\ \A n \in 1..Len(t) : CallSteps(t)[n] = CallSteps(s \o t)[Len(s) + n]
<1>1. /\ Len(s) \in Nat /\ Len(t) \in Nat /\ Len(s \o t) = Len(s) + Len(t)
      /\ \A n \in 1..Len(s) : (s \o t)[n] = s[n]
      /\ \A n \in 1..Len(t) : (s \o t)[Len(s) + n] = t[n]
    OBVIOUS
<1> DEFINE st == s \o t
<1> HIDE DEF st
<1>2. \A n \in 1..Len(s) : CallSteps(s)[n] = CallSteps(st)[n]
    BY <1>1 DEF CallSteps, st
<1>3. \A n \in 1..Len(t) : CallSteps(t)[n] = CallSteps(st)[Len(s) + n]
    BY <1>1 DEF CallSteps, st
<1> QED
    BY <1>2, <1>3 DEF st

\* A line may be drawn in two parts.
LEMMA LineConcat ==
    ASSUME size \in Sizes, NEW v \in Window(size), NEW s \in Seq(Calls), NEW t \in Seq(Calls)
    PROVE  DrawLine(v, s \o t) = DrawLine(DrawLine(v, s), t)
<1> DEFINE st == s \o t
<1>1. st \in Seq(Calls) /\ Len(st) = Len(s) + Len(t) /\ Len(s) \in Nat /\ Len(t) \in Nat
    OBVIOUS
<1>2. /\ \A n \in 1..Len(s) : CallSteps(s)[n] = CallSteps(st)[n]
      /\ \A n \in 1..Len(t) : CallSteps(t)[n] = CallSteps(st)[Len(s) + n]
    BY StepsJoin
<1> HIDE DEF st
<1>3. PICK f \in [0..Len(s) -> Window(size)] :
          /\ f[Len(s)] = DrawLine(v, s)
          /\ Common!IsRecursion(f, Len(s), Window(size), v, CallSteps(s))
    BY LineRun
<1> DEFINE u == DrawLine(v, s)
<1>4. u \in Window(size)
    BY <1>1, <1>3
<1> HIDE DEF u
<1>5. PICK g \in [0..Len(t) -> Window(size)] :
          /\ g[Len(t)] = DrawLine(u, t)
          /\ Common!IsRecursion(g, Len(t), Window(size), u, CallSteps(t))
    BY <1>4, LineRun
<1>6. PICK h \in [0..Len(st) -> Window(size)] :
          /\ h[Len(st)] = DrawLine(v, st)
          /\ Common!IsRecursion(h, Len(st), Window(size), v, CallSteps(st))
    BY <1>1, LineRun
<1>7. /\ CallSteps(s) \in Common!Steps(Len(s), Window(size))
      /\ CallSteps(t) \in Common!Steps(Len(t), Window(size))
      /\ CallSteps(st) \in Common!Steps(Len(s) + Len(t), Window(size))
    BY <1>1, CallStepsType
<1> DEFINE N == Len(s)
<1> DEFINE M == Len(t)
<1> DEFINE X == Window(size)
<1> DEFINE head == CallSteps(s)
<1> DEFINE tail == CallSteps(t)
<1> DEFINE both == CallSteps(st)
<1>8. Common!Joined(f, g, h, N, M, X, v, head, tail, both)
    BY <1>1, <1>2, <1>3, <1>5, <1>6, <1>7 DEF u, Common!Joined
<1>9. h[N + M] = g[M]
  <2> HIDE DEF N, M, X, head, tail, both
  <2> QED
      BY <1>8, Common!JoinedRecursion
<1> QED
    BY <1>1, <1>5, <1>6, <1>9 DEF u, st

\* A single call, and none.
LEMMA LineOne ==
    ASSUME size \in Sizes, NEW v \in Window(size), NEW c \in Calls
    PROVE  DrawLine(v, <<c>>) = Call(v, c) /\ DrawLine(v, <<>>) = v
<1> DEFINE one == <<c>>
<1> DEFINE none == <<>>
<1>1. /\ one \in Seq(Calls) /\ Len(one) = 1 /\ one[1] = c
      /\ none \in Seq(Calls) /\ Len(none) = 0
    OBVIOUS
<1> HIDE DEF one, none
<1>2. PICK f \in [0..Len(one) -> Window(size)] :
          /\ f[0] = v /\ f[Len(one)] = DrawLine(v, one)
          /\ \A n \in 1..Len(one) : f[n] = Call(f[n - 1], one[n])
    BY <1>1, LineRun
<1>3. DrawLine(v, one) = Call(v, c)
    BY <1>1, <1>2
<1>4. PICK g \in [0..Len(none) -> Window(size)] :
          g[0] = v /\ g[Len(none)] = DrawLine(v, none)
    BY <1>1, LineRun
<1>5. DrawLine(v, none) = v
    BY <1>1, <1>4
<1> QED
    BY <1>3, <1>5 DEF one, none

\* A print() that stays in its line.
LEMMA LineKeeps ==
    ASSUME size \in Sizes, size.w > 1, NEW v, Good(v), NEW s \in Seq(Still)
    PROVE  Keeps(v, DrawLine(v, s))
<1> DEFINE S == {u \in Window(size) : Keeps(v, u)}
<1>1. v \in S
    BY KeepsItself DEF Good
<1>2. Still \subseteq Calls
    BY DEF Calls
<1>3. ASSUME NEW u \in S, NEW c \in Still PROVE Call(u, c) \in S
  <2>1. Keeps(v, u) /\ Good(u)
      BY DEF Keeps
  <2> DEFINE r == Call(u, c)
  <2>2. Keeps(u, r)
    <3>1. CASE c \in Text
      <4>1. r = PutText(u, c.cells, c.plain) /\ c.cells \in Int /\ c.plain \in BOOLEAN
          BY <3>1, CallKinds DEF Text
      <4> HIDE DEF r
      <4> QED
          BY <2>1, <4>1, TextKeeps
    <3>2. CASE c \in Mark
        BY <2>1, <3>2, MarkKeeps
    <3> QED
        BY <3>1, <3>2 DEF Still
  <2>3. Keeps(v, r)
    <3> HIDE DEF r
    <3> QED
        BY <2>1, <2>2, KeepsOn
  <2>4. r \in Window(size)
      BY <2>3 DEF Keeps, Good
  <2> QED
      BY <2>3, <2>4
<1>4. DrawLine(v, s) \in S
  <2>1. S \in SUBSET Window(size)
      OBVIOUS
  <2> HIDE DEF S
  <2> QED
      BY <1>1, <1>2, <1>3, <2>1, LineStays
<1> QED
    BY <1>4

LEMMA LineType ==
    ASSUME size \in Sizes, NEW v \in Window(size), NEW s \in Seq(Calls)
    PROVE  DrawLine(v, s) \in Window(size)
<1>1. PICK f \in [0..Len(s) -> Window(size)] : f[Len(s)] = DrawLine(v, s)
    BY LineRun
<1>2. Len(s) \in 0..Len(s)
    OBVIOUS
<1> QED
    BY <1>1, <1>2

-----------------------------------------------------------------------------
(* Attributes: what is drawn with them takes them back.                    *)

Tidy == {s \in Seq(Calls) : \A v \in Window(size) :
            v.looks = {} => /\ DrawLine(v, s).looks = {}
                            /\ DrawLine(v, s).bleeds <=> v.bleeds}

LEMMA TidyConcat ==
    ASSUME size \in Sizes, NEW s \in Tidy, NEW t \in Tidy
    PROVE  s \o t \in Tidy
<1>1. s \in Seq(Calls) /\ t \in Seq(Calls)
    BY DEF Tidy
<1>2. s \o t \in Seq(Calls)
    BY <1>1
<1>3. ASSUME NEW v \in Window(size), v.looks = {}
      PROVE  DrawLine(v, s \o t).looks = {} /\ (DrawLine(v, s \o t).bleeds <=> v.bleeds)
  <2> DEFINE u == DrawLine(v, s)
  <2>1. u \in Window(size) /\ u.looks = {} /\ (u.bleeds <=> v.bleeds)
      BY <1>1, <1>3, LineType DEF Tidy
  <2>2. DrawLine(v, s \o t) = DrawLine(u, t)
      BY <1>1, LineConcat
  <2> HIDE DEF u
  <2>3. DrawLine(u, t).looks = {} /\ (DrawLine(u, t).bleeds <=> u.bleeds)
      BY <2>1 DEF Tidy
  <2> QED
      BY <2>1, <2>2, <2>3
<1> QED
    BY <1>2, <1>3 DEF Tidy

\* Nothing but an attribute turned on makes a difference where none is on.
LEMMA TidyCall ==
    ASSUME size \in Sizes, NEW c \in Text \cup {Newline, ModeClear, BoldOff} \cup Jump
    PROVE  <<c>> \in Tidy
<1>1. c \in Calls
    BY DEF Calls, Still, Mark, BoldOff
<1>2. <<c>> \in Seq(Calls)
    BY <1>1
<1>3. ASSUME NEW v \in Window(size), v.looks = {}
      PROVE  Call(v, c).looks = {} /\ (Call(v, c).bleeds <=> v.bleeds)
  <2>1. CASE c \in Text
    <3>1. Call(v, c) = PutText(v, c.cells, c.plain) /\ c.cells \in Int /\ c.plain \in BOOLEAN
        BY <2>1, CallKinds DEF Text
    <3>2. CASE c.cells <= 0
        BY <1>3, <3>1, <3>2 DEF PutText
    <3>3. CASE c.cells > 0
      <4> DEFINE r == PutText(v, c.cells, c.plain)
      <4>1. r.looks = v.looks /\ (r.bleeds <=> v.bleeds \/ (c.plain /\ v.looks # {}))
          BY <3>1, <3>3, TextFields
      <4> HIDE DEF r
      <4>2. r.looks = {} /\ (r.bleeds <=> v.bleeds)
          BY <1>3, <4>1
      <4> QED
          BY <3>1, <4>2 DEF r
    <3> QED
        BY <3>1, <3>2, <3>3
  <2>2. CASE c = Newline
    <3>1. Call(v, c) = PutNewline(v)
        BY <2>2, CallKinds
    <3> QED
        BY <1>3, <3>1, NewlineFields
  <2>3. CASE c = ModeClear
    <3>1. c \in Mark
        BY <2>3 DEF Mark
    <3> QED
        BY <2>3, <3>1, MarkFields
  <2>4. CASE c = BoldOff
    <3>1. c \in Mark /\ c.do = "off"
        BY <2>4 DEF Mark, BoldOff
    <3> QED
        BY <1>3, <3>1, MarkFields
  <2>5. CASE c \in Jump
    <3>1. Call(v, c) = [v EXCEPT !.row = c.row, !.col = c.col, !.stuck = FALSE]
        BY <2>5, CallKinds
    <3> QED
        BY <1>3, <3>1 DEF Window
  <2> QED
      BY <2>1, <2>2, <2>3, <2>4, <2>5
<1> QED
    BY <1>1, <1>2, <1>3, LineOne DEF Tidy

\* What is drawn with the attributes L.
StyledBy(L) == {c \in Text : ~c.plain} \cup [do: {"on"}, look: L] \cup {Newline}

\* mode_clear() takes them all back, mode_off() the only one.
LEMMA TidyEnd ==
    ASSUME size \in Sizes, NEW L \in SUBSET {"bold", "inverse", "colour"},
           NEW s \in Seq(StyledBy(L)), NEW c \in Mark,
           c = ModeClear \/ (c.do = "off" /\ c # ModeClear /\ L \subseteq {c.look})
    PROVE  s \o <<c>> \in Tidy
<1>1. StyledBy(L) \subseteq Calls /\ c \in Calls
    BY DEF StyledBy, Calls, Still, Mark
<1>2. s \in Seq(Calls) /\ <<c>> \in Seq(Calls) /\ s \o <<c>> \in Seq(Calls)
    BY <1>1
<1>3. ASSUME NEW v \in Window(size), v.looks = {}
      PROVE  /\ DrawLine(v, s \o <<c>>).looks = {}
             /\ DrawLine(v, s \o <<c>>).bleeds <=> v.bleeds
  <2> DEFINE S == {u \in Window(size) : u.looks \subseteq L /\ (u.bleeds <=> v.bleeds)}
  <2>1. v \in S
      BY <1>3
  <2>2. ASSUME NEW u \in S, NEW d \in StyledBy(L) PROVE Call(u, d) \in S
    <3>1. u \in Window(size) /\ u.looks \subseteq L /\ (u.bleeds <=> v.bleeds)
        OBVIOUS
    <3> HIDE DEF S
    <3>2. CASE d \in Text /\ ~d.plain
      <4>1. Call(u, d) = PutText(u, d.cells, d.plain) /\ d.cells \in Int /\ d.plain \in BOOLEAN
          BY <3>2, CallKinds DEF Text
      <4>2. CASE d.cells <= 0
          BY <3>1, <4>1, <4>2 DEF PutText, S
      <4>3. CASE d.cells > 0
        <5> DEFINE r == PutText(u, d.cells, d.plain)
        <5>1. /\ r \in Window(size) /\ r.looks = u.looks
              /\ r.bleeds <=> u.bleeds \/ (d.plain /\ u.looks # {})
            BY <3>1, <4>1, <4>3, TextFields
        <5> HIDE DEF r
        <5>2. r \in S
            BY <3>1, <3>2, <5>1 DEF S
        <5> QED
            BY <4>1, <5>2 DEF r
      <4> QED
          BY <4>1, <4>2, <4>3
    <3>3. CASE d \in [do: {"on"}, look: L]
      <4>1. d \in Mark /\ d.do = "on" /\ d.look \in L
          BY <3>3 DEF Mark
      <4> DEFINE r == Call(u, d)
      <4>2. /\ r \in Window(size) /\ r.looks = u.looks \cup {d.look}
            /\ r.bleeds = u.bleeds
          BY <3>1, <4>1, MarkFields
      <4> HIDE DEF r
      <4>3. r \in S
          BY <3>1, <4>1, <4>2 DEF S
      <4> QED
          BY <4>3 DEF r
    <3>4. CASE d = Newline
      <4> DEFINE r == PutNewline(u)
      <4>1. r \in Window(size) /\ r.looks = u.looks /\ r.bleeds = u.bleeds
          BY <3>1, NewlineFields
      <4> HIDE DEF r
      <4>2. r \in S
          BY <3>1, <4>1 DEF S
      <4> QED
          BY <3>4, <4>2, CallKinds DEF r
    <3> QED
        BY <3>2, <3>3, <3>4 DEF StyledBy
  <2>3. S \in SUBSET Window(size)
      OBVIOUS
  <2> DEFINE u == DrawLine(v, s)
  <2>4. u \in S
    <3> HIDE DEF S
    <3> QED
        BY <1>1, <2>1, <2>2, <2>3, LineStays
  <2>5. u \in Window(size) /\ u.looks \subseteq L /\ (u.bleeds <=> v.bleeds)
      BY <2>4
  <2>6. DrawLine(v, s \o <<c>>) = Call(u, c)
    <3>1. DrawLine(v, s \o <<c>>) = DrawLine(u, <<c>>)
        BY <1>2, LineConcat
    <3> HIDE DEF u
    <3> QED
        BY <1>1, <2>5, <3>1, LineOne
  <2> HIDE DEF u
  <2> DEFINE r == Call(u, c)
  <2>7. /\ r.bleeds = u.bleeds
        /\ c.do = "off" => r.looks = u.looks \ {c.look}
        /\ c = ModeClear => r.looks = {}
      BY <2>5, MarkFields
  <2> HIDE DEF r
  <2>8. r.looks = {}
      BY <2>5, <2>7
  <2> QED
      BY <2>5, <2>6, <2>7, <2>8 DEF r
<1> QED
    BY <1>2, <1>3 DEF Tidy

-----------------------------------------------------------------------------
(* Widths: k cells in the line hold what is drawn.                         *)

Cells(k) == {s \in Seq(Still) : \A v \in Window(size) :
                /\ DrawLine(v, s).stuck <=> v.stuck
                /\ v.stuck \/ v.col + k < size.w =>
                    /\ DrawLine(v, s).wrapped <=> v.wrapped
                    /\ v.stuck \/ DrawLine(v, s).col <= v.col + k}

LEMMA StillCalls == Still \subseteq Calls /\ Seq(Still) \subseteq Seq(Calls)
<1>1. Still \subseteq Calls
    BY DEF Calls
<1> QED
    BY <1>1

LEMMA WindowTypes ==
    ASSUME size \in Sizes, NEW v \in Window(size)
    PROVE  /\ size.w \in Nat /\ size.h \in Nat /\ size.w > 0 /\ size.h > 0
           /\ v.row \in Nat /\ v.row < size.h /\ v.col \in Nat /\ v.col < size.w
           /\ v.stuck \in BOOLEAN /\ v.wrapped \in BOOLEAN /\ v.spoiled \in BOOLEAN
           /\ v.bleeds \in BOOLEAN
BY SizeType DEF Window

LEMMA CellsConcat ==
    ASSUME size \in Sizes, NEW k \in Nat, NEW l \in Nat, NEW s \in Cells(k), NEW t \in Cells(l)
    PROVE  s \o t \in Cells(k + l)
<1>1. s \in Seq(Still) /\ t \in Seq(Still) /\ s \in Seq(Calls) /\ t \in Seq(Calls)
    BY StillCalls DEF Cells
<1>2. s \o t \in Seq(Still)
    BY <1>1
<1>3. ASSUME NEW v \in Window(size)
      PROVE  LET r == DrawLine(v, s \o t) IN
             /\ r.stuck <=> v.stuck
             /\ v.stuck \/ v.col + (k + l) < size.w =>
                    (r.wrapped <=> v.wrapped) /\ (v.stuck \/ r.col <= v.col + (k + l))
  <2> DEFINE u == DrawLine(v, s)
  <2>1. /\ u \in Window(size) /\ (u.stuck <=> v.stuck)
        /\ v.stuck \/ v.col + k < size.w =>
               (u.wrapped <=> v.wrapped) /\ (v.stuck \/ u.col <= v.col + k)
      BY <1>1, LineType DEF Cells
  <2>2. DrawLine(v, s \o t) = DrawLine(u, t)
      BY <1>1, LineConcat
  <2> HIDE DEF u
  <2> DEFINE r == DrawLine(u, t)
  <2>3. /\ r \in Window(size) /\ (r.stuck <=> u.stuck)
        /\ u.stuck \/ u.col + l < size.w =>
               (r.wrapped <=> u.wrapped) /\ (u.stuck \/ r.col <= u.col + l)
      BY <1>1, <2>1, LineType DEF Cells
  <2> HIDE DEF r
  <2>4. /\ v.col \in Nat /\ u.col \in Nat /\ r.col \in Nat /\ size.w \in Nat
      BY <2>1, <2>3, WindowTypes
  <2>5. /\ r.stuck <=> v.stuck
        /\ v.stuck \/ v.col + (k + l) < size.w =>
               (r.wrapped <=> v.wrapped) /\ (v.stuck \/ r.col <= v.col + (k + l))
      BY <2>1, <2>3, <2>4
  <2> QED
      BY <2>2, <2>5 DEF r
<1> QED
    BY <1>2, <1>3 DEF Cells

LEMMA CellsMark ==
    ASSUME size \in Sizes, NEW c \in Mark
    PROVE  <<c>> \in Cells(0)
<1>1. c \in Still /\ c \in Calls /\ <<c>> \in Seq(Still)
    BY DEF Still, Calls
<1>2. ASSUME NEW v \in Window(size)
      PROVE  LET r == DrawLine(v, <<c>>) IN
             /\ r.stuck <=> v.stuck
             /\ v.stuck \/ v.col + 0 < size.w =>
                    (r.wrapped <=> v.wrapped) /\ (v.stuck \/ r.col <= v.col + 0)
  <2>1. DrawLine(v, <<c>>) = Call(v, c)
      BY <1>1, LineOne
  <2> DEFINE r == Call(v, c)
  <2>2. r.col = v.col /\ r.stuck = v.stuck /\ r.wrapped = v.wrapped
      BY MarkFields
  <2> HIDE DEF r
  <2>3. v.col \in Nat
      BY WindowTypes
  <2> QED
      BY <2>1, <2>2, <2>3 DEF r
<1> QED
    BY <1>1, <1>2 DEF Cells

LEMMA CellsText ==
    ASSUME size \in Sizes, NEW c \in Text, NEW k \in Nat, c.cells <= k
    PROVE  <<c>> \in Cells(k)
<1>1. c \in Still /\ c \in Calls /\ <<c>> \in Seq(Still) /\ c.cells \in Int /\ c.plain \in BOOLEAN
    BY DEF Still, Calls, Text
<1>2. ASSUME NEW v \in Window(size)
      PROVE  LET r == DrawLine(v, <<c>>) IN
             /\ r.stuck <=> v.stuck
             /\ v.stuck \/ v.col + k < size.w =>
                    (r.wrapped <=> v.wrapped) /\ (v.stuck \/ r.col <= v.col + k)
  <2> DEFINE r == PutText(v, c.cells, c.plain)
  <2>1. DrawLine(v, <<c>>) = r
      BY <1>1, LineOne, CallKinds
  <2>2. v.col \in Nat /\ size.w \in Nat
      BY WindowTypes
  <2>3. CASE c.cells <= 0
    <3>1. r = v
        BY <2>3 DEF PutText
    <3> QED
        BY <2>1, <2>2, <3>1
  <2>4. CASE c.cells > 0
    <3>1. /\ r.stuck = v.stuck
          /\ r.wrapped <=> v.wrapped \/ (~v.stuck /\ v.col + c.cells >= size.w)
          /\ v.col + c.cells < size.w => r.col = v.col + c.cells
        BY <1>1, <2>4, TextFields
    <3> HIDE DEF r
    <3>2. /\ r.stuck <=> v.stuck
          /\ v.stuck \/ v.col + k < size.w =>
                 (r.wrapped <=> v.wrapped) /\ (v.stuck \/ r.col <= v.col + k)
        BY <1>1, <2>2, <3>1
    <3> QED
        BY <2>1, <3>2
  <2> QED
      BY <1>1, <2>3, <2>4
<1> QED
    BY <1>1, <1>2 DEF Cells

-----------------------------------------------------------------------------
(* The parts of a line, tidy and of known width.                           *)

Parts(k) == Tidy \cap Cells(k)

LEMMA PartsConcat ==
    ASSUME size \in Sizes, NEW k \in Nat, NEW l \in Nat, NEW s \in Parts(k), NEW t \in Parts(l)
    PROVE  s \o t \in Parts(k + l)
BY TidyConcat, CellsConcat DEF Parts

LEMMA PartsPlain ==
    ASSUME size \in Sizes, NEW n \in Int, NEW k \in Nat, n <= k
    PROVE  <<Plain(n)>> \in Parts(k)
<1> DEFINE c == Plain(n)
<1>1. c \in Text /\ c.cells = n
    BY DEF Plain, Text
<1> HIDE DEF c
<1>2. <<c>> \in Tidy /\ <<c>> \in Cells(k)
    BY <1>1, TidyCall, CellsText
<1> QED
    BY <1>2 DEF Parts, c

\* Calls with attributes, and what takes them back.
LEMMA PartsStyled ==
    ASSUME size \in Sizes, NEW k \in Nat, NEW L \in SUBSET {"bold", "inverse", "colour"},
           NEW s \in Cells(k), s \in Seq(StyledBy(L)), NEW c \in Mark,
           c = ModeClear \/ (c.do = "off" /\ c # ModeClear /\ L \subseteq {c.look})
    PROVE  s \o <<c>> \in Parts(k)
<1>1. s \o <<c>> \in Tidy
    BY TidyEnd
<1>2. s \o <<c>> \in Cells(k + 0) /\ k + 0 = k
    BY CellsMark, CellsConcat
<1> QED
    BY <1>1, <1>2 DEF Parts

\* What attributes L are on for, in k cells.
Inked(L, k) == Cells(k) \cap Seq(StyledBy(L))

LEMMA InkedConcat ==
    ASSUME size \in Sizes, NEW L, NEW k \in Nat, NEW l \in Nat,
           NEW s \in Inked(L, k), NEW t \in Inked(L, l)
    PROVE  s \o t \in Inked(L, k + l)
<1>1. s \o t \in Seq(StyledBy(L))
    BY DEF Inked
<1> QED
    BY <1>1, CellsConcat DEF Inked

LEMMA InkedStyled ==
    ASSUME size \in Sizes, NEW L, NEW n \in Int, NEW k \in Nat, n <= k
    PROVE  <<Styled(n)>> \in Inked(L, k)
<1> DEFINE c == Styled(n)
<1>1. c \in Text /\ c.cells = n /\ ~c.plain
    BY DEF Styled, Text
<1> HIDE DEF c
<1>2. <<c>> \in Cells(k)
    BY <1>1, CellsText
<1>3. c \in StyledBy(L)
    BY <1>1 DEF StyledBy
<1> QED
    BY <1>2, <1>3 DEF Inked, c

LEMMA InkedOn ==
    ASSUME size \in Sizes, NEW L \in SUBSET {"bold", "inverse", "colour"},
           NEW c \in [do: {"on"}, look: L]
    PROVE  <<c>> \in Inked(L, 0)
<1>1. c \in Mark
    BY DEF Mark
<1>2. <<c>> \in Cells(0)
    BY <1>1, CellsMark
<1>3. c \in StyledBy(L)
    BY DEF StyledBy
<1> QED
    BY <1>2, <1>3 DEF Inked

LEMMA PartsInked ==
    ASSUME size \in Sizes, NEW k \in Nat, NEW L \in SUBSET {"bold", "inverse", "colour"},
           NEW s \in Inked(L, k), NEW c \in Mark,
           c = ModeClear \/ (c.do = "off" /\ c # ModeClear /\ L \subseteq {c.look})
    PROVE  s \o <<c>> \in Parts(k)
BY PartsStyled DEF Inked

LEMMA PartsBold ==
    ASSUME size \in Sizes, NEW n \in Nat
    PROVE  Bold(n) \in Parts(n)
<1> DEFINE L == {"bold"}
<1>1. <<BoldOn>> \in Inked(L, 0)
    BY InkedOn DEF BoldOn
<1>2. <<Styled(n)>> \in Inked(L, n)
    BY InkedStyled
<1>3. <<BoldOn>> \o <<Styled(n)>> \in Inked(L, 0 + n) /\ 0 + n = n
    BY <1>1, <1>2, InkedConcat
<1>4. (<<BoldOn>> \o <<Styled(n)>>) \o <<ModeClear>> \in Parts(n)
    BY <1>3, PartsInked DEF Mark
<1>5. (<<BoldOn>> \o <<Styled(n)>>) \o <<ModeClear>> = Bold(n)
    BY Triple DEF Bold
<1> QED
    BY <1>4, <1>5

LEMMA PartsRendered ==
    ASSUME size \in Sizes, NEW k \in Nat, NEW s \in Inked({"bold", "colour"}, k)
    PROVE  Rendered(s) \in Parts(k)
<1> DEFINE L == {"bold", "colour"}
<1>1. <<Colour>> \in Inked(L, 0) /\ <<BoldOn>> \in Inked(L, 0)
    BY InkedOn DEF Colour, BoldOn
<1>2. <<Colour>> \o <<BoldOn>> \in Inked(L, 0 + 0) /\ 0 + 0 = 0
    BY <1>1, InkedConcat
<1>3. (<<Colour>> \o <<BoldOn>>) \o s \in Inked(L, 0 + k) /\ 0 + k = k
    BY <1>2, InkedConcat
<1>4. ((<<Colour>> \o <<BoldOn>>) \o s) \o <<ModeClear>> \in Parts(k)
    BY <1>3, PartsInked DEF Mark
<1>5. <<Colour>> \o <<BoldOn>> = <<Colour, BoldOn>>
    BY Pair
<1> QED
    BY <1>4, <1>5 DEF Rendered

\* A gauge of 20 cells has a frame, and is at most full.
LEMMA PartsGauge ==
    ASSUME size \in Sizes, NEW pct \in Int, pct <= 100
    PROVE  Gauge(20, pct) \in Parts(22)
<1> DEFINE f == Filled(20, pct)
<1> DEFINE L == {"colour"}
<1>1. f \in 0..20
    BY DEF Filled
<1>2. Gauge(20, pct) = <<Plain(1)>> \o <<Colour, Styled(f), ModeClear>> \o <<Plain(20 - f), Plain(1)>>
    BY DEF Gauge
<1> HIDE DEF f
<1>3. <<Colour>> \in Inked(L, 0) /\ <<Styled(f)>> \in Inked(L, f) /\ f \in Nat /\ 0 + f = f
    BY <1>1, InkedOn, InkedStyled DEF Colour
<1>4. <<Colour>> \o <<Styled(f)>> \in Inked(L, 0 + f)
    BY <1>3, InkedConcat
<1>5. (<<Colour>> \o <<Styled(f)>>) \o <<ModeClear>> \in Parts(f)
    BY <1>3, <1>4, PartsInked DEF Mark
<1>6. (<<Colour>> \o <<Styled(f)>>) \o <<ModeClear>> = <<Colour, Styled(f), ModeClear>>
    BY Triple
<1> DEFINE a == <<Plain(1)>>
<1> DEFINE b == <<Colour, Styled(f), ModeClear>>
<1> DEFINE c == <<Plain(20 - f)>>
<1>7. 20 - f \in Nat /\ a \in Parts(1) /\ b \in Parts(f) /\ c \in Parts(20 - f)
  <2>1. 20 - f \in Nat
      BY <1>1
  <2>2. a \in Parts(1) /\ c \in Parts(20 - f)
      BY <2>1, PartsPlain
  <2> QED
      BY <1>5, <1>6, <2>1, <2>2
<1>8. <<Plain(20 - f), Plain(1)>> = c \o a
    BY Pair
<1> HIDE DEF a, b, c
<1>9. a \o b \in Parts(1 + f) /\ c \o a \in Parts((20 - f) + 1)
    BY <1>3, <1>7, PartsConcat
<1>10. (a \o b) \o (c \o a) \in Parts((1 + f) + ((20 - f) + 1))
    BY <1>3, <1>7, <1>9, PartsConcat
<1>11. (1 + f) + ((20 - f) + 1) = 22
    BY <1>1
<1> QED
    BY <1>2, <1>8, <1>10, <1>11 DEF a, b

-----------------------------------------------------------------------------
(* Lines of their own.                                                     *)

\* A line that takes its attributes back, in the line or after it, and that does
\* not wrap if fits holds.
Rows(fits) == {l \in Tidy : \E k \in Nat : \E s \in Cells(k) :
                  /\ l = Ln(s) \/ l = Ln(s) \o <<BoldOff>>
                  /\ fits => k < size.w}

LEMMA RowOfParts ==
    ASSUME size \in Sizes, NEW fits, NEW k \in Nat, NEW s \in Parts(k), fits => k < size.w
    PROVE  Ln(s) \in Rows(fits)
<1>1. <<Newline>> \in Tidy
    BY TidyCall
<1>2. Ln(s) \in Tidy /\ s \in Cells(k)
    BY <1>1, TidyConcat DEF Ln, Parts
<1> QED
    BY <1>2 DEF Rows

\* The bold line of cctop itself, and the others.
LEMMA RowBold ==
    ASSUME size \in Sizes, NEW fits, NEW n \in Nat, fits => n < size.w
    PROVE  /\ Ln(<<BoldOn, Styled(n)>>) \o <<BoldOff>> \in Rows(fits)
           /\ Ln(<<Plain(n)>>) \o <<BoldOff>> \in Rows(fits)
<1> DEFINE L == {"bold"}
<1> DEFINE s == <<BoldOn>> \o <<Styled(n)>>
<1> DEFINE p == <<Plain(n)>>
<1>1. <<BoldOn>> \in Inked(L, 0) /\ <<Styled(n)>> \in Inked(L, n)
    BY InkedOn, InkedStyled DEF BoldOn
<1>2. s \in Inked(L, 0 + n) /\ 0 + n = n
    BY <1>1, InkedConcat
<1>3. s = <<BoldOn, Styled(n)>>
    BY Pair
<1>4. p \in Parts(n)
    BY PartsPlain
<1>5. BoldOff \in Mark /\ BoldOff.do = "off" /\ BoldOff # ModeClear /\ L \subseteq {BoldOff.look}
    BY DEF BoldOff, Mark, ModeClear
<1> HIDE DEF s, p
<1>6. s \in Cells(n) /\ s \in Seq(StyledBy(L))
    BY <1>2 DEF Inked
<1>7. Ln(s) \in Seq(StyledBy(L))
    BY <1>6 DEF Ln, StyledBy
<1>8. Ln(s) \o <<BoldOff>> \in Tidy
  <2> DEFINE t == Ln(s)
  <2>1. t \in Seq(StyledBy(L))
      BY <1>7
  <2> HIDE DEF t
  <2>2. t \o <<BoldOff>> \in Tidy
      BY <1>5, <2>1, TidyEnd
  <2> QED
      BY <2>2 DEF t
<1>9. Ln(s) \o <<BoldOff>> \in Rows(fits)
    BY <1>6, <1>8 DEF Rows
<1>10. <<Newline>> \in Tidy /\ <<BoldOff>> \in Tidy
    BY TidyCall
<1>11. Ln(p) \in Tidy /\ p \in Cells(n)
    BY <1>4, <1>10, TidyConcat DEF Ln, Parts
<1>12. Ln(p) \o <<BoldOff>> \in Tidy
    BY <1>10, <1>11, TidyConcat
<1>13. Ln(p) \o <<BoldOff>> \in Rows(fits)
    BY <1>11, <1>12 DEF Rows
<1> QED
    BY <1>3, <1>9, <1>13 DEF p

\* A title fills the line but for its last cell.
LEMMA RowTitle ==
    ASSUME size \in Sizes, NEW n \in Nat, n < size.w
    PROVE  InverseLn(n) \in Rows(TRUE)
<1> DEFINE L == {"inverse"}
<1> DEFINE m == size.w - n - 1
<1> DEFINE a == <<InverseOn>>
<1> DEFINE b == <<Styled(n)>>
<1> DEFINE c == <<Styled(m)>>
<1>1. m \in Nat /\ (0 + n) + m \in Nat /\ (0 + n) + m < size.w
    BY SizeType
<1> HIDE DEF m
<1>2. a \in Inked(L, 0) /\ b \in Inked(L, n) /\ c \in Inked(L, m)
    BY <1>1, InkedOn, InkedStyled DEF InverseOn
<1>3. ((a \o b) \o c) \o <<InverseOff>> = <<InverseOn, Styled(n), Styled(m), InverseOff>>
    BY Quadruple
<1> HIDE DEF a, b, c
<1>4. a \o b \in Inked(L, 0 + n) /\ 0 + n \in Nat
    BY <1>2, InkedConcat
<1>5. (a \o b) \o c \in Inked(L, (0 + n) + m)
    BY <1>1, <1>2, <1>4, InkedConcat
<1>6. /\ InverseOff \in Mark /\ InverseOff.do = "off" /\ InverseOff # ModeClear
      /\ L \subseteq {InverseOff.look}
    BY DEF InverseOff, Mark, ModeClear
<1>7. ((a \o b) \o c) \o <<InverseOff>> \in Parts((0 + n) + m)
    BY <1>1, <1>5, <1>6, PartsInked
<1>8. Ln(<<InverseOn, Styled(n), Styled(m), InverseOff>>) \in Rows(TRUE)
  <2> DEFINE t == ((a \o b) \o c) \o <<InverseOff>>
  <2>1. t \in Parts((0 + n) + m)
      BY <1>7
  <2> HIDE DEF t
  <2>2. Ln(t) \in Rows(TRUE)
      BY <1>1, <2>1, RowOfParts
  <2> QED
      BY <1>3, <2>2 DEF t
<1> QED
    BY <1>8 DEF InverseLn, m

-----------------------------------------------------------------------------
(* Sections, line by line.                                                 *)

LineSteps(lines) == [n \in 1..Len(lines) |-> [u \in Window(size) |-> DrawLine(u, lines[n])]]

LEMMA LineStepsType ==
    ASSUME size \in Sizes, NEW lines \in Seq(Seq(Calls))
    PROVE  LineSteps(lines) \in Common!Steps(Len(lines), Window(size))
<1>1. \A n \in 1..Len(lines) : lines[n] \in Seq(Calls)
    OBVIOUS
<1>2. \A n \in 1..Len(lines) : \A u \in Window(size) : DrawLine(u, lines[n]) \in Window(size)
    BY <1>1, LineType
<1> QED
    BY <1>2 DEF Common!Steps, LineSteps

\* A section is drawn line by line: the condition always holds.
LEMMA SectionRun ==
    ASSUME size \in Sizes, NEW v \in Window(size), NEW lines \in Seq(Seq(Calls))
    PROVE  \E f \in [0..Len(lines) -> Window(size)] :
               /\ f[0] = v /\ f[Len(lines)] = DrawLines(v, lines)
               /\ \A n \in 1..Len(lines) : f[n] = DrawLine(f[n - 1], lines[n])
               /\ Common!IsRecursion(f, Len(lines), Window(size), v, LineSteps(lines))
<1> DEFINE N == Len(lines)
<1> DEFINE Is(g) == g = [n \in 0..N |->
                              IF n = 0 THEN v
                              ELSE LET before == g[n - 1]
                                   IN  IF before.row < size.h THEN DrawLine(before, lines[n])
                                       ELSE before]
<1> DEFINE after == CHOOSE g : Is(g)
<1>1. N \in Nat
    OBVIOUS
<1>2. LineSteps(lines) \in Common!Steps(N, Window(size))
    BY LineStepsType
<1>3. \A n \in 1..N : \A u \in Window(size) : LineSteps(lines)[n][u] = DrawLine(u, lines[n])
    BY DEF LineSteps
<1>4. DrawLines(v, lines) = after[N]
    BY DEF DrawLines
<1> HIDE DEF N
<1>5. \E f : Common!IsRecursion(f, N, Window(size), v, LineSteps(lines))
    BY <1>1, <1>2, Common!BoundedRecursion
<1>6. PICK f : Common!IsRecursion(f, N, Window(size), v, LineSteps(lines))
    BY <1>5
<1>7. /\ f \in [0..N -> Window(size)] /\ f[0] = v
      /\ \A n \in 1..N : f[n] = LineSteps(lines)[n][f[n - 1]]
    BY <1>6 DEF Common!IsRecursion
<1>8. ASSUME NEW n \in 1..N PROVE f[n] = DrawLine(f[n - 1], lines[n])
  <2>1. f[n] = LineSteps(lines)[n][f[n - 1]] /\ f[n - 1] \in Window(size)
      BY <1>1, <1>7
  <2> QED
      BY <1>3, <2>1
<1>9. Is(f)
  <2>1. \A n \in 0..N : f[n] =
                IF n = 0 THEN v
                ELSE IF f[n - 1].row < size.h THEN DrawLine(f[n - 1], lines[n]) ELSE f[n - 1]
    <3>1. \A n \in 1..N : f[n - 1] \in Window(size)
        BY <1>1, <1>7
    <3>2. \A n \in 1..N : f[n - 1].row < size.h
        BY <3>1, WindowTypes
    <3> QED
        BY <1>1, <1>7, <1>8, <3>2
  <2> QED
      BY <1>7, <2>1
<1>10. Is(after)
  <2> HIDE DEF Is
  <2> QED
      BY <1>9
<1> HIDE DEF after
<1>11. /\ after[0] = v
       /\ \A n \in 1..N : after[n] = IF after[n - 1].row < size.h
                                      THEN DrawLine(after[n - 1], lines[n])
                                      ELSE after[n - 1]
  <2>1. \A n \in 0..N : after[n] =
                IF n = 0 THEN v
                ELSE IF after[n - 1].row < size.h THEN DrawLine(after[n - 1], lines[n])
                     ELSE after[n - 1]
      BY <1>10
  <2> QED
      BY <1>1, <2>1
<1>12. \A n \in 0..N : after[n] = f[n]
  <2> DEFINE S == {n \in Nat : n <= N => after[n] = f[n]}
  <2>1. 0 \in S
      BY <1>7, <1>11
  <2>2. ASSUME NEW n \in Nat, n \in S PROVE n + 1 \in S
    <3> SUFFICES ASSUME n + 1 <= N PROVE after[n + 1] = f[n + 1]
        OBVIOUS
    <3>1. n + 1 \in 1..N /\ (n + 1) - 1 = n /\ after[n] = f[n] /\ f[n] \in Window(size)
        BY <1>1, <1>7, <2>2
    <3>2. f[n].row < size.h
        BY <3>1, WindowTypes
    <3> QED
        BY <1>8, <1>11, <3>1, <3>2
  <2>3. Nat \subseteq S
    <3> HIDE DEF S
    <3> QED
        BY <2>1, <2>2, Common!SetInduction, SMTT(30)
  <2> QED
      BY <1>1, <2>3
<1>13. f[N] = DrawLines(v, lines)
    BY <1>1, <1>4, <1>12
<1> QED
    BY <1>6, <1>7, <1>8, <1>13 DEF N

\* The steps of two sequences in a row.
LEMMA LineStepsJoin ==
    ASSUME NEW s \in Seq(Seq(Calls)), NEW t \in Seq(Seq(Calls))
    PROVE  /\ \A n \in 1..Len(s) : LineSteps(s)[n] = LineSteps(s \o t)[n]
           /\ \A n \in 1..Len(t) : LineSteps(t)[n] = LineSteps(s \o t)[Len(s) + n]
<1>1. /\ Len(s) \in Nat /\ Len(t) \in Nat /\ Len(s \o t) = Len(s) + Len(t)
      /\ \A n \in 1..Len(s) : (s \o t)[n] = s[n]
      /\ \A n \in 1..Len(t) : (s \o t)[Len(s) + n] = t[n]
    OBVIOUS
<1> DEFINE st == s \o t
<1> HIDE DEF st
<1>2. \A n \in 1..Len(s) : LineSteps(s)[n] = LineSteps(st)[n]
    BY <1>1 DEF LineSteps, st
<1>3. \A n \in 1..Len(t) : LineSteps(t)[n] = LineSteps(st)[Len(s) + n]
    BY <1>1 DEF LineSteps, st
<1> QED
    BY <1>2, <1>3 DEF st

\* A section may be drawn in two parts.
LEMMA SectionConcat ==
    ASSUME size \in Sizes, NEW v \in Window(size),
           NEW s \in Seq(Seq(Calls)), NEW t \in Seq(Seq(Calls))
    PROVE  DrawLines(v, s \o t) = DrawLines(DrawLines(v, s), t)
<1> DEFINE st == s \o t
<1>1. st \in Seq(Seq(Calls)) /\ Len(st) = Len(s) + Len(t) /\ Len(s) \in Nat /\ Len(t) \in Nat
    OBVIOUS
<1>2. /\ \A n \in 1..Len(s) : LineSteps(s)[n] = LineSteps(st)[n]
      /\ \A n \in 1..Len(t) : LineSteps(t)[n] = LineSteps(st)[Len(s) + n]
    BY LineStepsJoin
<1> HIDE DEF st
<1>3. PICK f \in [0..Len(s) -> Window(size)] :
          /\ f[Len(s)] = DrawLines(v, s)
          /\ Common!IsRecursion(f, Len(s), Window(size), v, LineSteps(s))
    BY SectionRun
<1> DEFINE u == DrawLines(v, s)
<1>4. u \in Window(size)
  <2>1. Len(s) \in 0..Len(s)
      BY <1>1
  <2> QED
      BY <1>3, <2>1
<1> HIDE DEF u
<1>5. PICK g \in [0..Len(t) -> Window(size)] :
          /\ g[Len(t)] = DrawLines(u, t)
          /\ Common!IsRecursion(g, Len(t), Window(size), u, LineSteps(t))
    BY <1>4, SectionRun
<1>6. PICK h \in [0..Len(st) -> Window(size)] :
          /\ h[Len(st)] = DrawLines(v, st)
          /\ Common!IsRecursion(h, Len(st), Window(size), v, LineSteps(st))
    BY <1>1, SectionRun
<1>7. /\ LineSteps(s) \in Common!Steps(Len(s), Window(size))
      /\ LineSteps(t) \in Common!Steps(Len(t), Window(size))
      /\ LineSteps(st) \in Common!Steps(Len(s) + Len(t), Window(size))
    BY <1>1, LineStepsType
<1> DEFINE N == Len(s)
<1> DEFINE M == Len(t)
<1> DEFINE X == Window(size)
<1> DEFINE head == LineSteps(s)
<1> DEFINE tail == LineSteps(t)
<1> DEFINE both == LineSteps(st)
<1>8. Common!Joined(f, g, h, N, M, X, v, head, tail, both)
    BY <1>1, <1>2, <1>3, <1>5, <1>6, <1>7 DEF u, Common!Joined
<1>9. h[N + M] = g[M]
  <2> HIDE DEF N, M, X, head, tail, both
  <2> QED
      BY <1>8, Common!JoinedRecursion
<1> QED
    BY <1>1, <1>5, <1>6, <1>9 DEF u, st



\* No line, and one.
LEMMA SectionOne ==
    ASSUME size \in Sizes, NEW v \in Window(size), NEW l \in Seq(Calls)
    PROVE  DrawLines(v, <<l>>) = DrawLine(v, l) /\ DrawLines(v, <<>>) = v
<1> DEFINE one == <<l>>
<1> DEFINE none == <<>>
<1>1. /\ one \in Seq(Seq(Calls)) /\ Len(one) = 1 /\ one[1] = l
      /\ none \in Seq(Seq(Calls)) /\ Len(none) = 0
    OBVIOUS
<1> HIDE DEF one, none
<1>2. PICK f \in [0..Len(one) -> Window(size)] :
          /\ f[0] = v /\ f[Len(one)] = DrawLines(v, one)
          /\ \A n \in 1..Len(one) : f[n] = DrawLine(f[n - 1], one[n])
    BY <1>1, SectionRun
<1>3. DrawLines(v, one) = DrawLine(v, l)
    BY <1>1, <1>2
<1>4. PICK g \in [0..Len(none) -> Window(size)] :
          g[0] = v /\ g[Len(none)] = DrawLines(v, none)
    BY <1>1, SectionRun
<1>5. DrawLines(v, none) = v
    BY <1>1, <1>4
<1> QED
    BY <1>3, <1>5 DEF one, none

\* Where each line leads from one set of windows to the next.
LEMMA SectionGoes ==
    ASSUME size \in Sizes, NEW lines \in Seq(Seq(Calls)), NEW S \in [Nat -> SUBSET Window(size)],
           NEW v \in S[0],
           \A n \in 1..Len(lines) : \A u \in S[n - 1] : DrawLine(u, lines[n]) \in S[n]
    PROVE  DrawLines(v, lines) \in S[Len(lines)]
<1>1. Len(lines) \in Nat /\ v \in Window(size)
    OBVIOUS
<1>2. PICK f \in [0..Len(lines) -> Window(size)] :
          /\ f[0] = v /\ f[Len(lines)] = DrawLines(v, lines)
          /\ \A n \in 1..Len(lines) : f[n] = DrawLine(f[n - 1], lines[n])
    BY <1>1, SectionRun
<1> DEFINE I == {n \in Nat : n <= Len(lines) => f[n] \in S[n]}
<1>3. 0 \in I
    BY <1>2
<1>4. ASSUME NEW n \in Nat, n \in I PROVE n + 1 \in I
  <2> SUFFICES ASSUME n + 1 <= Len(lines) PROVE f[n + 1] \in S[n + 1]
      OBVIOUS
  <2>1. n + 1 \in 1..Len(lines) /\ (n + 1) - 1 = n /\ f[n] \in S[n]
      BY <1>1, <1>4
  <2>2. f[n + 1] = DrawLine(f[n], lines[n + 1])
      BY <1>2, <2>1
  <2> QED
      BY <2>1, <2>2
<1>5. Nat \subseteq I
  <2> HIDE DEF I
  <2> QED
      BY <1>3, <1>4, Common!SetInduction, SMTT(30)
<1> QED
    BY <1>1, <1>2, <1>5

\* What each line leaves alone, the section does.
LEMMA SectionStays ==
    ASSUME size \in Sizes, NEW L \in SUBSET Seq(Calls), NEW lines \in Seq(L),
           NEW S \in SUBSET Window(size), NEW v \in S,
           \A u \in S : \A l \in L : DrawLine(u, l) \in S
    PROVE  DrawLines(v, lines) \in S
<1> DEFINE T == [n \in Nat |-> S]
<1>1. lines \in Seq(Seq(Calls)) /\ Len(lines) \in Nat /\ \A n \in 1..Len(lines) : lines[n] \in L
    OBVIOUS
<1>2. T \in [Nat -> SUBSET Window(size)] /\ v \in T[0] /\ T[Len(lines)] = S
    BY <1>1
<1>3. \A n \in 1..Len(lines) : \A u \in T[n - 1] : DrawLine(u, lines[n]) \in T[n]
    BY <1>1
<1> HIDE DEF T
<1>4. DrawLines(v, lines) \in T[Len(lines)]
    BY <1>1, <1>2, <1>3, SectionGoes
<1> QED
    BY <1>2, <1>4

-----------------------------------------------------------------------------
(* What a section does to the window.                                      *)

\* The window between two lines.
Ready(v) == Good(v) /\ v.looks = {} /\ (v.stuck \/ v.col = 0)

\* n lines led from v to r.
After(fits, n, v, r) ==
    /\ Ready(r)
    /\ r.bleeds <=> v.bleeds
    /\ v.wrapped => r.wrapped
    /\ fits => (r.wrapped <=> v.wrapped)
    /\ v.row + n <= r.row \/ r.row = size.h - 1
    /\ v.row + n <= size.h - 1 /\ ~v.stuck =>
           r.wrapped \/ (~r.stuck /\ r.row = v.row + n /\ (r.spoiled <=> v.spoiled))
    /\ Complete(v) => Complete(r)

LEMMA AfterNone ==
    ASSUME size \in Sizes, NEW fits, NEW v, Ready(v)
    PROVE  After(fits, 0, v, v)
<1>1. v.row \in Nat /\ v.row < size.h /\ size.h \in Nat
    BY WindowTypes DEF Ready, Good
<1> QED
    BY <1>1 DEF After

LEMMA AfterMore ==
    ASSUME size \in Sizes, NEW fits, NEW n \in Nat, NEW v, Ready(v), NEW u, NEW r,
           After(fits, n, v, u), After(fits, 1, u, r)
    PROVE  After(fits, n + 1, v, r)
<1>1. Ready(u) /\ Ready(r)
    BY DEF After
<1>2. /\ v.row \in Nat /\ v.row < size.h /\ u.row \in Nat /\ u.row < size.h
      /\ r.row \in Nat /\ r.row < size.h /\ size.h \in Nat
    BY <1>1, WindowTypes DEF Ready, Good
<1>3. v.row + (n + 1) <= r.row \/ r.row = size.h - 1
    BY <1>2 DEF After
<1>4. ASSUME v.row + (n + 1) <= size.h - 1, ~v.stuck
      PROVE  r.wrapped \/ (~r.stuck /\ r.row = v.row + (n + 1) /\ (r.spoiled <=> v.spoiled))
  <2>1. u.wrapped \/ (~u.stuck /\ u.row = v.row + n /\ (u.spoiled <=> v.spoiled))
      BY <1>2, <1>4 DEF After
  <2>2. CASE u.wrapped
      BY <2>2 DEF After
  <2>3. CASE ~u.stuck /\ u.row = v.row + n /\ (u.spoiled <=> v.spoiled)
    <3>1. u.row + 1 <= size.h - 1 /\ u.row + 1 = v.row + (n + 1)
        BY <1>2, <1>4, <2>3
    <3> QED
        BY <2>3, <3>1 DEF After
  <2> QED
      BY <2>1, <2>2, <2>3
<1>5. /\ r.bleeds <=> v.bleeds
      /\ v.wrapped => r.wrapped
      /\ fits => (r.wrapped <=> v.wrapped)
      /\ Complete(v) => Complete(r)
    BY DEF After
<1> QED
    BY <1>1, <1>3, <1>4, <1>5 DEF After

\* A single line.
LEMMA RowDraws ==
    ASSUME size \in Sizes, size.w > 1, NEW fits, NEW v, Ready(v), NEW l \in Rows(fits)
    PROVE  After(fits, 1, v, DrawLine(v, l))
<1>1. v \in Window(size) /\ Good(v) /\ v.looks = {} /\ (v.stuck \/ v.col = 0)
    BY DEF Ready, Good
<1> DEFINE Of(k, s) == (l = Ln(s) \/ l = Ln(s) \o <<BoldOff>>) /\ (fits => k < size.w)
<1>0. PICK k \in Nat : \E s \in Cells(k) : Of(k, s)
    BY DEF Rows
<1>2. PICK s \in Cells(k) : Of(k, s)
    BY <1>0
<1>3. s \in Seq(Still) /\ s \in Seq(Calls) /\ l \in Seq(Calls)
    BY StillCalls DEF Cells, Rows, Tidy
<1> DEFINE u == DrawLine(v, s)
<1> DEFINE e == PutNewline(u)
<1> DEFINE r == DrawLine(v, l)
<1>4. Keeps(v, u)
    BY <1>1, <1>3, LineKeeps
<1>5. fits => (u.wrapped <=> v.wrapped)
  <2>1. v.stuck \/ v.col + k < size.w => (u.wrapped <=> v.wrapped)
      BY <1>1 DEF Cells
  <2>2. fits => v.stuck \/ v.col + k < size.w
      BY <1>1, <1>2
  <2> HIDE DEF u
  <2> QED
      BY <2>1, <2>2
<1>6. /\ DrawLine(v, Ln(s)) = e
      /\ l = Ln(s) => r = e
      /\ l = Ln(s) \o <<BoldOff>> => r = Call(e, BoldOff)
  <2>1. Newline \in Calls /\ <<Newline>> \in Seq(Calls)
      BY DEF Calls
  <2>2. BoldOff \in Calls /\ <<BoldOff>> \in Seq(Calls)
      BY DEF Calls, Still, Mark, BoldOff
  <2>3. u \in Window(size) /\ e \in Window(size)
    <3>1. u \in Window(size)
        BY <1>4 DEF Keeps, Good
    <3> HIDE DEF u
    <3> QED
        BY <3>1, NewlineFields
  <2>4. DrawLine(v, Ln(s)) = e
    <3>1. DrawLine(v, s \o <<Newline>>) = DrawLine(u, <<Newline>>)
        BY <1>1, <1>3, <2>1, LineConcat
    <3> HIDE DEF u
    <3>2. DrawLine(u, <<Newline>>) = Call(u, Newline)
        BY <2>1, <2>3, LineOne
    <3> QED
        BY <3>1, <3>2, CallKinds DEF Ln
  <2>5. DrawLine(v, Ln(s) \o <<BoldOff>>) = Call(e, BoldOff)
    <3>1. Ln(s) \in Seq(Calls)
        BY <1>3, <2>1 DEF Ln
    <3>2. DrawLine(v, Ln(s) \o <<BoldOff>>) = DrawLine(DrawLine(v, Ln(s)), <<BoldOff>>)
        BY <1>1, <2>2, <3>1, LineConcat
    <3> HIDE DEF e
    <3>3. DrawLine(e, <<BoldOff>>) = Call(e, BoldOff)
        BY <2>2, <2>3, LineOne
    <3> QED
        BY <2>4, <3>2, <3>3
  <2> QED
      BY <2>4, <2>5
<1>7. r.looks = {} /\ (r.bleeds <=> v.bleeds)
    BY <1>1 DEF Rows, Tidy
<1> HIDE DEF u
<1>8. Good(u) /\ u \in Window(size)
    BY <1>4 DEF Keeps, Good
<1>9. /\ Good(e) /\ (Complete(u) => Complete(e))
      /\ e.spoiled = u.spoiled /\ e.wrapped = u.wrapped
      /\ u.row < size.h - 1 => e.row = u.row + 1 /\ e.col = 0 /\ e.stuck = u.stuck
      /\ u.row = size.h - 1 => e.row = u.row /\ e.col = u.col /\ e.stuck
    BY <1>8, NewlineGood, NewlineFields
<1> HIDE DEF e
<1>10. /\ Good(r) /\ (Complete(e) => Complete(r))
       /\ r.spoiled = e.spoiled /\ r.wrapped = e.wrapped
       /\ r.row = e.row /\ r.col = e.col /\ r.stuck = e.stuck
  <2>1. CASE r = e
      BY <1>9, <2>1
  <2>2. CASE r = Call(e, BoldOff)
    <3>1. BoldOff \in Mark
        BY DEF BoldOff, Mark
    <3>2. e \in Window(size)
        BY <1>9 DEF Good
    <3> DEFINE b == Call(e, BoldOff)
    <3>3. Keeps(e, b)
        BY <1>9, <3>1, MarkKeeps
    <3>4. /\ b.spoiled = e.spoiled /\ b.wrapped = e.wrapped
          /\ b.row = e.row /\ b.col = e.col /\ b.stuck = e.stuck
        BY <3>1, <3>2, MarkFields
    <3> HIDE DEF b
    <3>5. r = b
        BY <2>2 DEF b
    <3> HIDE DEF r
    <3> QED
        BY <3>3, <3>4, <3>5 DEF Keeps
  <2> QED
      BY <1>2, <1>6, <2>1, <2>2
<1> HIDE DEF r
<1>11. /\ v.row \in Nat /\ v.row < size.h /\ u.row \in Nat /\ u.row < size.h /\ size.h \in Nat
    BY <1>1, <1>8, WindowTypes
<1>12. Ready(r)
    BY <1>7, <1>9, <1>10, <1>11 DEF Ready
<1>13. v.row + 1 <= r.row \/ r.row = size.h - 1
    BY <1>4, <1>9, <1>10, <1>11 DEF Keeps
<1>14. ASSUME v.row + 1 <= size.h - 1, ~v.stuck
       PROVE  r.wrapped \/ (~r.stuck /\ r.row = v.row + 1 /\ (r.spoiled <=> v.spoiled))
  <2>1. CASE u.wrapped
      BY <1>9, <1>10, <2>1
  <2>2. CASE ~u.wrapped
    <3>1. u.row = v.row /\ ~u.stuck /\ (u.spoiled <=> v.spoiled)
        BY <1>4, <1>14, <2>2 DEF Keeps
    <3>2. u.row < size.h - 1
        BY <1>11, <1>14, <3>1
    <3> QED
        BY <1>9, <1>10, <3>1, <3>2
  <2> QED
      BY <2>1, <2>2
<1>15. /\ v.wrapped => r.wrapped
       /\ fits => (r.wrapped <=> v.wrapped)
       /\ Complete(v) => Complete(r)
    BY <1>4, <1>5, <1>9, <1>10 DEF Keeps
<1>16. After(fits, 1, v, r)
    BY <1>7, <1>12, <1>13, <1>14, <1>15 DEF After
<1> QED
    BY <1>16 DEF r

\* As many lines as there are.
LEMMA SectionDraws ==
    ASSUME size \in Sizes, size.w > 1, NEW fits, NEW v, Ready(v), NEW lines \in Seq(Rows(fits))
    PROVE  After(fits, Len(lines), v, DrawLines(v, lines))
<1> DEFINE S == [n \in Nat |-> {u \in Window(size) : After(fits, n, v, u)}]
<1>1. Rows(fits) \subseteq Seq(Calls)
    BY DEF Rows, Tidy
<1>2. /\ lines \in Seq(Seq(Calls)) /\ Len(lines) \in Nat
      /\ \A n \in 1..Len(lines) : lines[n] \in Rows(fits)
    BY <1>1
<1>3. v \in Window(size)
    BY DEF Ready, Good
<1>4. S \in [Nat -> SUBSET Window(size)] /\ v \in S[0]
    BY <1>3, AfterNone
<1>5. ASSUME NEW n \in 1..Len(lines), NEW u \in S[n - 1] PROVE DrawLine(u, lines[n]) \in S[n]
  <2>1. n - 1 \in Nat /\ n \in Nat /\ (n - 1) + 1 = n
      BY <1>2
  <2>2. After(fits, n - 1, v, u)
      BY <2>1
  <2> DEFINE r == DrawLine(u, lines[n])
  <2>3. Ready(u)
      BY <2>2 DEF After
  <2>4. After(fits, 1, u, r)
      BY <1>2, <2>3, RowDraws
  <2> HIDE DEF r
  <2>5. After(fits, (n - 1) + 1, v, r)
      BY <2>1, <2>2, <2>4, AfterMore
  <2>6. r \in Window(size)
      BY <2>5 DEF After, Ready, Good
  <2>7. r \in S[n]
      BY <2>1, <2>5, <2>6
  <2> QED
      BY <2>7 DEF r
<1> DEFINE r == DrawLines(v, lines)
<1>6. r \in S[Len(lines)]
  <2> HIDE DEF S
  <2> QED
      BY <1>2, <1>4, <1>5, SectionGoes
<1> HIDE DEF r
<1>7. After(fits, Len(lines), v, r)
    BY <1>2, <1>6
<1> QED
    BY <1>7 DEF r

-----------------------------------------------------------------------------
(* What each print() draws.                                                *)

LEMMA RowsWeaken ==
    ASSUME NEW fits, NEW l \in Rows(TRUE)
    PROVE  l \in Rows(fits)
BY DEF Rows

LEMMA RowsCalls ==
    ASSUME NEW fits
    PROVE  Rows(fits) \subseteq Seq(Calls) /\ Seq(Rows(fits)) \subseteq Seq(Seq(Calls))
<1>1. Rows(fits) \subseteq Seq(Calls)
    BY DEF Rows, Tidy
<1> QED
    BY <1>1

LEMMA RowsTimes ==
    ASSUME NEW fits, NEW n \in Nat, NEW l \in Rows(fits)
    PROVE  Times(n, l) \in Seq(Rows(fits)) /\ Len(Times(n, l)) = n
BY DEF Times

LEMMA RowsConcat ==
    ASSUME NEW fits, NEW s \in Seq(Rows(fits)), NEW t \in Seq(Rows(fits))
    PROVE  s \o t \in Seq(Rows(fits)) /\ Len(s \o t) = Len(s) + Len(t)
BY ConcatProperties

LEMMA RowsSingle ==
    ASSUME NEW fits, NEW l \in Rows(fits)
    PROVE  /\ <<l>> \in Seq(Rows(fits)) /\ Len(<<l>>) = 1
           /\ <<>> \in Seq(Rows(fits)) /\ Len(<<>>) = 0
OBVIOUS

LEMMA RowEmpty ==
    ASSUME size \in Sizes, NEW fits
    PROVE  Ln(<<>>) \in Rows(fits)
<1> DEFINE s == <<>>
<1>1. s \in Seq(Still) /\ s \in Seq(Calls)
    OBVIOUS
<1>2. Newline \in Calls
    BY DEF Calls
<1>3. \A v \in Window(size) : DrawLine(v, s) = v
    BY <1>2, LineOne
<1> HIDE DEF s
<1>4. s \in Tidy
    BY <1>1, <1>3 DEF Tidy
<1>5. s \in Cells(0)
  <2>1. \A v \in Window(size) : v.col \in Nat
      BY WindowTypes
  <2> QED
      BY <1>1, <1>3, <2>1 DEF Cells
<1>6. 0 < size.w
    BY SizeType
<1>7. Ln(s) \in Rows(fits)
    BY <1>4, <1>5, <1>6, RowOfParts DEF Parts
<1> QED
    BY <1>7 DEF s

LEMMA RowsBlank ==
    ASSUME size \in Sizes, NEW fits, NEW c \in BOOLEAN
    PROVE  Blank(c) \in Seq(Rows(fits)) /\ Len(Blank(c)) = IF c THEN 0 ELSE 1
<1> DEFINE l == Ln(<<>>)
<1>1. l \in Rows(fits)
    BY RowEmpty
<1>2. Blank(c) = IF c THEN <<>> ELSE <<l>>
    BY DEF Blank
<1> HIDE DEF l
<1> QED
    BY <1>1, <1>2

LEMMA DataTypes ==
    ASSUME data \in Data
    PROVE  /\ data.use \in Nat /\ data.head \in Nat /\ data.over \in [Field -> Nat]
           /\ data.charge \in Int /\ data.charge <= 100
           /\ data.real \in Int /\ data.real <= 100
           /\ data.processes \in Seq(Nat)
           /\ data.interfaces \in Seq(Nat) /\ Len(data.interfaces) <= Interfaces
           /\ data.drives \in Seq(Nat) /\ Len(data.drives) = Drives
<1>1. data \in Sampled
    BY DataAssumption
<1>2. /\ data.use \in Nat /\ data.head \in Nat /\ data.over \in [Field -> Nat]
      /\ data.charge \in 0..100 /\ data.real \in {share \in Int : share <= 100}
    BY <1>1 DEF Sampled
<1>3. /\ data.processes \in Seq(Nat)
      /\ data.interfaces \in {s \in Seq(Nat) : Len(s) <= Interfaces}
      /\ data.drives \in [1..Drives -> Nat]
    BY <1>1 DEF Sampled
<1>4. data.drives \in Seq(Nat) /\ Len(data.drives) = Drives
    BY <1>3, RoomAssumption
<1>5. /\ data.charge \in Int /\ data.charge <= 100
      /\ data.real \in Int /\ data.real <= 100
    BY <1>2
<1>6. data.interfaces \in Seq(Nat) /\ Len(data.interfaces) <= Interfaces
    BY <1>3
<1> QED
    BY <1>2, <1>3, <1>4, <1>5, <1>6, Zenon

\* Four parts of a line, and six.
LEMMA PartsFour ==
    ASSUME size \in Sizes, NEW i \in Nat, NEW j \in Nat, NEW k \in Nat, NEW l \in Nat,
           NEW a \in Parts(i), NEW b \in Parts(j), NEW c \in Parts(k), NEW d \in Parts(l)
    PROVE  ((a \o b) \o c) \o d \in Parts(i + j + k + l)
<1>1. a \o b \in Parts(i + j) /\ i + j \in Nat
    BY PartsConcat
<1>2. (a \o b) \o c \in Parts(i + j + k) /\ i + j + k \in Nat
    BY <1>1, PartsConcat
<1> QED
    BY <1>2, PartsConcat

\* Platform::print(): three lines.
LEMMA PlatformRows ==
    ASSUME size \in Sizes, data \in Data, ~Small(size), HeadFill >= 0, NEW fits
    PROVE  PlatformLines \in Seq(Rows(fits)) /\ Len(PlatformLines) = 3
<1>1. size.w \in Nat /\ size.w >= 96
    BY SizeType DEF Small, MinWidth
<1> DEFINE n == data.head + HeadFill
<1>2. data.head \in Nat
    BY DataTypes
<1>3. n \in Nat /\ n < size.w
    BY <1>1, <1>2 DEF HeadFill
<1> DEFINE x == InverseLn(n)
<1> DEFINE s == Bold(8) \o <<Plain(20)>> \o Bold(14) \o <<Plain(17)>>
<1> DEFINE t == Bold(14) \o <<Plain(14)>> \o Bold(9) \o <<Plain(5)>> \o Gauge(20, data.charge)
                \o <<Plain(27)>>
<1> DEFINE y == Ln(s)
<1> DEFINE z == Ln(t)
<1>4. x \in Rows(fits)
  <2> HIDE DEF n
  <2> QED
      BY <1>3, RowTitle, RowsWeaken
<1>5. /\ Bold(8) \in Parts(8) /\ Bold(14) \in Parts(14) /\ Bold(9) \in Parts(9)
      /\ <<Plain(20)>> \in Parts(20) /\ <<Plain(17)>> \in Parts(17)
      /\ <<Plain(14)>> \in Parts(14) /\ <<Plain(5)>> \in Parts(5) /\ <<Plain(27)>> \in Parts(27)
      /\ Gauge(20, data.charge) \in Parts(22)
  <2>1. Bold(8) \in Parts(8) /\ Bold(14) \in Parts(14) /\ Bold(9) \in Parts(9)
      BY PartsBold
  <2>2. /\ <<Plain(20)>> \in Parts(20) /\ <<Plain(17)>> \in Parts(17)
        /\ <<Plain(14)>> \in Parts(14)
      BY PartsPlain
  <2>3. <<Plain(5)>> \in Parts(5) /\ <<Plain(27)>> \in Parts(27)
      BY PartsPlain
  <2>4. Gauge(20, data.charge) \in Parts(22)
      BY PartsGauge, DataTypes
  <2> QED
      BY <2>1, <2>2, <2>3, <2>4
<1>6. s \in Parts(8 + 20 + 14 + 17)
    BY <1>5, PartsFour
<1>7. t \in Parts(14 + 14 + 9 + 5 + 22 + 27)
  <2> DEFINE a == Bold(14)
  <2> DEFINE b == <<Plain(14)>>
  <2> DEFINE c == Bold(9)
  <2> DEFINE d == <<Plain(5)>>
  <2> DEFINE e == Gauge(20, data.charge)
  <2> DEFINE f == <<Plain(27)>>
  <2>1. /\ a \in Parts(14) /\ b \in Parts(14) /\ c \in Parts(9) /\ d \in Parts(5)
        /\ e \in Parts(22) /\ f \in Parts(27)
      BY <1>5
  <2> HIDE DEF a, b, c, d, e, f
  <2>2. ((((a \o b) \o c) \o d) \o e) \o f \in Parts(14 + 14 + 9 + 5 + 22 + 27)
    <3>1. ((a \o b) \o c) \o d \in Parts(14 + 14 + 9 + 5)
        BY <2>1, PartsFour
    <3>2. (((a \o b) \o c) \o d) \o e \in Parts(14 + 14 + 9 + 5 + 22)
        BY <2>1, <3>1, PartsConcat
    <3> QED
        BY <2>1, <3>2, PartsConcat
  <2> QED
      BY <2>2 DEF a, b, c, d, e, f
<1> HIDE DEF s, t, x
<1>8. 8 + 20 + 14 + 17 < size.w /\ 14 + 14 + 9 + 5 + 22 + 27 < size.w
    BY <1>1
<1>9. y \in Rows(fits) /\ z \in Rows(fits)
    BY <1>6, <1>7, <1>8, RowOfParts
<1> HIDE DEF y, z
<1>10. <<x, y, z>> \in Seq(Rows(fits)) /\ Len(<<x, y, z>>) = 3
    BY <1>4, <1>9
<1>11. PlatformLines = <<x, y, z>>
    BY DEF PlatformLines, x, y, z, s, t
<1> QED
    BY <1>10, <1>11

\* CPUCore::print().
LEMMA CPULineRow ==
    ASSUME size \in Sizes, data \in Data, ~Small(size)
    PROVE  CPULine(data.use) \in Rows(Spare)
<1>1. size.w \in Nat /\ size.w >= 96
    BY SizeType DEF Small, MinWidth
<1> DEFINE L == {"bold", "colour"}
<1> DEFINE use == data.use
<1> DEFINE o == 49 + data.over["cpu"]
<1> DEFINE q == use \div 5
<1> DEFINE m == IF q < 20 THEN 20 - q ELSE 0
<1>2. /\ q \in Nat /\ m \in Nat /\ 20 - q <= m
      /\ o \in Nat /\ (Spare => o + q + m < size.w - 25)
  <2> DEFINE k == data.over["cpu"]
  <2>1. use \in Nat /\ k \in Nat
      BY DataTypes DEF Field
  <2>2. Spare => k + (IF use < 100 THEN 0 ELSE q - 20) <= size.w - 95
      BY DEF Spare
  <2>3. q \in Nat /\ (use < 100 => q < 20) /\ (use >= 100 => q >= 20)
      BY <2>1
  <2> HIDE DEF use, k, q
  <2>4. Spare => 49 + k + q + m < size.w - 25
    <3>1. CASE use < 100
        BY <1>1, <2>1, <2>2, <2>3, <3>1
    <3>2. CASE ~(use < 100)
        BY <1>1, <2>1, <2>2, <2>3, <3>2
    <3> QED
        BY <3>1, <3>2
  <2> QED
      BY <2>1, <2>3, <2>4 DEF k
<1>3. CPUBar(use) = <<Styled(q), Styled(20 - q)>>
    BY DEF CPUBar
<1> HIDE DEF q, m, o
<1>4. <<Styled(q)>> \in Inked(L, q) /\ <<Styled(20 - q)>> \in Inked(L, m)
    BY <1>2, InkedStyled
<1>5. <<Styled(q)>> \o <<Styled(20 - q)>> \in Inked(L, q + m) /\ q + m \in Nat
    BY <1>2, <1>4, InkedConcat
<1>6. <<Styled(q)>> \o <<Styled(20 - q)>> = CPUBar(use)
    BY <1>3, Pair DEF q
<1>7. Rendered(CPUBar(use)) \in Parts(q + m)
    BY <1>5, <1>6, PartsRendered
<1>8. <<Styled(1)>> \in Inked(L, 1) /\ <<Styled(20)>> \in Inked(L, 20)
    BY InkedStyled
<1>9. /\ Rendered(<<Styled(1)>>) \in Parts(1) /\ Rendered(<<Styled(20)>>) \in Parts(20)
      /\ <<Plain(o)>> \in Parts(o) /\ Bold(2) \in Parts(2)
    BY <1>2, <1>8, PartsRendered, PartsPlain, PartsBold
<1> DEFINE s == <<Plain(o)>> \o Rendered(<<Styled(1)>>) \o Bold(2)
                \o Rendered(CPUBar(use)) \o Bold(2) \o Rendered(<<Styled(20)>>)
<1>10. s \in Parts(o + 1 + 2 + (q + m) + 2 + 20)
  <2> DEFINE a == <<Plain(o)>>
  <2> DEFINE b == Rendered(<<Styled(1)>>)
  <2> DEFINE c == Bold(2)
  <2> DEFINE d == Rendered(CPUBar(use))
  <2> DEFINE f == Rendered(<<Styled(20)>>)
  <2> DEFINE k == q + m
  <2>1. /\ a \in Parts(o) /\ b \in Parts(1) /\ c \in Parts(2) /\ d \in Parts(k)
        /\ f \in Parts(20) /\ k \in Nat /\ o \in Nat
      BY <1>2, <1>5, <1>7, <1>9
  <2> HIDE DEF a, b, c, d, f, k
  <2>2. ((((a \o b) \o c) \o d) \o c) \o f \in Parts(o + 1 + 2 + k + 2 + 20)
    <3>1. ((a \o b) \o c) \o d \in Parts(o + 1 + 2 + k)
        BY <2>1, PartsFour
    <3>2. (((a \o b) \o c) \o d) \o c \in Parts(o + 1 + 2 + k + 2)
        BY <2>1, <3>1, PartsConcat
    <3> QED
        BY <2>1, <3>2, PartsConcat
  <2> QED
      BY <2>2 DEF a, b, c, d, f, k
<1> HIDE DEF s
<1>11. /\ o + 1 + 2 + (q + m) + 2 + 20 \in Nat
       /\ Spare => o + 1 + 2 + (q + m) + 2 + 20 < size.w
    BY <1>1, <1>2
<1>12. Ln(s) \in Rows(Spare)
    BY <1>10, <1>11, RowOfParts
<1> QED
    BY <1>12 DEF CPULine, s, o

\* CPU::print(): the title and a line, or one more for each core.
LEMMA CPURows ==
    ASSUME size \in Sizes, data \in Data, ~Small(size), NEW n \in Nat
    PROVE  LET lines == <<InverseLn(81)>> \o Times(n, CPULine(data.use)) IN
           lines \in Seq(Rows(Spare)) /\ Len(lines) = 1 + n
<1>1. 81 < size.w /\ 81 \in Nat
    BY SizeType DEF Small, MinWidth
<1>2. InverseLn(81) \in Rows(Spare)
    BY <1>1, RowTitle, RowsWeaken
<1>4. CPULine(data.use) \in Rows(Spare)
    BY CPULineRow
<1> DEFINE s == <<InverseLn(81)>>
<1> DEFINE t == Times(n, CPULine(data.use))
<1>5. s \in Seq(Rows(Spare)) /\ Len(s) = 1
    BY <1>2, RowsSingle
<1>6. t \in Seq(Rows(Spare)) /\ Len(t) = n
    BY <1>4, RowsTimes
<1> HIDE DEF s, t
<1>7. s \o t \in Seq(Rows(Spare)) /\ Len(s \o t) = Len(s) + Len(t)
    BY <1>5, <1>6, RowsConcat
<1> QED
    BY <1>5, <1>6, <1>7 DEF s, t

\* Memory::print(): the title and two lines, or one.
LEMMA MemoryRows ==
    ASSUME size \in Sizes, data \in Data, ~Small(size)
    PROVE  MemoryLines \in Seq(Rows(Spare)) /\ Len(MemoryLines) <= 3
<1>1. size.w \in Nat /\ size.w >= 96
    BY SizeType DEF Small, MinWidth
<1> DEFINE x == InverseLn(64)
<1>2. x \in Rows(Spare)
  <2>1. 64 \in Nat /\ 64 < size.w
      BY <1>1
  <2> QED
      BY <2>1, RowTitle, RowsWeaken
<1> DEFINE k == 65 + data.over["memory"]
<1> DEFINE j == 44 + data.over["swap"]
<1> DEFINE p == <<Plain(k)>> \o Gauge(20, data.real)
<1> DEFINE y == Ln(p)
<1>3. /\ k \in Nat /\ k + 22 \in Nat /\ (Spare => k + 22 < size.w)
      /\ j \in Nat /\ (Spare => j < size.w)
  <2> DEFINE a == data.over["memory"]
  <2> DEFINE b == data.over["swap"]
  <2>1. a \in Nat /\ b \in Nat
      BY DataTypes DEF Field
  <2>2. Spare => a <= size.w - 88 /\ b <= size.w - 45
      BY DEF Spare
  <2> HIDE DEF a, b
  <2>3. /\ 65 + a \in Nat /\ 65 + a + 22 \in Nat /\ (Spare => 65 + a + 22 < size.w)
        /\ 44 + b \in Nat /\ (Spare => 44 + b < size.w)
      BY <1>1, <2>1, <2>2
  <2> QED
      BY <2>3 DEF a, b
<1> HIDE DEF k, j
<1>4. p \in Parts(k + 22)
  <2>1. <<Plain(k)>> \in Parts(k) /\ Gauge(20, data.real) \in Parts(22)
      BY <1>3, PartsPlain, PartsGauge, DataTypes
  <2> QED
      BY <1>3, <2>1, PartsConcat
<1> HIDE DEF p
<1>5. y \in Rows(Spare)
    BY <1>3, <1>4, RowOfParts
<1> DEFINE z == Ln(<<Plain(j)>>)
<1>6. z \in Rows(Spare)
  <2>1. <<Plain(j)>> \in Parts(j)
      BY <1>3, PartsPlain
  <2> QED
      BY <1>3, <2>1, RowOfParts
<1>7. MemoryLines = <<x, y>> \o (IF "m" \in opts.condensed THEN <<>> ELSE <<z>>)
    BY DEF MemoryLines, p, k, j
<1> HIDE DEF x, y, z
<1> DEFINE s == <<x, y>>
<1> DEFINE t == IF "m" \in opts.condensed THEN <<>> ELSE <<z>>
<1>8. s \in Seq(Rows(Spare)) /\ Len(s) = 2
    BY <1>2, <1>5
<1>9. t \in Seq(Rows(Spare)) /\ Len(t) \in 0..1
    BY <1>6
<1> HIDE DEF s, t
<1>10. s \o t \in Seq(Rows(Spare)) /\ Len(s \o t) = Len(s) + Len(t)
    BY <1>8, <1>9, RowsConcat
<1>11. Len(s \o t) <= 3
  <2> DEFINE m == Len(s \o t)
  <2> DEFINE n == Len(t)
  <2>1. m = 2 + n /\ n \in 0..1
      BY <1>8, <1>9, <1>10
  <2> HIDE DEF m, n
  <2>2. m <= 3
      BY <2>1
  <2> QED
      BY <2>2 DEF m
<1> QED
    BY <1>7, <1>10, <1>11 DEF s, t

\* The other sections: the title and its lines, or the title alone.
LEMMA TitleAndLinesRows ==
    ASSUME size \in Sizes, NEW fits, NEW title \in Nat, title < size.w, NEW key,
           NEW cells \in Nat, NEW beyond \in Seq(Nat),
           fits => \A i \in 1..Len(beyond) : cells + beyond[i] < size.w
    PROVE  LET lines == TitleAndLines(title, key, cells, beyond) IN
           lines \in Seq(Rows(fits)) /\ Len(lines) \in Nat /\ Len(lines) <= 1 + Len(beyond)
<1> DEFINE n == Len(beyond)
<1> DEFINE s == <<InverseLn(title)>>
<1> DEFINE u == [i \in 1..n |-> Ln(<<Plain(cells + beyond[i])>>)]
<1> DEFINE t == IF key \in opts.condensed THEN <<>> ELSE u
<1>1. TitleAndLines(title, key, cells, beyond) = s \o t
    BY DEF TitleAndLines
<1>2. InverseLn(title) \in Rows(fits)
    BY RowTitle, RowsWeaken
<1>3. n \in Nat /\ \A i \in 1..n : beyond[i] \in Nat
    OBVIOUS
<1>4. ASSUME NEW i \in 1..n PROVE Ln(<<Plain(cells + beyond[i])>>) \in Rows(fits)
  <2> DEFINE k == cells + beyond[i]
  <2>1. k \in Nat /\ (fits => k < size.w)
      BY <1>3
  <2> HIDE DEF k
  <2>2. <<Plain(k)>> \in Parts(k)
      BY <2>1, PartsPlain
  <2>3. Ln(<<Plain(k)>>) \in Rows(fits)
      BY <2>1, <2>2, RowOfParts
  <2> QED
      BY <2>3 DEF k
<1>5. s \in Seq(Rows(fits)) /\ Len(s) = 1
    BY <1>2, RowsSingle
<1>6. u \in Seq(Rows(fits)) /\ Len(u) = n
    BY <1>3, <1>4
<1> HIDE DEF s, u, n
<1>7. t \in Seq(Rows(fits)) /\ Len(t) \in 0..n
    BY <1>3, <1>6
<1> HIDE DEF t
<1>8. s \o t \in Seq(Rows(fits)) /\ Len(s \o t) = Len(s) + Len(t)
    BY <1>5, <1>7, RowsConcat
<1>9. Len(s \o t) \in Nat /\ Len(s \o t) <= 1 + n
    BY <1>3, <1>5, <1>7, <1>8
<1> QED
    BY <1>1, <1>8, <1>9 DEF n

-----------------------------------------------------------------------------
(* The invariant.                                                          *)

Printing == {"platform", "cpu", "memory", "virtual", "disk", "network", "processes"}

\* The number of rows that the sections above may have taken, all of them open.
RowsBefore(section) ==
    LET blank == IF CondenseMain THEN 0 ELSE 1
        cores == IF opts.cpu THEN 0 ELSE Cores
    IN  CASE section = "platform"  -> 0
          [] section = "cpu"       -> 3 + blank
          [] section = "memory"    -> 5 + cores + 2 * blank
          [] section = "virtual"   -> 8 + cores + 3 * blank
          [] section = "disk"      -> 11 + cores + 4 * blank
          [] section = "network"   -> 12 + cores + Drives + 5 * blank
          [] section = "processes" -> 13 + cores + Drives + Interfaces + 6 * blank

\* A refresh goes on where a line begins, with no attribute on, in a window of
\* the minimum size at least, and the cores are shown only from 40 lines on.
Placed ==
    /\ ~Small(size) /\ Ready(win)
    /\ opts.cpu <=> opts.cpuState \/ size.h < 40

\* While no line was too long, the section to be drawn begins where it should.
Room == win.wrapped \/ (~win.stuck /\ ~win.spoiled /\ win.row <= RowsBefore(pc))

\* The properties of a drawn refresh say nothing in the middle of one; Placed and
\* Room are what they rest on there.
ScreenInv ==
    /\ TypeOK
    /\ win.looks = {} /\ NothingBleeds /\ NothingWraps
    /\ pc \in Printing \cup {"help"} => Placed
    /\ pc \in Printing => Room
    /\ RoomForProcesses /\ ListFillsWindow

LEMMA OptionTypes ==
    ASSUME opts \in Options
    PROVE  /\ opts.main \in BOOLEAN /\ opts.cpu \in BOOLEAN /\ opts.cpuState \in BOOLEAN
           /\ opts.condensed \subseteq Section /\ CondenseMain \in BOOLEAN
BY DEF Options, CondenseMain

\* The thresholds of loop() leave the process list its title, a line and the
\* number of processes.
LEMMA RoomLeft ==
    ASSUME size \in Sizes, opts \in Options, ~Small(size),
           opts.cpu <=> opts.cpuState \/ size.h < 40, NEW section \in Printing
    PROVE  RowsBefore(section) \in Nat /\ RowsBefore(section) + 3 <= size.h
<1> DEFINE blank == IF CondenseMain THEN 0 ELSE 1
<1> DEFINE cores == IF opts.cpu THEN 0 ELSE Cores
<1>1. size.h \in Nat /\ size.h >= 30
    BY SizeType DEF Small, MinHeight
<1>2. /\ Cores \in Nat /\ Drives \in Nat /\ Interfaces \in Nat
      /\ Drives + Interfaces <= 13 /\ Cores + Drives + Interfaces <= 23
    BY RoomAssumption
<1>3. blank \in 0..1 /\ cores \in Nat /\ cores <= Cores
    BY <1>2
<1>4. size.h < 35 => blank = 0 /\ cores = 0
    BY <1>1 DEF CondenseMain
<1>5. size.h < 40 => cores = 0
    BY <1>1
<1>6. size.h >= 40 /\ size.h < 45 => blank = 0
    BY <1>1 DEF CondenseMain
<1> DEFINE most == 13 + cores + Drives + Interfaces + 6 * blank
<1>7. RowsBefore(section) \in Nat /\ RowsBefore(section) <= most
  <2>1. RowsBefore(section) =
          CASE section = "platform"  -> 0
            [] section = "cpu"       -> 3 + blank
            [] section = "memory"    -> 5 + cores + 2 * blank
            [] section = "virtual"   -> 8 + cores + 3 * blank
            [] section = "disk"      -> 11 + cores + 4 * blank
            [] section = "network"   -> 12 + cores + Drives + 5 * blank
            [] section = "processes" -> 13 + cores + Drives + Interfaces + 6 * blank
      BY DEF RowsBefore
  <2> HIDE DEF blank, cores
  <2> QED
      BY <1>2, <1>3, <2>1 DEF Printing
<1> HIDE DEF blank, cores
<1>8. most + 3 <= size.h
    BY <1>1, <1>2, <1>3, <1>4, <1>5, <1>6
<1> HIDE DEF most
<1>9. most \in Int
    BY <1>2, <1>3 DEF most
<1> QED
    BY <1>1, <1>7, <1>8, <1>9

LEMMA ClearedFields ==
    ASSUME NEW s \in Sizes
    PROVE  LET c == Cleared(s) IN
           /\ c \in Window(s) /\ c.row = 0 /\ c.col = 0 /\ c.looks = {}
           /\ ~c.stuck /\ ~c.spoiled /\ ~c.wrapped /\ ~c.bleeds
<1>1. s.w \in Nat /\ s.w > 0 /\ s.h \in Nat /\ s.h > 0
    BY SizeAssumption
<1>2. 0 \in 0..(s.h - 1) /\ 0 \in 0..(s.w - 1)
    BY <1>1
<1>3. [r \in 0..(s.h - 1) |-> "blank"] \in [0..(s.h - 1) -> Line]
    BY DEF Line
<1> QED
    BY <1>2, <1>3 DEF Cleared, Window

\* The program begins with an empty window.
THEOREM InitInv == Init => ScreenInv
<1> SUFFICES ASSUME Init PROVE ScreenInv
    OBVIOUS
<1>1. pc = "loop" /\ size \in Sizes /\ data \in Data /\ win = Cleared(size) /\ shown = 0
    BY DEF Init
<1>2. opts \in Options
    BY DEF Init, Options
<1>3. win \in Window(size) /\ win.looks = {} /\ ~win.wrapped /\ ~win.bleeds
    BY <1>1, ClearedFields
<1>4. TypeOK
    BY <1>1, <1>2, <1>3 DEF TypeOK
<1> QED
    BY <1>1, <1>3, <1>4 DEF ScreenInv, NothingBleeds, NothingWraps, Printing, Drawn,
       RoomForProcesses, ListFillsWindow

\* Between two refreshes there is less to show.
LEMMA Elsewhere ==
    ASSUME TypeOK', win'.looks = {}, ~win'.bleeds, NothingWraps',
           pc' \in {"loop", "wait", "crashed"}
    PROVE  ScreenInv'
BY DEF ScreenInv, NothingBleeds, Printing, Drawn, RoomForProcesses, ListFillsWindow

LEMMA UpdateStep == ScreenInv /\ Update => ScreenInv'
<1> SUFFICES ASSUME ScreenInv, Update PROVE ScreenInv'
    OBVIOUS
<1> DEFINE lines == [r \in DOMAIN win.lines |-> IF win.lines[r] = "blank" THEN "blank" ELSE "old"]
<1>1. /\ size \in Sizes /\ opts \in Options /\ win \in Window(size)
      /\ ~Small(size) /\ data' \in Data /\ size' = size /\ shown' = 0 /\ pc' = "platform"
      /\ opts' = [opts EXCEPT !.cpu = opts.cpuState \/ size.h < 40]
      /\ win' = [Cleared(size) EXCEPT !.lines = lines]
    BY DEF ScreenInv, TypeOK, Update
<1>2. lines \in [0..(size.h - 1) -> Line]
    BY <1>1 DEF Window, Line
<1> HIDE DEF lines
<1> DEFINE c == Cleared(size)
<1>3. /\ c \in Window(size) /\ c.row = 0 /\ c.col = 0 /\ c.looks = {}
      /\ ~c.stuck /\ ~c.spoiled /\ ~c.wrapped /\ ~c.bleeds
    BY <1>1, ClearedFields
<1>4. win' = [c EXCEPT !.lines = lines]
    BY <1>1
<1> HIDE DEF c
<1>5. /\ win' \in Window(size) /\ win'.row = 0 /\ win'.col = 0 /\ win'.looks = {}
      /\ ~win'.stuck /\ ~win'.spoiled /\ ~win'.wrapped /\ ~win'.bleeds
  <2>1. win' \in Window(size)
      BY <1>2, <1>3, <1>4 DEF Window
  <2> QED
      BY <1>3, <1>4, <2>1 DEF Window
<1>6. opts' \in Options /\ (opts'.cpu <=> opts'.cpuState \/ size.h < 40)
  <2> DEFINE b == opts.cpuState \/ size.h < 40
  <2>1. opts' = [opts EXCEPT !.cpu = b] /\ b \in BOOLEAN
      BY <1>1
  <2>2. opts' \in Options /\ opts'.cpu = b /\ opts'.cpuState = opts.cpuState
    <3> HIDE DEF b
    <3> QED
        BY <1>1, <2>1 DEF Options
  <2> QED
      BY <2>2
<1>7. TypeOK'
    BY <1>1, <1>5, <1>6 DEF TypeOK
<1>8. Ready(win)'
    BY <1>1, <1>5 DEF Ready, Good
<1>9. Placed'
    BY <1>1, <1>6, <1>8 DEF Placed
<1>10. Room'
  <2>1. RowsBefore(pc)' = 0
      BY <1>1 DEF RowsBefore
  <2> QED
      BY <1>5, <2>1 DEF Room
<1> QED
    BY <1>1, <1>5, <1>7, <1>9, <1>10 DEF ScreenInv, NothingBleeds, NothingWraps, Drawn,
       RoomForProcesses, ListFillsWindow

\* A section that takes no more rows than RowsBefore has for it.
LEMMA SectionStep ==
    ASSUME ScreenInv, NEW from \in Printing, NEW to \in Printing, pc = from, pc' = to,
           NEW lines \in Seq(Rows(Spare)),
           win' = DrawLines(win, lines \o Blank(CondenseMain)),
           UNCHANGED <<size, opts, data, shown>>,
           RowsBefore(from) + Len(lines) + (IF CondenseMain THEN 0 ELSE 1) <= RowsBefore(to)
    PROVE  ScreenInv'
<1> DEFINE b == Blank(CondenseMain)
<1> DEFINE n == Len(lines \o b)
<1>1. /\ size \in Sizes /\ opts \in Options /\ data \in Data /\ win \in Window(size)
      /\ shown \in Nat /\ Placed /\ Room /\ NothingWraps /\ ~win.bleeds
    BY DEF ScreenInv, TypeOK, NothingBleeds
<1>2. ~Small(size) /\ Ready(win) /\ (opts.cpu <=> opts.cpuState \/ size.h < 40)
    BY <1>1 DEF Placed
<1>3. size.w \in Nat /\ size.w > 1 /\ size.h \in Nat
    BY <1>1, <1>2, SizeType DEF Small, MinWidth
<1>4. /\ lines \o b \in Seq(Rows(Spare)) /\ n \in Nat
      /\ RowsBefore(from) + n <= RowsBefore(to)
  <2>1. b \in Seq(Rows(Spare)) /\ Len(b) = IF CondenseMain THEN 0 ELSE 1
      BY <1>1, OptionTypes, RowsBlank
  <2> HIDE DEF b
  <2>2. lines \o b \in Seq(Rows(Spare)) /\ n = Len(lines) + Len(b)
      BY <2>1, RowsConcat
  <2>3. Len(lines) \in Nat /\ RowsBefore(from) \in Nat
      BY <1>1, <1>2, RoomLeft
  <2> HIDE DEF n
  <2> QED
      BY <2>1, <2>2, <2>3
<1>5. After(Spare, n, win, win')
  <2> DEFINE all == lines \o b
  <2>1. all \in Seq(Rows(Spare)) /\ win' = DrawLines(win, all)
      BY <1>4
  <2> HIDE DEF all
  <2>2. After(Spare, Len(all), win, win')
      BY <1>1, <1>2, <1>3, <2>1, SectionDraws
  <2> QED
      BY <2>2 DEF all
<1> HIDE DEF n, b
<1>6. /\ RowsBefore(from) \in Nat /\ RowsBefore(to) \in Nat /\ RowsBefore(to) + 3 <= size.h
    BY <1>1, <1>2, RoomLeft
<1>7. Ready(win') /\ win' \in Window(size)
    BY <1>5 DEF After, Ready, Good
<1>8. win'.looks = {} /\ ~win'.bleeds
    BY <1>1, <1>5 DEF After, Ready
<1>9. win.row \in Nat /\ win'.row \in Nat
    BY <1>1, <1>7, WindowTypes
<1>10. win'.wrapped \/ (~win'.stuck /\ ~win'.spoiled /\ win'.row <= RowsBefore(to))
  <2>1. CASE win.wrapped
      BY <1>5, <2>1 DEF After
  <2>2. CASE ~win.stuck /\ ~win.spoiled /\ win.row <= RowsBefore(from)
    <3>1. win.row + n <= RowsBefore(to) /\ win.row + n <= size.h - 1
        BY <1>3, <1>4, <1>6, <1>9, <2>2, SMTT(20)
    <3>2. win'.wrapped \/ (~win'.stuck /\ win'.row = win.row + n /\ (win'.spoiled <=> win.spoiled))
        BY <1>5, <2>2, <3>1 DEF After
    <3> QED
        BY <2>2, <3>1, <3>2
  <2> QED
      BY <1>1, <2>1, <2>2 DEF Room
<1>11. size' = size /\ opts' = opts /\ data' = data /\ shown' = shown
    OBVIOUS
<1>12. Room'
  <2>1. RowsBefore(to)' = RowsBefore(to)
      BY <1>11 DEF RowsBefore, CondenseMain
  <2>2. RowsBefore(pc)' = RowsBefore(to)
      BY <1>11 DEF RowsBefore, CondenseMain
  <2> QED
      BY <1>10, <2>2 DEF Room
<1>13. NothingWraps'
  <2>1. Spare => (win'.wrapped <=> win.wrapped)
      BY <1>5 DEF After
  <2>2. pc # "loop"
      BY DEF Printing
  <2> QED
      BY <1>1, <1>11, <2>1, <2>2 DEF NothingWraps, Spare, Listed, NetworkWidth
<1>14. Placed'
    BY <1>2, <1>7, <1>11 DEF Placed, Ready, Good
<1>15. TypeOK'
    BY <1>1, <1>7, <1>11 DEF TypeOK, Printing
<1>16. pc' # "help"
    BY DEF Printing
<1> QED
    BY <1>8, <1>12, <1>13, <1>14, <1>15, <1>16 DEF ScreenInv, NothingBleeds, Drawn,
       RoomForProcesses, ListFillsWindow

\* What every print() may rely on.
LEMMA PlacedFacts ==
    ASSUME ScreenInv, pc \in Printing \cup {"help"}
    PROVE  /\ size \in Sizes /\ opts \in Options /\ data \in Data /\ win \in Window(size)
           /\ ~Small(size) /\ size.w \in Nat /\ size.w >= 96 /\ size.h \in Nat /\ size.h >= 30
           /\ Ready(win) /\ ~win.bleeds
           /\ opts.cpu <=> opts.cpuState \/ size.h < 40
<1>1. size \in Sizes /\ Placed
    BY DEF ScreenInv, TypeOK
<1>2. ~Small(size) /\ size.w \in Nat /\ size.h \in Nat
    BY <1>1, SizeType DEF Placed
<1> QED
    BY <1>1, <1>2 DEF ScreenInv, TypeOK, Placed, NothingBleeds, Small, MinWidth, MinHeight

LEMMA HeadStep == ScreenInv /\ HeadOverruns => ScreenInv'
<1> SUFFICES ASSUME ScreenInv, HeadOverruns PROVE ScreenInv'
    OBVIOUS
<1>1. /\ pc = "platform" /\ pc' = "crashed" /\ size' = size /\ opts' = opts /\ data' = data
      /\ win' = win /\ shown' = shown
    BY DEF HeadOverruns
<1>2. TypeOK /\ win.looks = {} /\ ~win.bleeds /\ NothingWraps
    BY DEF ScreenInv, NothingBleeds
<1>3. TypeOK'
    BY <1>1, <1>2 DEF TypeOK
<1>4. NothingWraps'
    BY <1>1, <1>2 DEF NothingWraps, Spare, Listed, NetworkWidth
<1> QED
    BY <1>1, <1>2, <1>3, <1>4, Elsewhere

\* The rows each section may take.
LEMMA RowsTaken ==
    ASSUME size \in Sizes, opts \in Options
    PROVE  LET blank == IF CondenseMain THEN 0 ELSE 1
               cores == IF opts.cpu THEN 0 ELSE Cores
           IN  /\ RowsBefore("memory") = RowsBefore("cpu") + 2 + cores + blank
               /\ RowsBefore("virtual") = RowsBefore("memory") + 3 + blank
               /\ RowsBefore("disk") = RowsBefore("virtual") + 3 + blank
               /\ RowsBefore("network") = RowsBefore("disk") + 1 + Drives + blank
               /\ RowsBefore("processes") = RowsBefore("network") + 1 + Interfaces + blank
<1> DEFINE blank == IF CondenseMain THEN 0 ELSE 1
<1> DEFINE cores == IF opts.cpu THEN 0 ELSE Cores
<1>1. blank \in Nat /\ cores \in Nat /\ Drives \in Nat /\ Interfaces \in Nat
    BY RoomAssumption
<1>2. /\ RowsBefore("cpu") = 3 + blank
      /\ RowsBefore("memory") = 5 + cores + 2 * blank
      /\ RowsBefore("virtual") = 8 + cores + 3 * blank
      /\ RowsBefore("disk") = 11 + cores + 4 * blank
      /\ RowsBefore("network") = 12 + cores + Drives + 5 * blank
      /\ RowsBefore("processes") = 13 + cores + Drives + Interfaces + 6 * blank
    BY DEF RowsBefore
<1> HIDE DEF blank, cores
<1>3. /\ RowsBefore("memory") = RowsBefore("cpu") + 2 + cores + blank
      /\ RowsBefore("virtual") = RowsBefore("memory") + 3 + blank
      /\ RowsBefore("disk") = RowsBefore("virtual") + 3 + blank
      /\ RowsBefore("network") = RowsBefore("disk") + 1 + Drives + blank
      /\ RowsBefore("processes") = RowsBefore("network") + 1 + Interfaces + blank
    BY <1>1, <1>2
<1> QED
    BY <1>3 DEF blank, cores

\* Draws, of a section of at most n lines, where RowsBefore has room for n.
LEMMA DrawsStep ==
    ASSUME ScreenInv, NEW from \in Printing, NEW to \in Printing, NEW lines,
           Draws(from, to, lines), lines \in Seq(Rows(Spare)), NEW n \in Nat, Len(lines) <= n,
           RowsBefore(to) = RowsBefore(from) + n + (IF CondenseMain THEN 0 ELSE 1)
    PROVE  ScreenInv'
<1> DEFINE blank == IF CondenseMain THEN 0 ELSE 1
<1>1. /\ pc = from /\ pc' = to /\ win' = DrawLines(win, lines \o Blank(CondenseMain))
      /\ UNCHANGED <<size, opts, data, shown>>
    BY DEF Draws
<1>2. RowsBefore(from) \in Nat
    BY <1>1, PlacedFacts, RoomLeft
<1>3. Len(lines) \in Nat /\ blank \in Nat
    OBVIOUS
<1> HIDE DEF blank
<1>4. RowsBefore(from) + Len(lines) + blank <= RowsBefore(to)
  <2>1. RowsBefore(to) = RowsBefore(from) + n + blank
      BY DEF blank
  <2> QED
      BY <1>2, <1>3, <2>1
<1>5. RowsBefore(from) + Len(lines) + (IF CondenseMain THEN 0 ELSE 1) <= RowsBefore(to)
    BY <1>4 DEF blank
<1> QED
    BY <1>1, <1>5, SectionStep

LEMMA PlatformStep == ScreenInv /\ PrintPlatform => ScreenInv'
<1> SUFFICES ASSUME ScreenInv, PrintPlatform PROVE ScreenInv'
    OBVIOUS
<1>1. Draws("platform", "cpu", PlatformLines) /\ HeadFill >= 0
    BY DEF PrintPlatform
<1>2. "platform" \in Printing /\ "cpu" \in Printing
    BY DEF Printing
<1>3. pc \in Printing
    BY <1>1, <1>2 DEF Draws
<1>4. size \in Sizes /\ opts \in Options /\ data \in Data /\ ~Small(size)
    BY <1>3, PlacedFacts
<1>5. PlatformLines \in Seq(Rows(Spare)) /\ Len(PlatformLines) <= 3
  <2>1. PlatformLines \in Seq(Rows(Spare)) /\ Len(PlatformLines) = 3
      BY <1>1, <1>4, PlatformRows
  <2> QED
      BY <2>1
<1>6. RowsBefore("cpu") = RowsBefore("platform") + 3 + (IF CondenseMain THEN 0 ELSE 1)
    BY <1>4, OptionTypes DEF RowsBefore
<1> QED
    BY <1>1, <1>2, <1>5, <1>6, DrawsStep

LEMMA CPUStep == ScreenInv /\ PrintCPU => ScreenInv'
<1> SUFFICES ASSUME ScreenInv, PrintCPU PROVE ScreenInv'
    OBVIOUS
<1> DEFINE n == IF opts.cpu THEN 1 ELSE 1 + Cores
<1> DEFINE lines == <<InverseLn(81)>> \o Times(n, CPULine(data.use))
<1>1. Draws("cpu", "memory", lines)
    BY DEF PrintCPU
<1>2. "cpu" \in Printing /\ "memory" \in Printing
    BY DEF Printing
<1>3. pc \in Printing
    BY <1>1, <1>2 DEF Draws
<1>4. size \in Sizes /\ opts \in Options /\ data \in Data /\ ~Small(size)
    BY <1>3, PlacedFacts
<1>5. n \in Nat /\ 1 + n = 2 + (IF opts.cpu THEN 0 ELSE Cores)
    BY RoomAssumption
<1> HIDE DEF n
<1>6. lines \in Seq(Rows(Spare)) /\ Len(lines) = 1 + n
    BY <1>4, <1>5, CPURows
<1> HIDE DEF lines
<1>7. RowsBefore("memory") = RowsBefore("cpu") + (1 + n) + (IF CondenseMain THEN 0 ELSE 1)
  <2>1. RowsBefore("memory") = RowsBefore("cpu") + 2 + (IF opts.cpu THEN 0 ELSE Cores)
                               + (IF CondenseMain THEN 0 ELSE 1)
      BY <1>4, RowsTaken
  <2>2. RowsBefore("cpu") \in Nat
      BY <1>2, <1>3, <1>4, PlacedFacts, RoomLeft
  <2> DEFINE k == IF opts.cpu THEN 0 ELSE Cores
  <2>3. k \in Nat
      BY RoomAssumption
  <2> QED
      BY <1>5, <2>1, <2>2, <2>3
<1>8. 1 + n \in Nat /\ Len(lines) <= 1 + n
    BY <1>5, <1>6
<1> QED
    BY <1>1, <1>2, <1>6, <1>7, <1>8, DrawsStep

LEMMA MemoryStep == ScreenInv /\ PrintMemory => ScreenInv'
<1> SUFFICES ASSUME ScreenInv, PrintMemory PROVE ScreenInv'
    OBVIOUS
<1>1. Draws("memory", "virtual", MemoryLines)
    BY DEF PrintMemory
<1>2. "memory" \in Printing /\ "virtual" \in Printing
    BY DEF Printing
<1>3. pc \in Printing
    BY <1>1, <1>2 DEF Draws
<1>4. size \in Sizes /\ opts \in Options /\ data \in Data /\ ~Small(size)
    BY <1>3, PlacedFacts
<1>5. MemoryLines \in Seq(Rows(Spare)) /\ Len(MemoryLines) <= 3
    BY <1>4, MemoryRows
<1>6. RowsBefore("virtual") = RowsBefore("memory") + 3 + (IF CondenseMain THEN 0 ELSE 1)
    BY <1>4, RowsTaken
<1> QED
    BY <1>1, <1>2, <1>5, <1>6, DrawsStep

\* A section of a title and a line for each element of beyond.
LEMMA TitledStep ==
    ASSUME ScreenInv, NEW from \in Printing, NEW to \in Printing,
           NEW title \in Nat, title < size.w, NEW key, NEW cells \in Nat,
           NEW beyond \in Seq(Nat),
           Spare => \A i \in 1..Len(beyond) : cells + beyond[i] < size.w,
           Draws(from, to, TitleAndLines(title, key, cells, beyond)),
           NEW most \in Nat, Len(beyond) <= most,
           RowsBefore(to) = RowsBefore(from) + 1 + most + (IF CondenseMain THEN 0 ELSE 1)
    PROVE  ScreenInv'
<1>1. pc = from
    BY DEF Draws
<1>2. size \in Sizes /\ RowsBefore(from) \in Nat
    BY <1>1, PlacedFacts, RoomLeft
<1> DEFINE lines == TitleAndLines(title, key, cells, beyond)
<1>3. lines \in Seq(Rows(Spare)) /\ Len(lines) \in Nat /\ Len(lines) <= 1 + Len(beyond)
    BY <1>2, TitleAndLinesRows
<1>4. Draws(from, to, lines)
    OBVIOUS
<1> HIDE DEF lines
<1> DEFINE blank == IF CondenseMain THEN 0 ELSE 1
<1>5. Len(lines) <= 1 + most /\ 1 + most \in Nat
  <2>1. Len(beyond) \in Nat
      OBVIOUS
  <2> QED
      BY <1>3, <2>1
<1>6. RowsBefore(to) = RowsBefore(from) + (1 + most) + blank
  <2>1. blank \in Nat /\ RowsBefore(to) = RowsBefore(from) + 1 + most + blank
      OBVIOUS
  <2> HIDE DEF blank
  <2> QED
      BY <1>2, <2>1
<1> QED
    BY <1>3, <1>4, <1>5, <1>6, DrawsStep

LEMMA VirtualStep == ScreenInv /\ PrintVirtualMemory => ScreenInv'
<1> SUFFICES ASSUME ScreenInv, PrintVirtualMemory PROVE ScreenInv'
    OBVIOUS
<1> DEFINE k == data.over["virtual"]
<1> DEFINE beyond == Times(2, k)
<1>1. Draws("virtual", "disk", TitleAndLines(61, "v", 60, beyond))
    BY DEF PrintVirtualMemory
<1>2. "virtual" \in Printing /\ "disk" \in Printing
    BY DEF Printing
<1>3. size \in Sizes /\ opts \in Options /\ data \in Data /\ size.w \in Nat /\ size.w >= 96
    BY <1>1, <1>2, PlacedFacts DEF Draws
<1>4. k \in Nat /\ (Spare => 60 + k < size.w)
  <2>1. k \in Nat
      BY <1>3, DataTypes DEF Field
  <2> QED
      BY <1>3, <2>1 DEF Spare
<1> HIDE DEF k
<1>5. beyond \in Seq(Nat) /\ Len(beyond) = 2 /\ \A i \in 1..Len(beyond) : beyond[i] = k
    BY <1>4 DEF Times
<1> HIDE DEF beyond
<1>6. Spare => \A i \in 1..Len(beyond) : 60 + beyond[i] < size.w
    BY <1>4, <1>5
<1>7. RowsBefore("disk") = RowsBefore("virtual") + 1 + 2 + (IF CondenseMain THEN 0 ELSE 1)
  <2>1. RowsBefore("disk") = RowsBefore("virtual") + 3 + (IF CondenseMain THEN 0 ELSE 1)
      BY <1>3, RowsTaken
  <2>2. RowsBefore("virtual") \in Nat
      BY <1>1, <1>2, PlacedFacts, RoomLeft DEF Draws
  <2> QED
      BY <2>1, <2>2
<1>8. 61 \in Nat /\ 61 < size.w /\ 60 \in Nat /\ 2 \in Nat /\ Len(beyond) <= 2
    BY <1>3, <1>5
<1> QED
    BY <1>1, <1>2, <1>5, <1>6, <1>7, <1>8, TitledStep

LEMMA DiskStep == ScreenInv /\ PrintDisk => ScreenInv'
<1> SUFFICES ASSUME ScreenInv, PrintDisk PROVE ScreenInv'
    OBVIOUS
<1> DEFINE beyond == data.drives
<1>1. Draws("disk", "network", TitleAndLines(88, "d", 88, beyond))
    BY DEF PrintDisk
<1>2. "disk" \in Printing /\ "network" \in Printing /\ Drives \in Nat
    BY RoomAssumption DEF Printing
<1>3. size \in Sizes /\ opts \in Options /\ data \in Data /\ size.w \in Nat /\ size.w >= 96
    BY <1>1, <1>2, PlacedFacts DEF Draws
<1>4. beyond \in Seq(Nat) /\ Len(beyond) = Drives
    BY <1>3, DataTypes
<1>5. Spare => \A i \in 1..Len(beyond) : 88 + beyond[i] < size.w
  <2>1. Spare => \A i \in 1..Drives : beyond[i] <= size.w - 89
      BY DEF Spare
  <2> HIDE DEF beyond
  <2> QED
      BY <1>3, <1>4, <2>1
<1> HIDE DEF beyond
<1>6. RowsBefore("network") = RowsBefore("disk") + 1 + Drives + (IF CondenseMain THEN 0 ELSE 1)
    BY <1>3, RowsTaken
<1>7. 88 \in Nat /\ 88 < size.w /\ Len(beyond) <= Drives
    BY <1>2, <1>3, <1>4
<1> QED
    BY <1>1, <1>2, <1>4, <1>5, <1>6, <1>7, TitledStep

LEMMA NetworkStep == ScreenInv /\ PrintNetwork => ScreenInv'
<1> SUFFICES ASSUME ScreenInv, PrintNetwork PROVE ScreenInv'
    OBVIOUS
<1> DEFINE beyond == data.interfaces
<1>1. Draws("network", "processes", TitleAndLines(NetworkWidth, "n", NetworkWidth, beyond))
    BY DEF PrintNetwork
<1>2. "network" \in Printing /\ "processes" \in Printing /\ Interfaces \in Nat
    BY RoomAssumption DEF Printing
<1>3. size \in Sizes /\ opts \in Options /\ data \in Data /\ size.w \in Nat /\ size.w >= 96
    BY <1>1, <1>2, PlacedFacts DEF Draws
<1>4. beyond \in Seq(Nat) /\ Len(beyond) <= Interfaces
    BY <1>3, DataTypes
<1>5. NetworkWidth \in Nat /\ NetworkWidth < size.w
    BY <1>3 DEF NetworkWidth
<1>6. Spare => \A i \in 1..Len(beyond) : NetworkWidth + beyond[i] < size.w
  <2>1. Spare => \A i \in 1..Len(beyond) : beyond[i] < size.w - NetworkWidth
      BY DEF Spare
  <2> HIDE DEF beyond
  <2> QED
      BY <1>3, <1>4, <1>5, <2>1
<1> HIDE DEF beyond
<1>7. RowsBefore("processes")
        = RowsBefore("network") + 1 + Interfaces + (IF CondenseMain THEN 0 ELSE 1)
    BY <1>3, RowsTaken
<1> QED
    BY <1>1, <1>2, <1>3, <1>4, <1>5, <1>6, <1>7, TitledStep

-----------------------------------------------------------------------------
(* The process list.                                                       *)

LEMMA ProcessLinesFacts ==
    ASSUME data \in Data, NEW room \in Int
    PROVE  LET n == ProcessLines(room) IN
           /\ n \in Nat
           /\ n <= Listed
           /\ room >= 0 => n <= room + 1
           /\ "p" \notin opts.condensed /\ n < Listed =>
                  IF room < 0 THEN n = 1 ELSE n = room + 1
<1>1. Listed \in Nat
    BY DataTypes DEF Listed
<1> QED
    BY <1>1 DEF ProcessLines, Fewer

LEMMA ProcessRows ==
    ASSUME size \in Sizes, data \in Data, size.w >= 96, NEW n \in Nat, n <= Listed
    PROVE  LET bold(i) == IF i = 1 THEN <<BoldOn, Styled(64 + data.processes[i])>>
                                   ELSE <<Plain(64 + data.processes[i])>>
               lines   == [i \in 1..n |-> Ln(bold(i)) \o <<BoldOff>>]
           IN  lines \in Seq(Rows(Spare)) /\ Len(lines) = n
<1> DEFINE bold(i) == IF i = 1 THEN <<BoldOn, Styled(64 + data.processes[i])>>
                               ELSE <<Plain(64 + data.processes[i])>>
<1> DEFINE line(i) == Ln(bold(i)) \o <<BoldOff>>
<1> DEFINE lines == [i \in 1..n |-> line(i)]
<1>1. ASSUME NEW i \in 1..n PROVE line(i) \in Rows(Spare)
  <2> DEFINE d == data.processes[i]
  <2> DEFINE k == 64 + d
  <2>1. Listed \in Nat /\ data.processes \in Seq(Nat) /\ size.w \in Nat
      BY DataTypes, SizeType DEF Listed
  <2>2. i \in 1..Listed
      BY <2>1
  <2>3. d \in Nat
      BY <2>1, <2>2 DEF Listed
  <2>4. Spare => \A p \in 1..Listed : data.processes[p] <= size.w - 65
      BY Zenon DEF Spare
  <2>5. Spare => d <= size.w - 65
      BY <2>2, <2>4, Zenon
  <2> HIDE DEF d
  <2>6. k \in Nat /\ (Spare => k < size.w)
      BY <2>1, <2>3, <2>5
  <2> HIDE DEF k
  <2>7. /\ Ln(<<BoldOn, Styled(k)>>) \o <<BoldOff>> \in Rows(Spare)
        /\ Ln(<<Plain(k)>>) \o <<BoldOff>> \in Rows(Spare)
      BY <2>6, RowBold
  <2>8. CASE i = 1
    <3>1. bold(i) = <<BoldOn, Styled(k)>>
        BY <2>8 DEF k, d
    <3> HIDE DEF bold
    <3> QED
        BY <2>7, <3>1
  <2>9. CASE i # 1
    <3>1. bold(i) = <<Plain(k)>>
        BY <2>9 DEF k, d
    <3> HIDE DEF bold
    <3> QED
        BY <2>7, <3>1
  <2> QED
      BY <2>8, <2>9
<1>2. lines \in Seq(Rows(Spare)) /\ Len(lines) = n
  <2> HIDE DEF line
  <2> QED
      BY <1>1
<1> QED
    BY <1>2

\* The number of processes is drawn in the last line if that is where the list
\* has ended, and not over it unless the cursor was stuck before.
LEMMA CountLine ==
    ASSUME size \in Sizes, size.w >= 96, NEW v, Ready(v)
    PROVE  LET r == DrawLine(v, Ln(<<Plain(17)>>)) IN
           /\ r \in Window(size)
           /\ ~v.stuck => (r.spoiled <=> v.spoiled)
           /\ v.row = size.h - 1 => Complete(r)
<1> DEFINE c == Plain(17)
<1> DEFINE u == PutText(v, c.cells, c.plain)
<1>1. v \in Window(size) /\ Good(v)
    BY DEF Ready, Good
<1>2. c \in Calls /\ Newline \in Calls /\ <<c>> \in Seq(Calls) /\ <<Newline>> \in Seq(Calls)
    BY DEF Plain, Calls, Still, Text
<1>3. c \in Text /\ c.cells \in Int /\ c.cells > 0 /\ c.plain \in BOOLEAN
    BY DEF Plain, Text
<1> HIDE DEF c
<1>31. Call(v, c) = u
    BY <1>3, CallKinds
<1>4. size.w > 1
    BY SizeType
<1>5. Keeps(v, u)
    BY <1>1, <1>3, <1>4, TextKeeps
<1>6. u.spoiled <=> v.spoiled \/ v.stuck
    BY <1>1, <1>3, TextFields
<1>7. v.row = size.h - 1 => u.col > 0
    BY <1>1, <1>3, <1>4, TextFields
<1> HIDE DEF u
<1>8. u \in Window(size) /\ Good(u)
    BY <1>5 DEF Keeps, Good
<1>9. DrawLine(v, Ln(<<c>>)) = PutNewline(u)
  <2>1. DrawLine(v, <<c>> \o <<Newline>>) = DrawLine(DrawLine(v, <<c>>), <<Newline>>)
      BY <1>1, <1>2, LineConcat
  <2>2. DrawLine(v, <<c>>) = u
      BY <1>1, <1>2, <1>31, LineOne
  <2>3. DrawLine(u, <<Newline>>) = Call(u, Newline)
      BY <1>2, <1>8, LineOne
  <2> QED
      BY <2>1, <2>2, <2>3, CallKinds DEF Ln
<1> DEFINE r == PutNewline(u)
<1>10. /\ r.spoiled = u.spoiled /\ Good(r)
       /\ u.row = size.h - 1 /\ u.col > 0 => Complete(r)
    BY <1>8, NewlineFields, NewlineGood
<1> HIDE DEF r
<1>11. v.row = size.h - 1 => Complete(r)
  <2>1. v.row = size.h - 1 => u.row = size.h - 1
    <3>1. v.row <= u.row /\ u.row < size.h /\ u.row \in Nat /\ size.h \in Nat
        BY <1>5, <1>8, WindowTypes DEF Keeps
    <3> QED
        BY <3>1
  <2> QED
      BY <1>7, <1>10, <2>1
<1>12. r \in Window(size) /\ (~v.stuck => (r.spoiled <=> v.spoiled))
    BY <1>6, <1>10 DEF Good
<1> QED
    BY <1>9, <1>11, <1>12 DEF r, c

\* A blank line draws nothing.
LEMMA BlankSpoilsNothing ==
    ASSUME size \in Sizes, NEW v \in Window(size), NEW condense \in BOOLEAN
    PROVE  DrawLines(v, Blank(condense)).spoiled = v.spoiled
<1> DEFINE none == <<>>
<1>1. Newline \in Calls /\ <<Newline>> \in Seq(Calls) /\ none \in Seq(Calls)
    BY DEF Calls
<1>2. DrawLine(v, none) = v
    BY <1>1, LineOne
<1>3. Ln(none) \in Seq(Calls) /\ DrawLine(v, Ln(none)) = PutNewline(v)
  <2> HIDE DEF none
  <2>1. DrawLine(v, none \o <<Newline>>) = DrawLine(DrawLine(v, none), <<Newline>>)
      BY <1>1, LineConcat
  <2>2. none \o <<Newline>> \in Seq(Calls)
      BY <1>1
  <2>3. DrawLine(v, <<Newline>>) = PutNewline(v)
      BY <1>1, LineOne, CallKinds
  <2> QED
      BY <1>2, <2>1, <2>2, <2>3 DEF Ln
<1>4. PutNewline(v).spoiled = v.spoiled
    BY NewlineFields
<1> DEFINE l == Ln(<<>>)
<1>5. l \in Seq(Calls) /\ DrawLine(v, l).spoiled = v.spoiled
    BY <1>3, <1>4
<1>6. Blank(condense) = IF condense THEN <<>> ELSE <<l>>
    BY DEF Blank
<1> HIDE DEF l
<1> QED
    BY <1>5, <1>6, SectionOne

\* ProcessList::print().
LEMMA ProcessesStep == ScreenInv /\ PrintProcesses => ScreenInv'
<1> SUFFICES ASSUME ScreenInv, PrintProcesses PROVE ScreenInv'
    OBVIOUS
<1> DEFINE titled == DrawLine(win, InverseLn(64))
<1> DEFINE room   == size.h - titled.row - 2
<1> DEFINE n      == ProcessLines(room)
<1> DEFINE bold(i) == IF i = 1 THEN <<BoldOn, Styled(64 + data.processes[i])>>
                               ELSE <<Plain(64 + data.processes[i])>>
<1> DEFINE list   == [i \in 1..n |-> Ln(bold(i)) \o <<BoldOff>>]
<1> DEFINE count  == << Ln(<<Plain(17)>>) >>
<1> DEFINE blank  == Blank(CondenseMain)
<1>1. /\ pc = "processes" /\ pc' = "help" /\ shown' = n
      /\ win' = DrawLines(titled, list \o count \o blank)
      /\ size' = size /\ opts' = opts /\ data' = data
    BY DEF PrintProcesses
<1>2. pc \in Printing
    BY <1>1 DEF Printing
<1>3. /\ size \in Sizes /\ opts \in Options /\ data \in Data /\ win \in Window(size)
      /\ ~Small(size) /\ size.w \in Nat /\ size.w >= 96 /\ size.h \in Nat /\ size.h >= 30
      /\ Ready(win) /\ ~win.bleeds
      /\ opts.cpu <=> opts.cpuState \/ size.h < 40
    BY <1>2, PlacedFacts
<1>4. size.w > 1
    BY <1>3
\* The title.
<1>5. After(Spare, 1, win, titled)
  <2>1. InverseLn(64) \in Rows(Spare)
    <3>1. 64 \in Nat /\ 64 < size.w
        BY <1>3
    <3> QED
        BY <1>3, <3>1, RowTitle, RowsWeaken
  <2> QED
      BY <1>3, <1>4, <2>1, RowDraws
<1> HIDE DEF titled
<1>6. Ready(titled) /\ titled \in Window(size)
    BY <1>5 DEF After, Ready, Good
<1>7. titled.row \in Nat /\ titled.row < size.h
    BY <1>3, <1>6, WindowTypes
<1>8. room \in Int
    BY <1>3, <1>7
<1>9. /\ n \in Nat
      /\ n <= Listed
      /\ room >= 0 => n <= room + 1
      /\ "p" \notin opts.condensed /\ n < Listed =>
             IF room < 0 THEN n = 1 ELSE n = room + 1
  <2> HIDE DEF room
  <2> QED
      BY <1>3, <1>8, ProcessLinesFacts
<1> HIDE DEF n
\* The processes.
<1>10. list \in Seq(Rows(Spare)) /\ Len(list) = n
    BY <1>3, <1>9, ProcessRows
<1> HIDE DEF list
<1> DEFINE v == DrawLines(titled, list)
<1>11. After(Spare, n, titled, v)
    BY <1>3, <1>4, <1>6, <1>10, SectionDraws
<1> DEFINE l == Ln(<<Plain(17)>>)
<1> DEFINE u == DrawLine(v, l)
<1> DEFINE r == DrawLines(u, blank)
<1>12. Ready(v) /\ v \in Window(size)
    BY <1>11 DEF After, Ready, Good
\* Their number.
<1>13. l \in Rows(Spare)
  <2>1. <<Plain(17)>> \in Parts(17)
      BY <1>3, PartsPlain
  <2>2. 17 < size.w
      BY <1>3
  <2> QED
      BY <1>3, <2>1, <2>2, RowOfParts
<1>14. blank \in Seq(Rows(Spare))
    BY <1>3, OptionTypes, RowsBlank
<1>15. /\ u \in Window(size)
       /\ ~v.stuck => (u.spoiled <=> v.spoiled)
       /\ v.row = size.h - 1 => Complete(u)
  <2> HIDE DEF v
  <2> QED
      BY <1>3, <1>12, CountLine
<1>16. win' = r
  <2>1. Rows(Spare) \subseteq Seq(Calls) /\ Seq(Rows(Spare)) \subseteq Seq(Seq(Calls))
      BY RowsCalls
  <2>2. /\ list \in Seq(Seq(Calls)) /\ count \in Seq(Seq(Calls)) /\ blank \in Seq(Seq(Calls))
        /\ l \in Seq(Calls)
    <3>1. list \in Seq(Seq(Calls)) /\ l \in Seq(Calls)
        BY <1>10, <1>13, <2>1
    <3>2. blank \in Seq(Seq(Calls))
      <4> HIDE DEF blank
      <4> QED
          BY <1>14, <2>1
    <3>3. count = <<l>>
        OBVIOUS
    <3> HIDE DEF l, count
    <3>4. count \in Seq(Seq(Calls))
        BY <3>1, <3>3
    <3> QED
        BY <3>1, <3>2, <3>4
  <2> HIDE DEF blank
  <2> DEFINE some == list \o count
  <2>3. some \in Seq(Seq(Calls))
    <3> HIDE DEF count
    <3> QED
        BY <2>2
  <2>4. DrawLines(titled, some) = DrawLines(v, count)
    <3> HIDE DEF count
    <3> QED
        BY <1>3, <1>6, <2>2, SectionConcat
  <2> HIDE DEF v, l
  <2>5. DrawLines(v, count) = u
      BY <1>3, <1>12, <2>2, SectionOne DEF l
  <2> HIDE DEF some, u
  <2>6. DrawLines(titled, some \o blank) = DrawLines(DrawLines(titled, some), blank)
      BY <1>3, <1>6, <2>2, <2>3, SectionConcat
  <2> QED
      BY <1>1, <2>4, <2>5, <2>6 DEF some
<1>17. After(Spare, 1, v, u)
  <2> HIDE DEF v, l
  <2> QED
      BY <1>3, <1>4, <1>12, <1>13, RowDraws
<1> HIDE DEF v, l
<1>18. Ready(u)
    BY <1>17 DEF After
<1>19. After(Spare, Len(blank), u, r)
  <2> HIDE DEF u, blank
  <2> QED
      BY <1>3, <1>4, <1>14, <1>18, SectionDraws
<1>20. r.spoiled = u.spoiled
  <2> HIDE DEF u
  <2> QED
      BY <1>3, <1>15, OptionTypes, BlankSpoilsNothing
<1> HIDE DEF u, r, blank, count
<1>21. /\ Ready(r) /\ r \in Window(size) /\ r.looks = {} /\ ~r.bleeds
       /\ win.wrapped => r.wrapped
       /\ Spare => (r.wrapped <=> win.wrapped)
    BY <1>3, <1>5, <1>11, <1>17, <1>19 DEF After, Ready, Good
<1>22. TypeOK'
    BY <1>1, <1>3, <1>9, <1>16, <1>21 DEF TypeOK
<1>23. NothingWraps'
  <2>1. NothingWraps
      BY DEF ScreenInv
  <2> QED
      BY <1>1, <1>16, <1>21, <2>1 DEF NothingWraps, Spare, Listed, NetworkWidth
<1>24. Placed'
    BY <1>1, <1>3, <1>16, <1>21 DEF Placed, Ready, Good
<1>25. ASSUME ~r.wrapped PROVE ~r.spoiled
  <2>1. ~win.stuck /\ ~win.spoiled /\ win.row <= RowsBefore("processes")
    <3>1. Room
        BY <1>2 DEF ScreenInv
    <3> QED
        BY <1>1, <1>21, <1>25, <3>1 DEF Room
  <2>2. RowsBefore("processes") + 3 <= size.h /\ RowsBefore("processes") \in Nat
      BY <1>1, <1>2, <1>3, RoomLeft
  <2>3. win.row \in Nat
      BY <1>3, WindowTypes
  <2>4. win.row + 1 <= size.h - 1 /\ win.row + 1 <= size.h - 2
      BY <1>3, <2>1, <2>2, <2>3
  <2>5. ~titled.wrapped /\ ~v.wrapped
      BY <1>11, <1>17, <1>19, <1>25 DEF After
  <2>6. ~titled.stuck /\ titled.row = win.row + 1 /\ ~titled.spoiled
      BY <1>5, <2>1, <2>4, <2>5 DEF After
  <2>7. room >= 0 /\ room + 1 = size.h - 1 - titled.row
      BY <1>3, <2>3, <2>4, <2>6
  <2>8. n <= room + 1
      BY <1>9, <2>7
  <2>9. titled.row + n <= size.h - 1
      BY <1>3, <1>7, <1>9, <2>7, <2>8
  <2>10. ~v.stuck /\ ~v.spoiled
      BY <1>11, <2>5, <2>6, <2>9 DEF After
  <2> QED
      BY <1>9, <1>15, <1>20, <1>25, <2>10
<1>26. RoomForProcesses'
    BY <1>1, <1>16, <1>25 DEF RoomForProcesses
<1>27. ASSUME "p" \notin opts.condensed, n < Listed PROVE Complete(r)
  <2>1. IF room < 0 THEN n = 1 ELSE n = room + 1
      BY <1>9, <1>27
  <2>2. v.row \in Nat /\ v.row < size.h
      BY <1>3, <1>12, WindowTypes
  <2>3. titled.row + n <= v.row \/ v.row = size.h - 1
      BY <1>11 DEF After
  <2>4. v.row = size.h - 1
    <3>1. titled.row + n >= size.h - 1
        BY <1>3, <1>7, <1>9, <2>1
    <3> QED
        BY <1>3, <1>7, <1>9, <2>2, <2>3, <3>1
  <2> QED
      BY <1>15, <1>19, <2>4 DEF After
<1>28. ListFillsWindow'
    BY <1>1, <1>16, <1>27 DEF ListFillsWindow, Complete, Listed
<1>29. pc' \notin Printing
    BY <1>1 DEF Printing
<1> QED
    BY <1>16, <1>21, <1>22, <1>23, <1>24, <1>26, <1>28, <1>29
       DEF ScreenInv, NothingBleeds

-----------------------------------------------------------------------------
(* The help and the rest.                                                  *)

\* Lines that say where they begin, and end before the window does.
Placing == {l \in Tidy : \A u \in Window(size) : DrawLine(u, l).wrapped <=> u.wrapped}

\* The calls of such a line.
LEMMA PlacingLine ==
    ASSUME size \in Sizes, NEW r \in 0..(size.h - 1), NEW c \in 0..(size.w - 1),
           NEW n \in Nat, n > 0, c + n < size.w
    PROVE  <<MoveTo(r, c), Plain(n)>> \in Placing
<1> DEFINE m == MoveTo(r, c)
<1> DEFINE t == Plain(n)
<1>1. m \in Jump /\ m.row = r /\ m.col = c
    BY DEF MoveTo, Jump
<1>2. t \in Text /\ t.cells = n /\ t.plain \in BOOLEAN
    BY DEF Plain, Text
<1> HIDE DEF m, t
<1>3. m \in Calls /\ t \in Calls /\ <<m>> \in Seq(Calls) /\ <<t>> \in Seq(Calls)
    BY <1>1, <1>2 DEF Calls, Still
<1>4. <<m>> \o <<t>> = <<m, t>>
    BY Pair
<1>5. <<m, t>> \in Tidy
  <2>1. <<m>> \in Tidy /\ <<t>> \in Tidy
      BY <1>1, <1>2, TidyCall
  <2> QED
      BY <1>4, <2>1, TidyConcat
<1>6. ASSUME NEW u \in Window(size)
      PROVE  DrawLine(u, <<m, t>>).wrapped <=> u.wrapped
  <2> DEFINE e == [u EXCEPT !.row = m.row, !.col = m.col, !.stuck = FALSE]
  <2>1. Call(u, m) = e
      BY <1>1, CallKinds
  <2>2. e \in Window(size)
      BY <1>1 DEF Window
  <2>3. e.wrapped = u.wrapped /\ e.col = c
      BY <1>1 DEF Window
  <2> HIDE DEF e
  <2>4. DrawLine(u, <<m>> \o <<t>>) = DrawLine(DrawLine(u, <<m>>), <<t>>)
      BY <1>3, LineConcat
  <2>5. DrawLine(u, <<m>>) = e /\ DrawLine(e, <<t>>) = Call(e, t)
      BY <1>3, <2>1, <2>2, LineOne
  <2> DEFINE x == PutText(e, t.cells, t.plain)
  <2>6. Call(e, t) = x
      BY <1>2, CallKinds
  <2>7. x.wrapped <=> e.wrapped \/ (~e.stuck /\ e.col + n >= size.w)
      BY <1>2, <2>2, TextFields
  <2> HIDE DEF x
  <2>8. ~(e.col + n >= size.w)
      BY <2>3, SizeType
  <2> QED
      BY <1>4, <2>3, <2>4, <2>5, <2>6, <2>7, <2>8
<1>7. <<m, t>> \in Placing
    BY <1>5, <1>6 DEF Placing
<1> QED
    BY <1>7 DEF m, t

LEMMA PlacingConcat ==
    ASSUME size \in Sizes, NEW s \in Placing, NEW t \in Placing
    PROVE  s \o t \in Placing
<1>1. s \in Seq(Calls) /\ t \in Seq(Calls) /\ s \o t \in Tidy
    BY TidyConcat DEF Placing, Tidy
<1>2. ASSUME NEW v \in Window(size)
      PROVE  DrawLine(v, s \o t).wrapped <=> v.wrapped
  <2> DEFINE u == DrawLine(v, s)
  <2>1. u \in Window(size) /\ (u.wrapped <=> v.wrapped)
      BY <1>1, LineType DEF Placing
  <2>2. DrawLine(v, s \o t) = DrawLine(u, t)
      BY <1>1, LineConcat
  <2> HIDE DEF u
  <2>3. DrawLine(u, t).wrapped <=> u.wrapped
      BY <2>1 DEF Placing
  <2> QED
      BY <2>1, <2>2, <2>3
<1> QED
    BY <1>1, <1>2 DEF Placing

LEMMA PlacingMove ==
    ASSUME size \in Sizes, NEW r \in 0..(size.h - 1), NEW c \in 0..(size.w - 1)
    PROVE  <<MoveTo(r, c)>> \in Placing
<1> DEFINE m == MoveTo(r, c)
<1>1. m \in Jump /\ m \in Calls
    BY DEF MoveTo, Jump, Calls
<1> HIDE DEF m
<1>2. <<m>> \in Tidy
    BY <1>1, TidyCall
<1>3. ASSUME NEW u \in Window(size)
      PROVE  DrawLine(u, <<m>>).wrapped <=> u.wrapped
  <2>1. DrawLine(u, <<m>>) = [u EXCEPT !.row = m.row, !.col = m.col, !.stuck = FALSE]
      BY <1>1, LineOne, CallKinds
  <2> QED
      BY <2>1 DEF Window
<1>4. <<m>> \in Placing
    BY <1>2, <1>3 DEF Placing
<1> QED
    BY <1>4 DEF m

\* Help::show() stays inside a window of the minimum size.
LEMMA HelpPlacing ==
    ASSUME size \in Sizes, size.w >= 96, size.h >= 30
    PROVE  HelpLines \in Seq(Placing)
<1>1. size.w \in Nat /\ size.h \in Nat
    BY SizeType
<1> DEFINE frame == [i \in 1..15 |-> <<MoveTo(3 + i, 4), Plain(size.w - 8)>>]
<1> DEFINE title == << <<MoveTo(4, 6), Plain(6)>> >>
<1> DEFINE texts == [i \in 1..7 |-> <<MoveTo(5 + i, 6), Plain(60)>>]
<1> DEFINE x == <<MoveTo(14, 6), Plain(26)>>
<1> DEFINE y == <<MoveTo(16, 6), Plain(21), MoveTo(20, 6)>>
<1>2. frame \in Seq(Placing)
  <2>1. ASSUME NEW i \in 1..15 PROVE <<MoveTo(3 + i, 4), Plain(size.w - 8)>> \in Placing
    <3>1. /\ 3 + i \in 0..(size.h - 1) /\ 4 \in 0..(size.w - 1)
          /\ size.w - 8 \in Nat /\ size.w - 8 > 0 /\ 4 + (size.w - 8) < size.w
        BY <1>1
    <3> QED
        BY <3>1, PlacingLine
  <2> QED
      BY <2>1
<1>3. texts \in Seq(Placing)
  <2>1. ASSUME NEW i \in 1..7 PROVE <<MoveTo(5 + i, 6), Plain(60)>> \in Placing
    <3>1. /\ 5 + i \in 0..(size.h - 1) /\ 6 \in 0..(size.w - 1)
          /\ 60 \in Nat /\ 60 > 0 /\ 6 + 60 < size.w
        BY <1>1
    <3> QED
        BY <3>1, PlacingLine
  <2> QED
      BY <2>1
<1>4. <<MoveTo(4, 6), Plain(6)>> \in Placing
  <2>1. /\ 4 \in 0..(size.h - 1) /\ 6 \in 0..(size.w - 1)
        /\ 6 \in Nat /\ 6 > 0 /\ 6 + 6 < size.w
      BY <1>1
  <2> QED
      BY <2>1, PlacingLine
<1>5. x \in Placing
  <2>1. /\ 14 \in 0..(size.h - 1) /\ 6 \in 0..(size.w - 1)
        /\ 26 \in Nat /\ 26 > 0 /\ 6 + 26 < size.w
      BY <1>1
  <2> QED
      BY <2>1, PlacingLine
<1>6. y \in Placing
  <2>1. /\ 16 \in 0..(size.h - 1) /\ 20 \in 0..(size.h - 1) /\ 6 \in 0..(size.w - 1)
        /\ 21 \in Nat /\ 21 > 0 /\ 6 + 21 < size.w
      BY <1>1
  <2>2. <<MoveTo(16, 6), Plain(21)>> \in Placing
      BY <2>1, PlacingLine
  <2>3. <<MoveTo(20, 6)>> \in Placing
      BY <2>1, PlacingMove
  <2>4. (<<MoveTo(16, 6)>> \o <<Plain(21)>>) \o <<MoveTo(20, 6)>> = y
      BY Triple
  <2>5. <<MoveTo(16, 6)>> \o <<Plain(21)>> = <<MoveTo(16, 6), Plain(21)>>
      BY Pair
  <2>6. <<MoveTo(16, 6), Plain(21)>> \o <<MoveTo(20, 6)>> \in Placing
      BY <2>2, <2>3, PlacingConcat
  <2> QED
      BY <2>4, <2>5, <2>6
<1>7. title \in Seq(Placing)
    BY <1>4
<1> HIDE DEF x, y
<1> DEFINE last == <<x, y>>
<1>8. last \in Seq(Placing)
    BY <1>5, <1>6
<1>9. HelpLines = frame \o title \o texts \o last
    BY DEF HelpLines, x, y
<1> HIDE DEF frame, title, texts, last
<1> QED
    BY <1>2, <1>3, <1>7, <1>8, <1>9

LEMMA HelpStep == ScreenInv /\ ShowHelp => ScreenInv'
<1> SUFFICES ASSUME ScreenInv, ShowHelp PROVE ScreenInv'
    OBVIOUS
<1>1. /\ pc = "help" /\ pc' = "wait" /\ size' = size /\ opts' = opts /\ data' = data
      /\ shown' = shown /\ win' = IF opts.help THEN DrawLines(win, HelpLines) ELSE win
    BY DEF ShowHelp
<1>2. /\ size \in Sizes /\ win \in Window(size) /\ size.w >= 96 /\ size.h >= 30
      /\ Ready(win) /\ ~win.bleeds
    BY <1>1, PlacedFacts
<1>3. TypeOK /\ NothingWraps /\ win.looks = {}
    BY DEF ScreenInv
<1> DEFINE S == {u \in Window(size) : u.looks = {} /\ ~u.bleeds
                                      /\ (u.wrapped <=> win.wrapped)}
<1>4. win \in S /\ S \in SUBSET Window(size)
    BY <1>2, <1>3
<1>5. ASSUME NEW u \in S, NEW l \in Placing PROVE DrawLine(u, l) \in S
  <2> DEFINE r == DrawLine(u, l)
  <2>1. u \in Window(size) /\ u.looks = {} /\ ~u.bleeds
        /\ (u.wrapped <=> win.wrapped)
      OBVIOUS
  <2>2. l \in Tidy /\ l \in Seq(Calls)
      BY DEF Placing, Tidy
  <2>3. r \in Window(size)
      BY <1>2, <2>1, <2>2, LineType
  <2>4. r.looks = {} /\ (r.bleeds <=> u.bleeds)
      BY <2>1, <2>2 DEF Tidy
  <2>5. r.wrapped <=> u.wrapped
      BY <2>1 DEF Placing
  <2> HIDE DEF r
  <2>6. r \in S
      BY <2>1, <2>3, <2>4, <2>5
  <2> QED
      BY <2>6 DEF r
<1>6. DrawLines(win, HelpLines) \in S
  <2>1. Placing \in SUBSET Seq(Calls)
      BY DEF Placing, Tidy
  <2> HIDE DEF S
  <2> QED
      BY <1>2, <1>4, <1>5, <2>1, HelpPlacing, SectionStays
<1>7. win' \in S
    BY <1>1, <1>4, <1>6
<1>8. TypeOK'
    BY <1>1, <1>3, <1>7 DEF TypeOK
<1>9. NothingWraps'
    BY <1>1, <1>3, <1>7 DEF NothingWraps, Spare, Listed, NetworkWidth
<1>10. win'.looks = {} /\ ~win'.bleeds
    BY <1>7
<1> QED
    BY <1>1, <1>8, <1>9, <1>10, Elsewhere

LEMMA TooSmallStep == ScreenInv /\ ShowTooSmall => ScreenInv'
<1> SUFFICES ASSUME ScreenInv, ShowTooSmall PROVE ScreenInv'
    OBVIOUS
<1> DEFINE v == Cleared(size)
<1> DEFINE c == Plain(50)
<1> DEFINE r == DrawLine(v, Ln(<<c>>))
<1>1. /\ Small(size) /\ pc' = "wait" /\ size' = size /\ opts' = opts /\ data' = data
      /\ shown' = shown /\ win' = r
    BY DEF ShowTooSmall
<1>2. TypeOK /\ size \in Sizes
    BY DEF ScreenInv, TypeOK
<1>3. v \in Window(size) /\ v.looks = {} /\ ~v.bleeds
    BY <1>2, ClearedFields
<1>4. c \in Text
    BY DEF Plain, Text
<1> HIDE DEF v, c
<1>5. Ln(<<c>>) \in Tidy
  <2>1. <<c>> \in Tidy /\ <<Newline>> \in Tidy
      BY <1>2, <1>4, TidyCall
  <2> QED
      BY <1>2, <2>1, TidyConcat DEF Ln
<1>6. r \in Window(size) /\ r.looks = {} /\ ~r.bleeds
    BY <1>2, <1>3, <1>5, LineType DEF Tidy
<1> HIDE DEF r
<1>8. TypeOK'
    BY <1>1, <1>2, <1>6 DEF TypeOK
<1>9. NothingWraps'
    BY <1>1 DEF NothingWraps
<1> QED
    BY <1>1, <1>6, <1>8, <1>9, Elsewhere

\* The waits: a key that does something and a new size clear the window, and what
\* another key leaves in it the next refresh is drawn over.
LEMMA WaitStep ==
    ScreenInv /\ (NoKey \/ IgnoredKey \/ Key \/ \E s \in Sizes : Resize(s)) => ScreenInv'
<1> SUFFICES ASSUME ScreenInv PROVE NoKey \/ IgnoredKey \/ Key \/ (\E s \in Sizes : Resize(s)) => ScreenInv'
    OBVIOUS
<1>1. /\ TypeOK /\ size \in Sizes /\ opts \in Options /\ data \in Data /\ shown \in Nat
      /\ NothingWraps /\ win.looks = {} /\ ~win.bleeds
    BY DEF ScreenInv, TypeOK, NothingBleeds
<1>2. ASSUME NoKey PROVE ScreenInv'
  <2>1. TypeOK' /\ NothingWraps' /\ win' = win /\ pc' = "loop"
      BY <1>1, <1>2 DEF NoKey, TypeOK, NothingWraps
  <2> QED
      BY <1>1, <2>1, Elsewhere
<1>3. ASSUME Key PROVE ScreenInv'
  <2>1. opts' \in Options
    <3>1. CASE opts' = [opts EXCEPT !.cpuState = ~@, !.help = FALSE]
        BY <1>1, <3>1 DEF Options
    <3>2. CASE opts' = [opts EXCEPT !.main = ~@, !.help = FALSE]
        BY <1>1, <3>2 DEF Options
    <3>3. CASE opts' = [opts EXCEPT !.help = ~@]
        BY <1>1, <3>3 DEF Options
    <3>4. CASE opts' = [opts EXCEPT !.help = FALSE]
        BY <1>1, <3>4 DEF Options
    <3>5. ASSUME NEW k \in Section,
                 opts' = [opts EXCEPT !.condensed = (@ \ {k}) \cup ({k} \ @), !.help = FALSE]
          PROVE  opts' \in Options
        BY <1>1, <3>5 DEF Options
    <3> QED
        BY <1>3, <3>1, <3>2, <3>3, <3>4, <3>5 DEF Key
  <2>2. win' = Cleared(size) /\ size' = size /\ data' = data /\ shown' = shown /\ pc' = "loop"
      BY <1>3 DEF Key
  <2>3. /\ win' \in Window(size) /\ win'.looks = {} /\ ~win'.bleeds
        /\ ~win'.wrapped
      BY <1>1, <2>2, ClearedFields
  <2>4. TypeOK' /\ NothingWraps'
      BY <1>1, <2>1, <2>2, <2>3 DEF TypeOK, NothingWraps
  <2> QED
      BY <2>2, <2>3, <2>4, Elsewhere
<1>5. ASSUME IgnoredKey PROVE ScreenInv'
  <2>1. /\ pc' = "loop" /\ size' = size /\ opts' = opts /\ data' = data /\ shown' = shown
        /\ (\E n \in {1, 2, 8} : win' = PutText(win, n, FALSE)) \/ win' = PutNewline(win)
      BY <1>5 DEF IgnoredKey
  <2>2. win \in Window(size)
      BY <1>1 DEF TypeOK
  <2>3. win' \in Window(size) /\ win'.looks = win.looks /\ (win'.bleeds <=> win.bleeds)
    <3>1. ASSUME NEW n \in {1, 2, 8}, win' = PutText(win, n, FALSE)
          PROVE  win' \in Window(size) /\ win'.looks = win.looks /\ (win'.bleeds <=> win.bleeds)
      <4>1. n \in Int /\ n > 0
          OBVIOUS
      <4> DEFINE r == PutText(win, n, FALSE)
      <4>2. r \in Window(size) /\ r.looks = win.looks /\ (r.bleeds <=> win.bleeds)
          BY <1>1, <2>2, <4>1, TextFields
      <4> HIDE DEF r
      <4>3. win' = r
          BY <3>1 DEF r
      <4> QED
          BY <4>2, <4>3
    <3>2. ASSUME win' = PutNewline(win)
          PROVE  win' \in Window(size) /\ win'.looks = win.looks /\ (win'.bleeds <=> win.bleeds)
      <4> DEFINE r == PutNewline(win)
      <4>1. r \in Window(size) /\ r.looks = win.looks /\ r.bleeds = win.bleeds
          BY <1>1, <2>2, NewlineFields
      <4> HIDE DEF r
      <4>2. win' = r
          BY <3>2 DEF r
      <4> QED
          BY <4>1, <4>2
    <3> QED
        BY <2>1, <3>1, <3>2
  <2>4. TypeOK'
      BY <1>1, <2>1, <2>3 DEF TypeOK
  <2>5. NothingWraps'
      BY <2>1 DEF NothingWraps
  <2> QED
      BY <1>1, <2>1, <2>3, <2>4, <2>5, Elsewhere
<1>4. ASSUME NEW s \in Sizes, Resize(s) PROVE ScreenInv'
  <2>1. /\ size' = s /\ win' = Cleared(s) /\ opts' = opts /\ data' = data /\ shown' = shown
        /\ pc' = "wait"
      BY <1>4 DEF Resize
  <2>2. /\ win' \in Window(s) /\ win'.looks = {} /\ ~win'.bleeds
        /\ ~win'.wrapped
      BY <2>1, ClearedFields
  <2>3. TypeOK' /\ NothingWraps'
      BY <1>1, <2>1, <2>2 DEF TypeOK, NothingWraps
  <2> QED
      BY <2>1, <2>2, <2>3, Elsewhere
<1> QED
    BY <1>2, <1>3, <1>4, <1>5

\* Each print(), the help, keys and resizes leave the window as the next print()
\* expects it.
THEOREM StepInv == ScreenInv /\ [Next]_vars => ScreenInv'
<1> SUFFICES ASSUME ScreenInv, [Next]_vars PROVE ScreenInv'
    OBVIOUS
<1>1. CASE ShowTooSmall
    BY <1>1, TooSmallStep
<1>2. CASE Update
    BY <1>2, UpdateStep
<1>3. CASE PrintPlatform
    BY <1>3, PlatformStep
<1>4. CASE PrintCPU
    BY <1>4, CPUStep
<1>5. CASE PrintMemory
    BY <1>5, MemoryStep
<1>6. CASE PrintVirtualMemory
    BY <1>6, VirtualStep
<1>7. CASE PrintDisk
    BY <1>7, DiskStep
<1>8. CASE PrintNetwork
    BY <1>8, NetworkStep
<1>9. CASE PrintProcesses
    BY <1>9, ProcessesStep
<1>10. CASE ShowHelp
    BY <1>10, HelpStep
<1>11. CASE NoKey \/ IgnoredKey \/ Key \/ \E s \in Sizes : Resize(s)
    BY <1>11, WaitStep
<1>12. CASE HeadOverruns
    BY <1>12, HeadStep
<1>13. CASE UNCHANGED vars
    BY <1>13 DEF vars, ScreenInv, TypeOK, NothingBleeds, NothingWraps, Printing, Placed,
       Ready, Good, Room, RowsBefore, CondenseMain, RoomForProcesses, ListFillsWindow, Drawn,
       Spare, Listed, NetworkWidth
<1> QED
    BY <1>1, <1>2, <1>3, <1>4, <1>5, <1>6, <1>7, <1>8, <1>9, <1>10, <1>11, <1>12, <1>13
       DEF Next, Loop

\* The strengthening that the properties follow from.
THEOREM InductiveInvariant == Spec => []ScreenInv
BY InitInv, StepInv, PTL DEF Spec

-----------------------------------------------------------------------------
(* What follows.                                                           *)

\* All variables have their types: above all, no operation of Console takes the
\* cursor out of the window.
THEOREM TypeCorrect == Spec => []TypeOK
<1>1. ScreenInv => TypeOK
    BY DEF ScreenInv
<1> QED
    BY <1>1, InductiveInvariant, PTL

\* After a refresh nothing older shows above the cursor.
THEOREM NothingOldBetweenHolds == Spec => []NothingOldBetween
<1>1. ScreenInv => NothingOldBetween
    BY DEF ScreenInv, NothingOldBetween, Drawn, Placed, Ready, Good
<1> QED
    BY <1>1, InductiveInvariant, PTL

\* The list of processes is cut where the window ends, and not before.
THEOREM ListFillsWindowHolds == Spec => []ListFillsWindow
<1>1. ScreenInv => ListFillsWindow
    BY DEF ScreenInv
<1> QED
    BY <1>1, InductiveInvariant, PTL

\* The other sections leave it room, and nothing is drawn over the last line.
THEOREM RoomForProcessesHolds == Spec => []RoomForProcesses
<1>1. ScreenInv => RoomForProcesses
    BY DEF ScreenInv
<1> QED
    BY <1>1, InductiveInvariant, PTL

\* No line is too long for its window unless its numbers are for what is spare.
THEOREM NothingWrapsHolds == Spec => []NothingWraps
<1>1. ScreenInv => NothingWraps
    BY DEF ScreenInv
<1> QED
    BY <1>1, InductiveInvariant, PTL

\* What is plain is drawn plain.
THEOREM NothingBleedsHolds == Spec => []NothingBleeds
<1>1. ScreenInv => NothingBleeds
    BY DEF ScreenInv
<1> QED
    BY <1>1, InductiveInvariant, PTL

=============================================================================
