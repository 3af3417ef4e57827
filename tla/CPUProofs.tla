------------------------------ MODULE CPUProofs ------------------------------
(***************************************************************************)
(* Theorems about CPU, for every number of cores and every width of the    *)
(* counters: no lookup of update() or print() misses, what is shown of a   *)
(* core is how busy it was, what is shown of "CPU" is the mean of that,    *)
(* and the columns of the histories belong together.                       *)
(***************************************************************************)
EXTENDS CPU, Lemmas

\* The kernel's counters fit into those of cctop.
LEMMA TickFits == TickWord \in Nat \ {0} /\ TickWord <= Word
<1>1. Cores \in Nat /\ Cores >= 1 /\ TickWord \in Nat /\ Cores * TickWord <= Word
    BY CoresAssumption, TickAssumption
<1>2. \A a, b \in Nat : a >= 1 => b <= a * b
    OBVIOUS
<1>3. TickWord <= Cores * TickWord /\ Cores * TickWord \in Nat
    BY <1>1, <1>2
<1> QED
    BY <1>1, <1>3, TickAssumption, WordAssumption

\* How far a core's counter is after s more ticks.
Later(t, s) == IF t + s < TickWord THEN t + s ELSE (t + s) - TickWord

\* As long as no reading failed, the kernel has counted on from what was read.
SinceInv ==
    ~cut => \A c \in Core : c \in DOMAIN current /\ ticks[c] = Later(current[c], since[c])

\* What was read for "CPU" is the sum of what was read for the cores.
SumInv == ~cut => current[Total] = Sum(current, Cores)

IInv ==
    /\ TypeOK
    /\ \A c \in DOMAIN current \cap Core : current[c] \in 0..(TickWord - 1)
    /\ pc = "start" => DOMAIN current = {} /\ DOMAIN last = {} /\ DOMAIN delta = {} /\ cut
    /\ pc = "start" => num_cores = 0 /\ history = [n \in Name |-> Blank] /\ seen = history
    /\ KeysNested
    /\ SinceInv
    /\ SumInv
    /\ UsageExact
    /\ TotalIsMean

-----------------------------------------------------------------------------
(* Sums.                                                                   *)

\* A sum adds up core by core.
LEMMA SumStep ==
    ASSUME NEW m, NEW count \in Nat, \A c \in 0..(count - 1) : m[c] \in Unsigned
    PROVE  \E f \in [0..count -> Unsigned] :
               /\ f[0] = 0
               /\ \A n \in 1..count : f[n] = (f[n - 1] + m[n - 1]) % Word
               /\ f[count] = Sum(m, count)
<1> DEFINE step == [n \in 1..count |-> [x \in Unsigned |-> (x + m[n - 1]) % Word]]
<1> DEFINE Is(g) ==
        g = [n \in 0..count |-> IF n = 0 THEN 0 ELSE (g[n - 1] + m[n - 1]) % Word]
<1> DEFINE total == CHOOSE g : Is(g)
<1>1. step \in [1..count -> [Unsigned -> Unsigned]] /\ 0 \in Unsigned
  <2>1. ASSUME NEW x \in Unsigned, NEW y \in Unsigned PROVE (x + y) % Word \in Unsigned
      BY WordAssumption DEF Unsigned
  <2>2. 0 \in Unsigned
      BY WordAssumption DEF Unsigned
  <2> QED
      BY <2>1, <2>2
<1>2. \A n \in 1..count : \A x \in Unsigned : step[n][x] = (x + m[n - 1]) % Word
    OBVIOUS
<1>3. \E f : IsRecursion(f, count, Unsigned, 0, step)
  <2> HIDE DEF step
  <2>1. step \in Steps(count, Unsigned)
      BY <1>1 DEF Steps
  <2> QED
      BY <1>1, <2>1, BoundedRecursion
<1> HIDE DEF step
<1>4. PICK f \in [0..count -> Unsigned] :
          f[0] = 0 /\ \A n \in 1..count : f[n] = step[n][f[n - 1]]
    BY <1>3 DEF IsRecursion
<1>5. \A n \in 1..count : f[n] = (f[n - 1] + m[n - 1]) % Word
    BY <1>2, <1>4
<1>6. Is(f)
  <2>1. \A n \in 0..count : f[n] = IF n = 0 THEN 0 ELSE (f[n - 1] + m[n - 1]) % Word
      BY <1>4, <1>5
  <2> QED
      BY <2>1
<1>7. Sum(m, count) = total[count]
    BY DEF Sum
<1>8. Is(total)
  <2> HIDE DEF Is
  <2> QED
      BY <1>6
<1> HIDE DEF total
<1>9. total[0] = 0 /\ \A n \in 1..count : total[n] = (total[n - 1] + m[n - 1]) % Word
  <2>1. \A n \in 0..count : total[n] = IF n = 0 THEN 0 ELSE (total[n - 1] + m[n - 1]) % Word
      BY <1>8
  <2> QED
      BY <2>1
<1>10. \A n \in 0..count : total[n] = f[n]
  <2> DEFINE S == {n \in Nat : n <= count => total[n] = f[n]}
  <2>1. 0 \in S
      BY <1>4, <1>9
  <2>2. ASSUME NEW n \in Nat, n \in S PROVE n + 1 \in S
      BY <1>5, <1>9, <2>2
  <2>3. Nat \subseteq S
    <3> HIDE DEF S
    <3> QED
        BY <2>1, <2>2, SetInduction
  <2> QED
      BY <2>3
<1> QED
    BY <1>4, <1>5, <1>7, <1>10

\* Sums of equal counters are equal.
LEMMA SumEqual ==
    ASSUME NEW a, NEW b, NEW count \in Nat,
           \A c \in 0..(count - 1) : a[c] = b[c] /\ b[c] \in Unsigned
    PROVE  Sum(a, count) = Sum(b, count)
<1>1. PICK f \in [0..count -> Unsigned] :
          /\ f[0] = 0 /\ f[count] = Sum(a, count)
          /\ \A n \in 1..count : f[n] = (f[n - 1] + a[n - 1]) % Word
    BY SumStep
<1>2. PICK g \in [0..count -> Unsigned] :
          /\ g[0] = 0 /\ g[count] = Sum(b, count)
          /\ \A n \in 1..count : g[n] = (g[n - 1] + b[n - 1]) % Word
    BY SumStep
<1> DEFINE S == {n \in Nat : n <= count => f[n] = g[n]}
<1>3. 0 \in S
    BY <1>1, <1>2
<1>4. ASSUME NEW n \in Nat, n \in S PROVE n + 1 \in S
    BY <1>1, <1>2, <1>4
<1>5. Nat \subseteq S
  <2> HIDE DEF S
  <2> QED
      BY <1>3, <1>4, SetInduction
<1> QED
    BY <1>1, <1>2, <1>5

\* One addend more: x and y are sums so far, a and b the next addends.
LEMMA MinusAdds ==
    ASSUME NEW x \in Unsigned, NEW y \in Unsigned, NEW a \in Unsigned, NEW b \in Unsigned
    PROVE  (Minus(x, y) + Minus(a, b)) % Word = Minus((x + a) % Word, (y + b) % Word)
<1> DEFINE plus(u, v) == IF u + v < Word THEN u + v ELSE (u + v) - Word
<1> DEFINE less(u, v) == IF v <= u THEN u - v ELSE u + (Word - v)
<1>1. Word \in Nat /\ \A u \in Unsigned : u \in Nat /\ u < Word
    BY WordAssumption DEF Unsigned
<1>2. \A u, v \in Unsigned : (u + v) % Word = plus(u, v) /\ plus(u, v) \in Unsigned
    BY WordAssumption DEF Unsigned
<1>3. \A u, v \in Unsigned : Minus(u, v) = less(u, v) /\ less(u, v) \in Unsigned
    BY WordAssumption DEF Unsigned, Minus
<1>4. (Minus(x, y) + Minus(a, b)) % Word = plus(less(x, y), less(a, b))
  <2> HIDE DEF plus, less
  <2> QED
      BY <1>2, <1>3
<1>5. Minus((x + a) % Word, (y + b) % Word) = less(plus(x, a), plus(y, b))
  <2> HIDE DEF plus, less
  <2> QED
      BY <1>2, <1>3
<1>6. plus(less(x, y), less(a, b)) = less(plus(x, a), plus(y, b))
    BY <1>1
<1> QED
    BY <1>4, <1>5, <1>6

\* The difference of two sums is the sum of the differences.
LEMMA SumOfDifferences ==
    ASSUME NEW a, NEW b, NEW d, NEW count \in Nat,
           \A c \in 0..(count - 1) : /\ a[c] \in Unsigned /\ b[c] \in Unsigned
                                     /\ d[c] = Minus(a[c], b[c])
    PROVE  /\ Sum(d, count) = Minus(Sum(a, count), Sum(b, count))
           /\ Sum(d, count) \in Unsigned
<1>1. PICK f \in [0..count -> Unsigned] :
          /\ f[0] = 0 /\ f[count] = Sum(a, count)
          /\ \A n \in 1..count : f[n] = (f[n - 1] + a[n - 1]) % Word
    BY SumStep
<1>2. PICK g \in [0..count -> Unsigned] :
          /\ g[0] = 0 /\ g[count] = Sum(b, count)
          /\ \A n \in 1..count : g[n] = (g[n - 1] + b[n - 1]) % Word
    BY SumStep
<1>3. \A c \in 0..(count - 1) : d[c] \in Unsigned
    BY MinusType
<1>4. PICK h \in [0..count -> Unsigned] :
          /\ h[0] = 0 /\ h[count] = Sum(d, count)
          /\ \A n \in 1..count : h[n] = (h[n - 1] + d[n - 1]) % Word
    BY <1>3, SumStep
<1> DEFINE S == {n \in Nat : n <= count => h[n] = Minus(f[n], g[n])}
<1>5. 0 \in S
  <2>1. 0 \in Unsigned /\ 0 \in 0..0
      BY WordAssumption DEF Unsigned
  <2>2. Minus(0, 0) = 0
      BY <2>1, MinusExact
  <2> QED
      BY <1>1, <1>2, <1>4, <2>2
<1>6. ASSUME NEW n \in Nat, n \in S PROVE n + 1 \in S
  <2> SUFFICES ASSUME n + 1 <= count PROVE h[n + 1] = Minus(f[n + 1], g[n + 1])
      OBVIOUS
  <2>1. n \in 0..(count - 1) /\ n \in 0..count /\ n + 1 \in 1..count /\ (n + 1) - 1 = n
      OBVIOUS
  <2>2. h[n] = Minus(f[n], g[n])
      BY <1>6, <2>1
  <2> DEFINE x == f[n]
  <2> DEFINE y == g[n]
  <2> DEFINE u == a[n]
  <2> DEFINE v == b[n]
  <2>3. /\ f[n + 1] = (x + u) % Word /\ g[n + 1] = (y + v) % Word
        /\ h[n + 1] = (Minus(x, y) + Minus(u, v)) % Word
        /\ x \in Unsigned /\ y \in Unsigned /\ u \in Unsigned /\ v \in Unsigned
      BY <1>1, <1>2, <1>4, <2>1, <2>2
  <2> HIDE DEF x, y, u, v
  <2> QED
      BY <2>3, MinusAdds
<1>7. Nat \subseteq S
  <2> HIDE DEF S
  <2> QED
      BY <1>5, <1>6, SetInduction
<1>8. h[count] = Minus(f[count], g[count]) /\ h[count] \in Unsigned
    BY <1>7
<1> QED
    BY <1>1, <1>2, <1>4, <1>8

\* The sums that are not reduced.
LEMMA PlainSumStep ==
    ASSUME NEW m, NEW count \in Nat, \A c \in 0..(count - 1) : m[c] \in Nat
    PROVE  \E f \in [0..count -> Nat] :
               /\ f[0] = 0
               /\ \A n \in 1..count : f[n] = f[n - 1] + m[n - 1]
               /\ f[count] = PlainSum(m, count)
<1> DEFINE step == [n \in 1..count |-> [x \in Nat |-> x + m[n - 1]]]
<1> DEFINE Is(g) == g = [n \in 0..count |-> IF n = 0 THEN 0 ELSE g[n - 1] + m[n - 1]]
<1> DEFINE total == CHOOSE g : Is(g)
<1>1. step \in [1..count -> [Nat -> Nat]] /\ 0 \in Nat
    OBVIOUS
<1>2. \A n \in 1..count : \A x \in Nat : step[n][x] = x + m[n - 1]
    OBVIOUS
<1>3. \E f : IsRecursion(f, count, Nat, 0, step)
  <2> HIDE DEF step
  <2>1. step \in Steps(count, Nat)
      BY <1>1 DEF Steps
  <2> QED
      BY <1>1, <2>1, BoundedRecursion
<1> HIDE DEF step
<1>4. PICK f \in [0..count -> Nat] :
          f[0] = 0 /\ \A n \in 1..count : f[n] = step[n][f[n - 1]]
    BY <1>3 DEF IsRecursion
<1>5. \A n \in 1..count : f[n] = f[n - 1] + m[n - 1]
  <2> TAKE n \in 1..count
  <2>1. f[n - 1] \in Nat /\ f[n] = step[n][f[n - 1]]
      BY <1>4
  <2> QED
      BY <1>2, <2>1
<1>6. Is(f)
  <2>1. \A n \in 0..count : f[n] = IF n = 0 THEN 0 ELSE f[n - 1] + m[n - 1]
      BY <1>4, <1>5
  <2> QED
      BY <2>1
<1>7. PlainSum(m, count) = total[count]
    BY DEF PlainSum
<1>8. Is(total)
  <2> HIDE DEF Is
  <2> QED
      BY <1>6
<1> HIDE DEF total
<1>9. total[0] = 0 /\ \A n \in 1..count : total[n] = total[n - 1] + m[n - 1]
  <2>1. \A n \in 0..count : total[n] = IF n = 0 THEN 0 ELSE total[n - 1] + m[n - 1]
      BY <1>8
  <2> QED
      BY <2>1
<1>10. \A n \in 0..count : total[n] = f[n]
  <2> DEFINE S == {n \in Nat : n <= count => total[n] = f[n]}
  <2>1. 0 \in S
      BY <1>4, <1>9
  <2>2. ASSUME NEW n \in Nat, n \in S PROVE n + 1 \in S
      BY <1>5, <1>9, <2>2
  <2>3. Nat \subseteq S
    <3> HIDE DEF S
    <3> QED
        BY <2>1, <2>2, SetInduction
  <2> QED
      BY <2>3
<1>11. f[count] = PlainSum(m, count)
    BY <1>7, <1>10
<1> QED
    BY <1>4, <1>5, <1>11

\* Reducing a sum before adding to it changes nothing in the end.
LEMMA ModAdds ==
    ASSUME NEW x \in Nat, NEW a \in Nat
    PROVE  ((x % Word) + a) % Word = (x + a) % Word
<1> DEFINE q == x \div Word
<1> DEFINE y == x % Word
<1> DEFINE p == (y + a) \div Word
<1> DEFINE z == (y + a) % Word
<1>1. Word \in Nat /\ Word > 0
    BY WordAssumption
<1>2. \A n \in Nat : /\ n = (Word * (n \div Word)) + (n % Word)
                      /\ n \div Word \in Nat /\ n % Word \in Nat /\ n % Word < Word
    BY <1>1
<1>3. x = Word * q + y /\ q \in Nat /\ y \in Nat
    BY <1>2
<1>4. y + a = Word * p + z /\ p \in Nat /\ z \in Nat /\ z < Word
    BY <1>2, <1>3
<1> HIDE DEF q, y, p, z
<1>5. x + a = Word * (q + p) + z
    BY <1>1, <1>3, <1>4
<1>6. \A i, r \in Nat : r < Word => (Word * i + r) % Word = r
    BY <1>1
<1>7. (x + a) % Word = z
    BY <1>3, <1>4, <1>5, <1>6
<1> QED
    BY <1>7 DEF y, z

\* What the code's sum is of the plain one.
LEMMA SumReduces ==
    ASSUME NEW m, NEW count \in Nat, \A c \in 0..(count - 1) : m[c] \in Unsigned
    PROVE  Sum(m, count) = PlainSum(m, count) % Word
<1>1. PICK f \in [0..count -> Unsigned] :
          /\ f[0] = 0 /\ f[count] = Sum(m, count)
          /\ \A n \in 1..count : f[n] = (f[n - 1] + m[n - 1]) % Word
    BY SumStep
<1>2. \A c \in 0..(count - 1) : m[c] \in Nat
    BY WordAssumption DEF Unsigned
<1>3. PICK g \in [0..count -> Nat] :
          /\ g[0] = 0 /\ g[count] = PlainSum(m, count)
          /\ \A n \in 1..count : g[n] = g[n - 1] + m[n - 1]
    BY <1>2, PlainSumStep
<1> DEFINE S == {n \in Nat : n <= count => f[n] = g[n] % Word}
<1>4. 0 \in S
    BY <1>1, <1>3, WordAssumption
<1>5. ASSUME NEW n \in Nat, n \in S PROVE n + 1 \in S
  <2> SUFFICES ASSUME n + 1 <= count PROVE f[n + 1] = g[n + 1] % Word
      OBVIOUS
  <2>1. n \in 0..(count - 1) /\ n \in 0..count /\ n + 1 \in 1..count /\ (n + 1) - 1 = n
      OBVIOUS
  <2> DEFINE x == g[n]
  <2> DEFINE a == m[n]
  <2>2. f[n + 1] = ((x % Word) + a) % Word /\ g[n + 1] = x + a
      BY <1>1, <1>3, <1>5, <2>1
  <2>3. x \in Nat /\ a \in Nat
      BY <1>2, <1>3, <2>1
  <2> HIDE DEF x, a
  <2> QED
      BY <2>2, <2>3, ModAdds
<1>6. Nat \subseteq S
  <2> HIDE DEF S
  <2> QED
      BY <1>4, <1>5, SetInduction
<1> QED
    BY <1>1, <1>3, <1>6

\* As long as no core's delta is as large as the kernel's counters, the cores'
\* sum fits into one of cctop's.
LEMMA SumFits ==
    ASSUME NEW m, \A c \in 0..(Cores - 1) : m[c] \in Nat /\ m[c] < TickWord
    PROVE  PlainSum(m, Cores) \in Unsigned
<1>1. Cores \in Nat /\ Cores >= 1 /\ TickWord \in Nat /\ TickWord >= 1 /\ Cores * TickWord <= Word
    BY CoresAssumption, TickAssumption
<1>2. PICK g \in [0..Cores -> Nat] :
          /\ g[0] = 0 /\ g[Cores] = PlainSum(m, Cores)
          /\ \A n \in 1..Cores : g[n] = g[n - 1] + m[n - 1]
    BY <1>1, PlainSumStep
<1> DEFINE room == TickWord - 1
<1>3. room \in Nat /\ \A c \in 0..(Cores - 1) : m[c] \in Nat /\ m[c] <= room
    BY <1>1
<1> DEFINE S == {n \in Nat : n <= Cores => g[n] <= n * room}
<1>4. 0 \in S
    BY <1>2, <1>3
<1>5. ASSUME NEW n \in Nat, n \in S PROVE n + 1 \in S
  <2> SUFFICES ASSUME n + 1 <= Cores PROVE g[n + 1] <= (n + 1) * room
      OBVIOUS
  <2>1. n \in 0..(Cores - 1) /\ n \in 0..Cores /\ n + 1 \in 1..Cores /\ (n + 1) - 1 = n
      BY <1>1
  <2>2. g[n + 1] = g[n] + m[n] /\ g[n] <= n * room /\ m[n] <= room /\ g[n] \in Nat /\ m[n] \in Nat
      BY <1>2, <1>3, <1>5, <2>1
  <2> HIDE DEF room
  <2>3. (n + 1) * room = n * room + room /\ n * room \in Nat
      BY <1>3
  <2> QED
      BY <1>3, <2>2, <2>3
<1>6. Nat \subseteq S
  <2> HIDE DEF S
  <2> QED
      BY <1>4, <1>5, SetInduction
<1>7. g[Cores] <= Cores * room /\ g[Cores] \in Nat
    BY <1>1, <1>2, <1>6
<1>8. Cores * room = Cores * TickWord - Cores /\ Cores * TickWord \in Nat
    BY <1>1
<1> HIDE DEF room
<1>9. Cores * room < Word
    BY <1>1, <1>8, WordAssumption
<1> QED
    BY <1>2, <1>3, <1>7, <1>9, WordAssumption, <1>1, <1>8 DEF Unsigned

-----------------------------------------------------------------------------
(* Readings.                                                               *)

\* Total is no core.
LEMMA TotalApart == Total \notin Core /\ 0..(Cores - 1) = Core
BY CoresAssumption DEF Total, Core

\* A reading adds the cores it counts, and "CPU".
LEMMA ReadingStep ==
    ASSUME IInv, NEW count \in {0, Cores}, Reading(count), UNCHANGED ticks
    PROVE  /\ DOMAIN current' = DOMAIN current \cup 0..(count - 1) \cup {Total}
           /\ \A c \in 0..(count - 1) : c \in Core /\ (~cut' => current'[c] = ticks[c])
           /\ \A c \in DOMAIN current' \cap Core : current'[c] \in 0..(TickWord - 1)
           /\ since' \in [Core -> 0..MaxTicks] /\ interval' = since
           /\ cut' \in BOOLEAN /\ broken' \in BOOLEAN
           /\ ~cut' => count = Cores
           /\ ~broken' => ~cut /\ ~cut'
           /\ SinceInv' /\ SumInv'
           /\ DOMAIN current' \subseteq Name /\ current' \in [DOMAIN current' -> Unsigned]
<1>1. PICK load : /\ current' = Read(current, count, load)
                  /\ \/ load = ticks /\ cut' = (count = 0)
                     \/ cut' = TRUE /\ load = current /\ Core \subseteq DOMAIN current
  <2>1. Cores # 0
      BY CoresAssumption
  <2> QED
      BY <2>1 DEF Reading
<1>2. \A c \in 0..(count - 1) : c \in Core /\ c # Total
    BY CoresAssumption, TotalApart
<1>3. DOMAIN current' = DOMAIN current \cup 0..(count - 1) \cup {Total}
    BY <1>1 DEF Read
<1>4. ASSUME NEW c \in 0..(count - 1) PROVE current'[c] = load[c]
    BY <1>1, <1>2, <1>4 DEF Read
<1>5. ASSUME NEW c \in Core PROVE load[c] \in 0..(TickWord - 1)
    BY <1>1 DEF IInv, TypeOK
<1>6. ASSUME NEW c \in DOMAIN current' \cap Core PROVE current'[c] \in 0..(TickWord - 1)
  <2>1. CASE c \in 0..(count - 1)
      BY <1>4, <1>5, <1>6, <2>1
  <2>2. CASE c \notin 0..(count - 1)
    <3>1. c # Total /\ c \in DOMAIN current \cap Core
        BY <1>3, <1>6, <2>2, TotalApart
    <3>2. current'[c] = current[c]
        BY <1>1, <2>2, <3>1 DEF Read
    <3> QED
        BY <3>1, <3>2 DEF IInv
  <2> QED
      BY <2>1, <2>2
<1>7. /\ since' = [c \in Core |-> 0] /\ interval' = since
      /\ broken' = (cut \/ cut')
    BY DEF Reading
<1>8. cut' \in BOOLEAN /\ (~cut' => count = Cores /\ load = ticks)
    BY <1>1
<1>9. SinceInv'
  <2>1. ASSUME ~cut', NEW c \in Core
        PROVE  c \in DOMAIN current' /\ ticks'[c] = Later(current'[c], since'[c])
    <3>1. c \in 0..(count - 1) /\ load = ticks
        BY <1>8, <2>1, TotalApart
    <3>2. current'[c] = ticks[c] /\ since'[c] = 0 /\ ticks[c] \in 0..(TickWord - 1)
        BY <1>4, <1>5, <1>7, <3>1
    <3> QED
        BY <1>3, <3>1, <3>2, TickFits DEF Later
  <2> QED
      BY <2>1 DEF SinceInv
<1>10. count \in Nat /\ \A c \in 0..(count - 1) : load[c] \in Unsigned
  <2>1. ASSUME NEW c \in Core PROVE load[c] \in Unsigned
    <3>1. load[c] \in 0..(TickWord - 1)
        BY <1>5
    <3> QED
        BY <3>1, TickFits, WordAssumption DEF Unsigned
  <2> QED
      BY <1>2, <2>1, CoresAssumption
<1>11. current'[Total] = Sum(load, count) /\ Sum(load, count) \in Unsigned
  <2>1. Sum(load, count) \in Unsigned
      BY <1>10, SumStep
  <2> QED
      BY <1>1, <2>1 DEF Read
<1>12. SumInv'
  <2>1. SUFFICES ASSUME ~cut' PROVE current'[Total] = Sum(current', Cores)
      BY DEF SumInv
  <2>2. count = Cores
      BY <1>8, <2>1
  <2>3. Sum(current', count) = Sum(load, count)
      BY <1>4, <1>10, SumEqual
  <2> QED
      BY <1>11, <2>2, <2>3
<1>13. DOMAIN current' \subseteq Name
    BY <1>2, <1>3 DEF IInv, TypeOK, Name
<1>14. current' \in [DOMAIN current' -> Unsigned]
  <2>1. ASSUME NEW n \in DOMAIN current' PROVE current'[n] \in Unsigned
    <3>1. CASE n = Total
        BY <1>11, <3>1
    <3>2. CASE n \in 0..(count - 1)
        BY <1>4, <1>10, <3>2
    <3>3. CASE n # Total /\ n \notin 0..(count - 1)
      <4>1. n \in DOMAIN current /\ current'[n] = current[n]
          BY <1>1, <1>3, <2>1, <3>3 DEF Read
      <4> QED
          BY <4>1 DEF IInv, TypeOK
    <3> QED
        BY <3>1, <3>2, <3>3
  <2>2. current' = [n \in DOMAIN current' |-> current'[n]]
      BY <1>1 DEF Read
  <2> QED
      BY <2>1, <2>2
<1>15. 0 \in 0..MaxTicks
    BY BoundAssumption
<1>16. ASSUME NEW c \in 0..(count - 1) PROVE c \in Core /\ (~cut' => current'[c] = ticks[c])
    BY <1>2, <1>4, <1>8
<1>17. since' \in [Core -> 0..MaxTicks] /\ broken' \in BOOLEAN /\ (~broken' => ~cut /\ ~cut')
    BY <1>7, <1>8, <1>15 DEF IInv, TypeOK
<1> QED
    BY <1>3, <1>6, <1>7, <1>8, <1>9, <1>12, <1>13, <1>14, <1>16, <1>17

\* A copy has the names of both maps.
LEMMA CopyType ==
    ASSUME NEW dst, NEW src,
           DOMAIN dst \subseteq Name, dst \in [DOMAIN dst -> Unsigned],
           DOMAIN src \subseteq Name, src \in [DOMAIN src -> Unsigned]
    PROVE  /\ DOMAIN Copy(dst, src) \subseteq Name
           /\ Copy(dst, src) \in [DOMAIN Copy(dst, src) -> Unsigned]
BY DEF Copy

\* One core's delta, from two of its readings with s ticks between them: s
\* itself, or, when the counter began anew, what cctop's wider subtraction
\* makes of it.
LEMMA DeltaOfCore ==
    ASSUME NEW b \in 0..(TickWord - 1), NEW s \in 0..MaxTicks, NEW a, a = Later(b, s)
    PROVE  /\ b <= a => Minus(a, b) = s
           /\ b > a => Minus(a, b) = Minus(s, TickWord)
<1>1. /\ s \in Nat /\ s < TickWord /\ Word \in Nat \ {0}
      /\ TickWord \in Nat /\ TickWord <= Word /\ b \in Nat /\ b < TickWord
    BY TickFits, BoundAssumption, WordAssumption
<1>2. CASE b + s < TickWord
  <2>1. a = b + s /\ a \in Unsigned /\ b \in 0..a /\ a - b = s
      BY <1>1, <1>2 DEF Later, Unsigned
  <2> QED
      BY <1>1, <2>1, MinusExact
<1>3. CASE ~(b + s < TickWord)
  <2>1. a = (b + s) - TickWord /\ a \in Nat /\ a < b
      BY <1>1, <1>3 DEF Later
  <2>2. a + (Word - b) = s + (Word - TickWord)
      BY <1>1, <2>1
  <2>3. Minus(a, b) = Minus(s, TickWord)
      BY <2>2 DEF Minus
  <2> QED
      BY <1>1, <2>1, <2>3
<1> QED
    BY <1>2, <1>3

-----------------------------------------------------------------------------
(* The invariant.                                                          *)

LEMMA InitIInv == Init => IInv
<1> SUFFICES ASSUME Init PROVE IInv
    OBVIOUS
<1>1. Blank \in [Column -> 0..Levels] /\ Blank \in [Column -> 0..MaxAge]
    BY ShowAssumption, AgeAssumption DEF Blank
<1>2. TypeOK
    BY <1>1, BoundAssumption DEF Init, TypeOK, Empty
<1> QED
    BY <1>2 DEF Init, IInv, Empty, KeysNested, SinceInv, SumInv, UsageExact, TotalIsMean, Shown

LEMMA TickStep == ASSUME IInv, NEW c \in Core, Tick(c) PROVE IInv'
<1>1. /\ UNCHANGED <<maps, rows, pc, interval, cut, broken>>
      /\ ticks' = [ticks EXCEPT ![c] = (@ + 1) % TickWord]
      /\ since' = [since EXCEPT ![c] = @ + 1]
      /\ since[c] < MaxTicks
    BY DEF Tick
<1>2. \A t \in 0..(TickWord - 1) : (t + 1) % TickWord = IF t + 1 < TickWord THEN t + 1 ELSE 0
    BY TickAssumption
<1>3. /\ ticks[c] \in 0..(TickWord - 1)
      /\ ticks'[c] = IF ticks[c] + 1 < TickWord THEN ticks[c] + 1 ELSE 0
      /\ since'[c] = since[c] + 1 /\ since[c] \in 0..MaxTicks
      /\ \A d \in Core : d # c => ticks'[d] = ticks[d] /\ since'[d] = since[d]
    BY <1>1, <1>2 DEF IInv, TypeOK
<1>4. ticks' \in [Core -> 0..(TickWord - 1)] /\ since' \in [Core -> 0..MaxTicks]
    BY <1>1, <1>2, BoundAssumption, TickAssumption DEF IInv, TypeOK
<1>5. SinceInv'
  <2>1. ASSUME ~cut, NEW d \in Core
        PROVE  d \in DOMAIN current /\ ticks'[d] = Later(current[d], since'[d])
    <3>1. d \in DOMAIN current /\ ticks[d] = Later(current[d], since[d])
        BY <2>1 DEF IInv, SinceInv
    <3>2. current[d] \in 0..(TickWord - 1)
        BY <3>1 DEF IInv
    <3>3. CASE d = c
        BY <1>1, <1>3, <3>1, <3>2, <3>3, BoundAssumption, TickAssumption DEF Later
    <3>4. CASE d # c
        BY <1>3, <3>1, <3>4
    <3> QED
        BY <3>1, <3>3, <3>4
  <2> QED
      BY <1>1, <2>1 DEF SinceInv, maps
<1>6. TypeOK'
    BY <1>1, <1>4 DEF IInv, TypeOK, maps, rows
<1>7. SumInv' /\ TotalIsMean' /\ UsageExact' /\ KeysNested'
  <2>1. UNCHANGED <<current, last, delta, num_cores, pc, cut, broken, interval>>
      BY <1>1 DEF maps
  <2> QED
      BY <2>1 DEF IInv, SumInv, TotalIsMean, UsageExact, KeysNested, Shown
<1> QED
    BY <1>1, <1>5, <1>6, <1>7 DEF IInv, maps, rows

LEMMA ConstructorStep == ASSUME IInv, Constructor PROVE IInv'
<1>1. PICK count \in {0, Cores} : Reading(count) /\ num_cores' = count
    BY DEF Constructor
<1>2. /\ UNCHANGED <<ticks, rows>> /\ pc = "start" /\ pc' = "constructed"
      /\ last' = Copy(last, current') /\ delta' = Copy(delta, current')
    BY DEF Constructor
<1>3. DOMAIN current = {} /\ DOMAIN last = {} /\ DOMAIN delta = {}
    BY <1>2 DEF IInv
<1>4. /\ DOMAIN current' = 0..(count - 1) \cup {Total}
      /\ DOMAIN last' = DOMAIN current' /\ DOMAIN delta' = DOMAIN current'
    BY <1>1, <1>2, <1>3, ReadingStep DEF Copy
<1>5. KeysNested'
    BY <1>1, <1>4 DEF KeysNested
<1>6. TypeOK'
  <2>1. /\ DOMAIN last' \subseteq Name /\ last' \in [DOMAIN last' -> Unsigned]
        /\ DOMAIN delta' \subseteq Name /\ delta' \in [DOMAIN delta' -> Unsigned]
      BY <1>1, <1>2, ReadingStep, CopyType DEF IInv, TypeOK
  <2> QED
      BY <1>1, <1>2, <2>1, ReadingStep DEF IInv, TypeOK, rows
<1> QED
    BY <1>1, <1>2, <1>5, <1>6, ReadingStep DEF IInv, UsageExact, TotalIsMean, Shown

LEMMA UpdateStep == ASSUME IInv, Update PROVE IInv'
<1>1. PICK count \in {0, Cores} : Reading(count)
    BY DEF Update
<1>2. /\ UNCHANGED <<ticks, num_cores, rows>>
      /\ pc \in {"constructed", "idle"} /\ pc' \in {"idle", "print"}
      /\ last' = Copy(last, current)
    BY DEF Update
<1>3. /\ DOMAIN delta' = DOMAIN delta
      /\ \A n \in DOMAIN delta : n # Total => delta'[n] = Minus(current'[n], last'[n])
    BY DEF Update, Difference
<1>4. /\ DOMAIN last' = DOMAIN last \cup DOMAIN current
      /\ \A n \in DOMAIN current : last'[n] = current[n]
    BY <1>2 DEF Copy
<1>5. DOMAIN current \subseteq DOMAIN current'
    BY <1>1, <1>2, ReadingStep
<1>6. KeysNested'
    BY <1>2, <1>3, <1>4, <1>5 DEF IInv, KeysNested
<1>7. UsageExact'
  <2>1. ASSUME ~broken', NEW c \in DOMAIN delta \cap Core
        PROVE  /\ last'[c] <= current'[c] => delta'[c] = interval'[c]
               /\ last'[c] > current'[c] => delta'[c] = Minus(interval'[c], TickWord)
    <3>1. ~cut /\ ~cut' /\ count = Cores /\ interval' = since
        BY <1>1, <1>2, <2>1, ReadingStep
    <3>2. c \in DOMAIN current /\ ticks[c] = Later(current[c], since[c])
        BY <3>1 DEF IInv, SinceInv
    <3>3. current'[c] = ticks[c]
        BY <1>1, <1>2, <3>1, ReadingStep, TotalApart
    <3>4. last'[c] = current[c] /\ current[c] \in 0..(TickWord - 1)
        BY <1>4, <3>2 DEF IInv
    <3>5. since[c] \in 0..MaxTicks
        BY DEF IInv, TypeOK
    <3>6. delta'[c] = Minus(current'[c], last'[c])
        BY <1>3, TotalApart
    <3> QED
        BY <3>1, <3>2, <3>3, <3>4, <3>5, <3>6, DeltaOfCore
  <2> QED
      BY <1>3, <2>1 DEF UsageExact
<1> DEFINE diff == [n \in DOMAIN delta |-> Difference(current'[n], last'[n])]
<1>8. PICK mean \in Mean(diff[Total]) : delta' = [diff EXCEPT ![Total] = mean]
    BY DEF Update
<1>9. Total \in DOMAIN delta /\ Total \in DOMAIN current /\ DOMAIN delta \subseteq DOMAIN last
    BY <1>2 DEF IInv, KeysNested
<1>10. /\ DOMAIN last' \subseteq Name /\ last' \in [DOMAIN last' -> Unsigned]
       /\ DOMAIN current' \subseteq Name /\ current' \in [DOMAIN current' -> Unsigned]
    BY <1>1, <1>2, ReadingStep, CopyType DEF IInv, TypeOK
<1>11. diff \in [DOMAIN delta -> Unsigned]
  <2>1. ASSUME NEW n \in DOMAIN delta PROVE Minus(current'[n], last'[n]) \in Unsigned
    <3>1. n \in DOMAIN last' /\ n \in DOMAIN current'
        BY <1>3, <1>6, <1>2 DEF KeysNested
    <3>2. current'[n] \in Unsigned /\ last'[n] \in Unsigned
        BY <1>10, <3>1
    <3> QED
        BY <3>2, MinusType
  <2> QED
      BY <2>1 DEF Difference
<1>12. mean \in Unsigned /\ (num_cores > 0 => mean = diff[Total] \div num_cores)
  <2>1. diff[Total] \in Unsigned
      BY <1>9, <1>11
  <2> HIDE DEF diff
  <2>2. ASSUME NEW x \in Unsigned, NEW k \in Nat, k > 0 PROVE x \div k \in Unsigned
      BY <2>2, WordAssumption DEF Unsigned
  <2>3. 0 \in Unsigned /\ num_cores \in Nat
      BY WordAssumption, CoresAssumption DEF Unsigned, IInv, TypeOK
  <2>4. CASE num_cores > 0
      BY <1>8, <2>1, <2>2, <2>3, <2>4 DEF Mean
  <2>5. CASE ~(num_cores > 0)
      BY <1>8, <2>3, <2>5 DEF Mean
  <2> QED
      BY <2>4, <2>5
<1>13. delta' \in [DOMAIN delta' -> Unsigned] /\ delta'[Total] = mean
    BY <1>3, <1>8, <1>9, <1>11, <1>12
<1>14. TypeOK'
    BY <1>1, <1>2, <1>3, <1>10, <1>13, ReadingStep DEF IInv, TypeOK, rows
<1>15. TotalIsMean'
  <2> DEFINE sum == PlainSum(delta', Cores)
  <2> DEFINE Grew == \A c \in 0..(Cores - 1) : last'[c] <= current'[c]
  <2>1. SUFFICES ASSUME ~broken', num_cores > 0
                 PROVE  /\ Grew => delta'[Total] = sum \div Cores
                        /\ delta'[Total] = (sum % Word) \div Cores
    <3>1. num_cores' = num_cores /\ (num_cores > 0 => num_cores = Cores)
        BY <1>2, CoresAssumption DEF IInv, TypeOK
    <3> QED
        BY <3>1 DEF TotalIsMean
  <2>2. ~cut /\ ~cut' /\ num_cores = Cores
      BY <1>1, <1>2, <2>1, ReadingStep DEF IInv, TypeOK
  <2>3. /\ last'[Total] = current[Total] /\ current[Total] = Sum(current, Cores)
        /\ current'[Total] = Sum(current', Cores)
      BY <1>1, <1>2, <1>4, <1>9, <2>2, ReadingStep DEF IInv, SumInv
  <2>4. ASSUME NEW c \in 0..(Cores - 1)
        PROVE  /\ current'[c] \in Unsigned /\ current[c] \in Unsigned
               /\ delta'[c] = Minus(current'[c], current[c])
    <3>1. c \in DOMAIN delta /\ c \in DOMAIN current /\ c # Total /\ c \in DOMAIN current'
        BY <1>2, <1>5, <2>2, TotalApart DEF IInv, KeysNested, SinceInv
    <3>2. last'[c] = current[c] /\ current[c] \in Unsigned /\ current'[c] \in Unsigned
        BY <1>4, <1>10, <3>1 DEF IInv, TypeOK
    <3> QED
        BY <1>3, <3>1, <3>2
  <2>5. Cores \in Nat
      BY CoresAssumption
  <2>6. Sum(delta', Cores) = Minus(Sum(current', Cores), Sum(current, Cores))
      BY <2>4, <2>5, SumOfDifferences
  <2>7. diff[Total] = Minus(current'[Total], last'[Total])
      BY <1>9 DEF Difference
  <2>8. delta'[Total] = Sum(delta', Cores) \div Cores
      BY <1>12, <1>13, <2>1, <2>2, <2>3, <2>6, <2>7
  <2>9. \A c \in 0..(Cores - 1) : delta'[c] \in Unsigned
      BY <2>4, MinusType
  <2>10. Sum(delta', Cores) = sum % Word
      BY <2>5, <2>9, SumReduces
\* Counters that only grew: every core shows the ticks of the interval.
  <2>11. ASSUME Grew PROVE sum % Word = sum
    <3>1. ASSUME NEW c \in 0..(Cores - 1) PROVE delta'[c] \in Nat /\ delta'[c] < TickWord
      <4>1. c \in DOMAIN delta' /\ c \in Core
          BY <1>2, <1>3, <2>2, TotalApart DEF IInv, KeysNested
      <4>2. delta'[c] = interval'[c] /\ interval'[c] = since[c]
          BY <1>1, <1>2, <1>7, <2>1, <2>11, <4>1, ReadingStep DEF UsageExact, Shown
      <4>3. since[c] \in 0..MaxTicks
          BY <4>1 DEF IInv, TypeOK
      <4> QED
          BY <4>2, <4>3, BoundAssumption, TickAssumption
    <3>2. sum \in Unsigned
        BY <3>1, SumFits
    <3> QED
        BY <3>2, WordAssumption DEF Unsigned
  <2> HIDE DEF sum, Grew
  <2> QED
      BY <2>8, <2>10, <2>11
<1> QED
    BY <1>1, <1>2, <1>6, <1>7, <1>14, <1>15, ReadingStep DEF IInv, rows

\* The percentage of a row picks one of the dots.
LEMMA LevelType == \A use \in Nat : Level(use) \in 0..(Levels - 1)
<1> TAKE use \in Nat
<1>1. Full \in Nat /\ Full > 0 /\ Levels - 1 \in Nat /\ use * Levels \in Nat
    BY ShowAssumption
<1>2. \A a, f, k \in Nat : f > 0 /\ a < f * k => a \div f \in 0..k
    OBVIOUS
<1> QED
    BY <1>1, <1>2 DEF Level

\* A row that is printed gets an entry in the last column, and those it had
\* move to the left.
LEMMA AddHistoryColumns ==
    ASSUME NEW N \in Nat, NEW h \in [Column -> 0..N], NEW entry \in 0..N
    PROVE  /\ AddHistory(h, entry) \in [Column -> 0..N]
           /\ AddHistory(h, entry)[HistorySize] = entry
           /\ \A k \in Column : k # HistorySize =>
                  k + 1 \in Column /\ AddHistory(h, entry)[k] = h[k + 1]
<1>1. HistorySize \in Column
    BY ShowAssumption DEF Column
<1>2. \A k \in Column : k # HistorySize => k + 1 \in Column
    BY ShowAssumption DEF Column
<1> QED
    BY <1>1, <1>2 DEF AddHistory

\* With each refresh the entries are one refresh older, as far as ages go.
LEMMA OlderColumns ==
    ASSUME NEW ages \in [Column -> 0..MaxAge]
    PROVE  /\ Older(ages) \in [Column -> 0..MaxAge]
           /\ \A k \in Column :
                  Older(ages)[k] = IF ages[k] \in 1..(MaxAge - 1) THEN ages[k] + 1 ELSE ages[k]
BY AgeAssumption DEF Older

\* What print() makes of the history of a name, if it prints its row and if not.
Printed(n) ==
    /\ \A k \in Column \ {HistorySize} :
           history'[n][k] = history[n][k + 1] /\ seen'[n][k] = Older(seen[n])[k + 1]
    /\ history'[n][HistorySize] # 0 /\ seen'[n][HistorySize] = 1

NotPrinted(n) == history'[n] = history[n] /\ seen'[n] = Older(seen[n])

LEMMA PrintRowsColumns ==
    ASSUME IInv, PrintRows
    PROVE  /\ history' \in [Name -> [Column -> 0..Levels]]
           /\ seen' \in [Name -> [Column -> 0..MaxAge]]
           /\ Total \in Name /\ Printed(Total)
           /\ \/ \A c \in 0..(num_cores - 1) : Printed(c)
              \/ \A c \in 0..(num_cores - 1) : NotPrinted(c)
           /\ \A n \in Name : Printed(n) \/ NotPrinted(n)
<1>1. PICK condenseCPU \in BOOLEAN :
        LET printed == {Total} \cup (IF condenseCPU THEN {} ELSE 0..(num_cores - 1)) IN
        /\ history' = [n \in Name |-> IF n \in printed
                                      THEN AddHistory(history[n], Level(delta[n]) + 1)
                                      ELSE history[n]]
        /\ seen' = [n \in Name |-> IF n \in printed
                                   THEN AddHistory(Older(seen[n]), 1)
                                   ELSE Older(seen[n])]
    BY DEF PrintRows
<1> DEFINE printed == {Total} \cup (IF condenseCPU THEN {} ELSE 0..(num_cores - 1))
<1>2. 0..(num_cores - 1) \subseteq Name /\ Total \in Name /\ Total \notin 0..(num_cores - 1)
    BY CoresAssumption, TotalApart DEF IInv, TypeOK, Name
<1>3. printed \subseteq Name /\ printed \subseteq DOMAIN delta
    BY <1>2 DEF IInv, KeysNested, PrintRows
<1>4. ASSUME NEW n \in Name
      PROVE  history[n] \in [Column -> 0..Levels] /\ Older(seen[n]) \in [Column -> 0..MaxAge]
    BY OlderColumns DEF IInv, TypeOK
<1>5. ASSUME NEW n \in printed
      PROVE  /\ history'[n] \in [Column -> 0..Levels] /\ seen'[n] \in [Column -> 0..MaxAge]
             /\ Printed(n)
  <2> DEFINE entry == Level(delta[n]) + 1
  <2> DEFINE age == 1
  <2> DEFINE h == history[n]
  <2> DEFINE older == Older(seen[n])
  <2>1. delta[n] \in Nat
      BY <1>3, WordAssumption DEF IInv, TypeOK, Unsigned
  <2>2. entry \in 0..Levels /\ entry # 0
      BY <2>1, LevelType, ShowAssumption
  <2>3. age \in 0..MaxAge
      BY AgeAssumption, ShowAssumption
  <2>4. n \in Name
      BY <1>3
  <2>5. history'[n] = AddHistory(h, entry)
      BY <1>1, <2>4
  <2>6. seen'[n] = AddHistory(older, age)
      BY <1>1, <2>4
  <2>7. h \in [Column -> 0..Levels] /\ Levels \in Nat
      BY <1>4, <2>4, ShowAssumption
  <2>8. older \in [Column -> 0..MaxAge] /\ MaxAge \in Nat
      BY <1>4, <2>4, AgeAssumption
  <2> HIDE DEF printed
  <2>9. /\ history'[n] \in [Column -> 0..Levels] /\ history'[n][HistorySize] = entry
        /\ \A k \in Column \ {HistorySize} : history'[n][k] = h[k + 1]
    <3> HIDE DEF h, entry, age, older
    <3> QED
        BY <2>2, <2>5, <2>7, AddHistoryColumns
  <2>10. /\ seen'[n] \in [Column -> 0..MaxAge] /\ seen'[n][HistorySize] = age
         /\ \A k \in Column \ {HistorySize} : seen'[n][k] = older[k + 1]
    <3> HIDE DEF h, entry, age, older
    <3> QED
        BY <2>3, <2>6, <2>8, AddHistoryColumns
  <2> HIDE DEF entry
  <2> QED
      BY <2>2, <2>9, <2>10 DEF Printed
<1>6. ASSUME NEW n \in Name, n \notin printed
      PROVE  /\ history'[n] \in [Column -> 0..Levels] /\ seen'[n] \in [Column -> 0..MaxAge]
             /\ NotPrinted(n)
    BY <1>1, <1>4, <1>6 DEF NotPrinted
<1>7. \/ \A c \in 0..(num_cores - 1) : c \in printed
      \/ \A c \in 0..(num_cores - 1) : c \in Name /\ c \notin printed
    BY <1>2
<1>8. Total \in printed
    OBVIOUS
<1>9. history' = [n \in Name |-> history'[n]] /\ seen' = [n \in Name |-> seen'[n]]
    BY <1>1
<1> HIDE DEF printed
<1>10. \A n \in Name : /\ history'[n] \in [Column -> 0..Levels]
                       /\ seen'[n] \in [Column -> 0..MaxAge]
                       /\ Printed(n) \/ NotPrinted(n)
    BY <1>5, <1>6
<1>11. /\ history' \in [Name -> [Column -> 0..Levels]]
       /\ seen' \in [Name -> [Column -> 0..MaxAge]]
    BY <1>9, <1>10
<1> QED
    BY <1>2, <1>5, <1>6, <1>7, <1>8, <1>10, <1>11

\* The other steps leave the counters alone.
LEMMA PrintRowsStep == ASSUME IInv, PrintRows PROVE IInv'
<1>1. UNCHANGED <<ticks, maps, ghosts>> /\ pc = "print" /\ pc' = "idle"
    BY DEF PrintRows
<1>2. TypeOK'
    BY <1>1, PrintRowsColumns DEF IInv, TypeOK, maps, ghosts
<1> QED
    BY <1>1, <1>2
    DEF IInv, KeysNested, SinceInv, SumInv, UsageExact, TotalIsMean, Shown, maps, ghosts

LEMMA CrashStep ==
    ASSUME IInv, ReadCrashes \/ UpdateTraps \/ UNCHANGED vars
    PROVE  IInv'
<1>1. UNCHANGED <<ticks, maps, ghosts, rows>> /\ (pc' = pc \/ pc' = "crashed")
    BY DEF ReadCrashes, UpdateTraps, vars
<1>2. TypeOK'
    BY <1>1 DEF IInv, TypeOK, maps, ghosts, rows
<1> QED
    BY <1>1, <1>2
    DEF IInv, KeysNested, SinceInv, SumInv, UsageExact, TotalIsMean, Shown, maps, ghosts, rows

LEMMA NextIInv == IInv /\ [Next]_vars => IInv'
<1> SUFFICES ASSUME IInv, [Next]_vars PROVE IInv'
    OBVIOUS
<1>1. ASSUME NEW c \in Core, Tick(c) PROVE IInv'
    BY <1>1, TickStep
<1>2. CASE Constructor
    BY <1>2, ConstructorStep
<1>3. CASE Update
    BY <1>3, UpdateStep
<1>4. CASE PrintRows
    BY <1>4, PrintRowsStep
<1>5. CASE ReadCrashes \/ UpdateTraps \/ UNCHANGED vars
    BY <1>5, CrashStep
<1> QED
    BY <1>1, <1>2, <1>3, <1>4, <1>5 DEF Next, Monitor

\* The maps and the kernel's counters agree as far as the next step relies on
\* it.
THEOREM InductiveInvariant == Spec => []IInv
BY InitIInv, NextIInv, PTL DEF Spec

\* The variables of the model stay in their ranges: above all, no counter or
\* difference leaves 64 bits, and no history its columns or its dots.
THEOREM TypeCorrect == Spec => []TypeOK
<1>1. IInv => TypeOK
    BY DEF IInv
<1> QED
    BY <1>1, InductiveInvariant, PTL

\* update() and print() find every name they look up, also after readings that
\* failed.
THEOREM KeysNestedHolds == Spec => []KeysNested
<1>1. IInv => KeysNested
    BY DEF IInv
<1> QED
    BY <1>1, InductiveInvariant, PTL

\* What is shown of a core is the ticks it was busy between the last two
\* readings, up to the one difference a wrapped 32-bit counter makes.
THEOREM UsageExactHolds == Spec => []UsageExact
<1>1. IInv => UsageExact
    BY DEF IInv
<1> QED
    BY <1>1, InductiveInvariant, PTL

\* What is shown of "CPU", which is computed from the sums of the counters, is
\* the mean of what is shown of the cores, unless counters began anew; then it
\* is the mean of what is left of their sum in 64 bits.
THEOREM TotalIsMeanHolds == Spec => []TotalIsMean
<1>1. IInv => TotalIsMean
    BY DEF IInv
<1> QED
    BY <1>1, InductiveInvariant, PTL

-----------------------------------------------------------------------------
(* The histories.                                                          *)

\* When rows are printed, those of "CPU" among them, every column stays about
\* the refreshes it should be about.
LEMMA PrintRowsAligned == ASSUME IInv, HistoriesAligned, PrintRows PROVE HistoriesAligned'
<1>1. num_cores' = num_cores
    BY DEF PrintRows, maps
<1>2. 0..(num_cores - 1) \subseteq Core /\ Core \subseteq Name /\ Total \in Name
    BY CoresAssumption, TotalApart DEF IInv, TypeOK, Name
<1>3. /\ HistorySize \in Nat /\ HistorySize \in Column /\ MaxAge \in Nat /\ MaxAge > HistorySize
      /\ \A k \in Column : k \in Nat /\ k >= 1 /\ k <= HistorySize
      /\ \A k \in Column : k # HistorySize => k + 1 \in Column /\ k \in Column \ {HistorySize}
      /\ \A k \in Column : k..HistorySize \subseteq Column
    BY ShowAssumption, AgeAssumption DEF Column
<1>4. \A k \in Column : Age(k) \in 1..(MaxAge - 1) /\ (k # HistorySize => Age(k) = Age(k + 1) + 1)
    BY <1>3 DEF Age
<1>5. Age(HistorySize) = 1
    BY <1>3 DEF Age
<1>6. ASSUME NEW n \in Name, NEW k \in Column
      PROVE  /\ seen[n][k] \in 0..MaxAge
             /\ Older(seen[n])[k] = IF seen[n][k] \in 1..(MaxAge - 1) THEN seen[n][k] + 1
                                                                      ELSE seen[n][k]
  <2>1. seen[n] \in [Column -> 0..MaxAge]
      BY DEF IInv, TypeOK
  <2> QED
      BY <2>1, OlderColumns
<1>7. ASSUME NEW n \in Name, NEW k \in Column
      PROVE  /\ Older(seen[n])[k] = 0 <=> seen[n][k] = 0
             /\ Older(seen[n])[k] \in Nat /\ Older(seen[n])[k] >= seen[n][k]
             /\ \A a \in 1..(MaxAge - 1) : seen[n][k] = a => Older(seen[n])[k] = a + 1
             /\ \A a \in 1..(MaxAge - 1) : seen[n][k] >= a => Older(seen[n])[k] >= a + 1
    BY <1>3, <1>6
<1>8. /\ \A n \in Name : \A k \in Column : history[n][k] = 0 <=> seen[n][k] = 0
      /\ \A n \in Name : \A k \in Column :
             seen[n][k] # 0 => \A j \in k..HistorySize : seen[n][j] # 0
      /\ \A c, d \in 0..(num_cores - 1) : seen[c] = seen[d]
      /\ \A k \in Column : seen[Total][k] # 0 => seen[Total][k] = Age(k)
      /\ \A c \in Core : \A k \in Column :
             seen[c][k] # 0 => seen[Total][k] # 0 /\ seen[c][k] >= Age(k)
    BY DEF HistoriesAligned
<1>9. \A n \in Name : Printed(n) \/ NotPrinted(n)
    BY PrintRowsColumns
<1>10. Printed(Total)
    BY PrintRowsColumns
\* Blanks are where no entry was shown.
<1>11. ASSUME NEW n \in Name, NEW k \in Column
       PROVE  history'[n][k] = 0 <=> seen'[n][k] = 0
  <2>1. CASE Printed(n) /\ k = HistorySize
      BY <2>1 DEF Printed
  <2>2. CASE Printed(n) /\ k # HistorySize
      BY <1>3, <1>7, <1>8, <2>2 DEF Printed
  <2>3. CASE NotPrinted(n)
      BY <1>7, <1>8, <2>3 DEF NotPrinted
  <2> QED
      BY <1>9, <2>1, <2>2, <2>3
\* No gaps.
<1>12. ASSUME NEW n \in Name, NEW k \in Column, seen'[n][k] # 0, NEW j \in k..HistorySize
       PROVE  seen'[n][j] # 0
  <2>1. j \in Column /\ k \in Nat /\ j \in Nat /\ k <= j /\ j <= HistorySize
      BY <1>3
  <2>2. CASE Printed(n) /\ j = HistorySize
      BY <2>2 DEF Printed
  <2>3. CASE Printed(n) /\ j # HistorySize
    <3>1. k # HistorySize /\ k + 1 \in Column /\ j + 1 \in Column /\ j + 1 \in (k + 1)..HistorySize
        BY <1>3, <2>1, <2>3
    <3>2. seen'[n][k] = Older(seen[n])[k + 1] /\ seen'[n][j] = Older(seen[n])[j + 1]
        BY <1>3, <2>1, <2>3, <3>1 DEF Printed
    <3>3. seen[n][k + 1] # 0
        BY <1>7, <1>12, <3>1, <3>2
    <3>4. seen[n][j + 1] # 0
        BY <1>8, <3>1, <3>3
    <3> QED
        BY <1>7, <3>1, <3>2, <3>4
  <2>4. CASE NotPrinted(n)
      BY <1>7, <1>8, <1>12, <2>1, <2>4 DEF NotPrinted
  <2> QED
      BY <1>9, <2>2, <2>3, <2>4
\* The cores are printed together or not at all.
<1>13. ASSUME NEW c \in 0..(num_cores - 1), NEW d \in 0..(num_cores - 1)
       PROVE  seen'[c] = seen'[d]
  <2>1. seen[c] = seen[d] /\ c \in Name /\ d \in Name
      BY <1>2, <1>8
  <2>2. CASE NotPrinted(c) /\ NotPrinted(d)
      BY <2>1, <2>2 DEF NotPrinted
  <2>3. CASE Printed(c) /\ Printed(d)
    <3>1. ASSUME NEW k \in Column PROVE seen'[c][k] = seen'[d][k]
        BY <2>1, <2>3, <3>1 DEF Printed
    <3>2. seen'[c] \in [Column -> 0..MaxAge] /\ seen'[d] \in [Column -> 0..MaxAge]
        BY <2>1, PrintRowsColumns
    <3> QED
        BY <3>1, <3>2
  <2> QED
      BY <2>2, <2>3, PrintRowsColumns
\* "CPU" is printed with every refresh.
<1>14. ASSUME NEW k \in Column, seen'[Total][k] # 0
       PROVE  seen'[Total][k] = Age(k)
  <2>1. CASE k = HistorySize
      BY <1>5, <1>10, <2>1 DEF Printed
  <2>2. CASE k # HistorySize
    <3>1. k + 1 \in Column /\ seen'[Total][k] = Older(seen[Total])[k + 1]
        BY <1>3, <1>10, <2>2 DEF Printed
    <3>2. seen[Total][k + 1] # 0
        BY <1>2, <1>7, <1>14, <3>1
    <3>3. seen[Total][k + 1] = Age(k + 1) /\ Age(k + 1) \in 1..(MaxAge - 1)
        BY <1>4, <1>8, <3>1, <3>2
    <3> QED
        BY <1>2, <1>4, <1>7, <2>2, <3>1, <3>3
  <2> QED
      BY <2>1, <2>2
<1>15. ASSUME NEW c \in Core, NEW k \in Column, seen'[c][k] # 0
       PROVE  seen'[Total][k] # 0 /\ seen'[c][k] >= Age(k)
  <2>1. c \in Name
      BY <1>2
  <2>2. CASE k = HistorySize
    <3>1. seen'[Total][k] = 1 /\ Age(k) = 1
        BY <1>5, <1>10, <2>2 DEF Printed
    <3>2. seen'[c][k] \in Nat
      <4>1. seen'[c] \in [Column -> 0..MaxAge]
          BY <2>1, PrintRowsColumns
      <4> QED
          BY <4>1
    <3> QED
        BY <1>15, <3>1, <3>2
  <2>3. CASE k # HistorySize
    <3>1. k + 1 \in Column /\ seen'[Total][k] = Older(seen[Total])[k + 1]
        BY <1>3, <1>10, <2>3 DEF Printed
    <3>2. CASE Printed(c)
      <4>1. seen'[c][k] = Older(seen[c])[k + 1]
          BY <1>3, <2>3, <3>2 DEF Printed
      <4>2. seen[c][k + 1] # 0
          BY <1>7, <1>15, <2>1, <3>1, <4>1
      <4>3. seen[Total][k + 1] # 0 /\ seen[c][k + 1] >= Age(k + 1) /\ Age(k + 1) \in 1..(MaxAge - 1)
          BY <1>4, <1>8, <3>1, <4>2
      <4>4. Age(k) = Age(k + 1) + 1
          BY <1>4, <2>3
      <4> QED
          BY <1>2, <1>7, <2>1, <3>1, <4>1, <4>3, <4>4
    <3>3. CASE NotPrinted(c)
      <4>1. seen'[c][k] = Older(seen[c])[k]
          BY <3>3 DEF NotPrinted
      <4>2. seen[c][k] # 0
          BY <1>7, <1>15, <2>1, <4>1
      <4>3. seen[Total][k] # 0 /\ seen[c][k] >= Age(k) /\ Age(k) \in Nat
          BY <1>4, <1>8, <4>2
      <4>4. k + 1 \in k..HistorySize
          BY <1>3, <2>3
      <4>5. seen[Total][k + 1] # 0
          BY <1>2, <1>8, <4>3, <4>4
      <4>6. Older(seen[c])[k] >= seen[c][k] /\ seen[c][k] \in Nat /\ Older(seen[c])[k] \in Nat
          BY <1>6, <1>7, <2>1
      <4>7. Older(seen[Total])[k + 1] # 0
          BY <1>2, <1>7, <3>1, <4>5
      <4> QED
          BY <3>1, <4>1, <4>3, <4>6, <4>7
    <3> QED
        BY <1>9, <2>1, <3>2, <3>3
  <2> QED
      BY <2>2, <2>3
<1> QED
    BY <1>1, <1>11, <1>12, <1>13, <1>14, <1>15 DEF HistoriesAligned

LEMMA AlignedStep == IInv /\ HistoriesAligned /\ [Next]_vars => HistoriesAligned'
<1> SUFFICES ASSUME IInv, HistoriesAligned, [Next]_vars PROVE HistoriesAligned'
    OBVIOUS
<1>1. CASE PrintRows
    BY <1>1, PrintRowsAligned
\* The constructor counts the cores while all histories are blank.
<1>2. CASE Constructor
  <2>1. /\ history' = [n \in Name |-> Blank] /\ seen' = [n \in Name |-> Blank]
        /\ num_cores' \in {0, Cores}
      BY <1>2 DEF Constructor, IInv, rows
  <2>2. \A k \in Column : Blank[k] = 0
      BY DEF Blank
  <2>3. Core \subseteq Name /\ 0..(num_cores' - 1) \subseteq Name /\ Total \in Name
    <3>1. \A k \in {0, Cores} : 0..(k - 1) \subseteq 0..(Cores - 1)
      <4>1. \A c \in 0..(0 - 1) : FALSE
          OBVIOUS
      <4> QED
          BY <4>1
    <3>2. 0..(num_cores' - 1) \subseteq 0..(Cores - 1)
        BY <2>1, <3>1
    <3> QED
        BY <3>2, TotalApart DEF Name
  <2> QED
      BY <2>1, <2>2, <2>3 DEF HistoriesAligned
<1>3. CASE UNCHANGED <<rows, num_cores>>
    BY <1>3 DEF HistoriesAligned, rows
<1>4. [Next]_vars => PrintRows \/ Constructor \/ UNCHANGED <<rows, num_cores>>
    BY DEF Next, Monitor, Tick, ReadCrashes, Update, UpdateTraps, vars, maps
<1> QED
    BY <1>1, <1>2, <1>3, <1>4

\* A column of the cores' histories is about one refresh, whichever core; those
\* of "CPU" are about the last refreshes, and a column of the cores is about the
\* same one or, after the section was condensed, an earlier one.
THEOREM HistoriesAlignedHolds == Spec => []HistoriesAligned
<1>1. Init => HistoriesAligned
  <2> SUFFICES ASSUME Init PROVE HistoriesAligned
      OBVIOUS
  <2>1. \A k \in Column : Blank[k] = 0
      BY DEF Blank
  <2>2. \A n \in Name : history[n] = Blank /\ seen[n] = Blank
      BY DEF Init
  <2>3. Core \subseteq Name /\ Total \in Name /\ 0..(num_cores - 1) = {}
      BY DEF Name, Init
  <2> QED
      BY <2>1, <2>2, <2>3 DEF HistoriesAligned
<1> QED
    BY <1>1, AlignedStep, InductiveInvariant, PTL DEF Spec

=============================================================================
