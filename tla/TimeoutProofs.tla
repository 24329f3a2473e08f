---------------------------- MODULE TimeoutProofs -----------------------------
(***************************************************************************)
(* TLAPS proofs about TimeoutQ, for any number of timeouts, lists of the   *)
(* wheel, width of a slot and of int: the wheel implements TimeoutSet, and *)
(* the timer comes in time.                                                *)
(***************************************************************************)
EXTENDS TimeoutQ, SequenceTheorems, WellFoundedInduction, TLAPS

-------------------------------------------------------------------------------
(* Arithmetic *)

\* Division with remainder.
LEMMA DivMod ==
  ASSUME NEW a \in Int, NEW b \in Nat \ {0}
  PROVE  a \div b \in Int /\ a % b \in 0 .. b - 1 /\ a = b * (a \div b) + (a % b)
OBVIOUS

\* Quotient and remainder are unique.
LEMMA ModUnique ==
  ASSUME NEW b \in Nat \ {0}, NEW k \in Int, NEW r \in 0 .. b - 1
  PROVE  (b * k + r) % b = r /\ (b * k + r) \div b = k
<1> DEFINE x == b * k + r
           d == x \div b
           m == x % b
<1>0. x \in Int OBVIOUS
<1> HIDE DEF x
<1>a. x \in Int /\ d \in Int /\ m \in 0 .. b - 1 /\ x = b * d + m BY Zenon, <1>0, DivMod
<1> USE DEF x
<1>1. x \in Int /\ d \in Int /\ m \in 0 .. b - 1 /\ x = b * d + m BY Zenon, <1>a
<1> HIDE DEF d, m
<1>2. b * (k - d) = m - r BY <1>1
<1>3. k - d <= 0
  <2>1. SUFFICES ASSUME k - d >= 1 PROVE FALSE BY <1>1
  <2>2. b * (k - d) >= b BY <2>1, <1>1
  <2> QED BY <2>2, <1>1, <1>2
<1>4. k - d >= 0
  <2>1. SUFFICES ASSUME k - d <= -1 PROVE FALSE BY <1>1
  <2>2. b * (k - d) <= -b BY <2>1, <1>1
  <2> QED BY <2>2, <1>1, <1>2
<1>5. k = d BY <1>1, <1>3, <1>4
<1> QED BY <1>1, <1>5 DEF d, m

\* Multiples of the divisor do not count.
LEMMA ModShift ==
  ASSUME NEW b \in Nat \ {0}, NEW k \in Int, NEW x \in Int
  PROVE  (x + b * k) % b = x % b
<1> DEFINE d == x \div b
           m == x % b
<1>1. d \in Int /\ m \in 0 .. b - 1 /\ x = b * d + m BY Zenon, DivMod
<1> HIDE DEF d, m
<1>2. x + b * k = b * (d + k) + m BY <1>1
<1>3. (b * (d + k) + m) % b = m BY <1>1, ModUnique
<1> QED BY Zenon, <1>2, <1>3 DEF m

\* A number below b is its own remainder.
LEMMA ModSmall == ASSUME NEW b \in Nat \ {0}, NEW x \in 0 .. b - 1 PROVE x % b = x
OBVIOUS

\* Later times are in later slots, and a delay of d passes at most d / s + 1 slots.
LEMMA DivMonotone ==
  ASSUME NEW s \in Nat \ {0}, NEW x \in Nat, NEW y \in Nat, x <= y
  PROVE  /\ x \div s \in Nat /\ y \div s \in Nat /\ x \div s <= y \div s
         /\ y \div s - x \div s <= (y - x) \div s + 1
<1> DEFINE dx == x \div s
           dy == y \div s
           dz == (y - x) \div s
<1> DEFINE mx == x % s
           my == y % s
           mz == (y - x) % s
<1>1. y - x \in Int OBVIOUS
<1>2. mx \in 0 .. s - 1 /\ my \in 0 .. s - 1 /\ mz \in 0 .. s - 1 BY <1>1, DivMod
<1>3. x = s * dx + mx /\ y = s * dy + my /\ y - x = s * dz + mz
  <2>1. x = s * dx + mx BY DivMod
  <2>2. y = s * dy + my BY DivMod
  <2>3. y - x = s * dz + mz BY Zenon, <1>1, DivMod
  <2> QED BY Zenon, <2>1, <2>2, <2>3
<1>4. dx \in Int /\ dy \in Int /\ dz \in Int BY <1>1, DivMod
<1> HIDE DEF dx, dy, dz, mx, my, mz
<1>5. dx >= 0
  <2>1. SUFFICES ASSUME dx <= -1 PROVE FALSE BY <1>4
  <2>2. s * dx <= -s BY <2>1, <1>4
  <2> QED BY <2>2, <1>2, <1>3, <1>4
<1>6. dx <= dy
  <2>1. SUFFICES ASSUME dy - dx <= -1 PROVE FALSE BY <1>4
  <2>2. s * (dy - dx) <= -s BY <2>1, <1>4
  <2>3. s * (dy - dx) = (y - x) + mx - my BY <1>2, <1>3, <1>4
  <2> QED BY <2>2, <2>3, <1>2
<1>7. dy - dx <= dz + 1
  <2>1. SUFFICES ASSUME dy - dx - dz >= 2 PROVE FALSE BY <1>4
  <2>2. s * (dy - dx - dz) >= 2 * s BY <2>1, <1>4
  <2>3. s * (dy - dx - dz) = mz + mx - my BY <1>2, <1>3, <1>4
  <2> QED BY <2>2, <2>3, <1>2
<1> QED BY <1>4, <1>5, <1>6, <1>7 DEF dx, dy, dz

-------------------------------------------------------------------------------
(* The lists that do_timeouts() visits *)

\* The number of values of int is an even multiple of the number of lists.
LEMMA IntsAre ==
  ASSUME IsSystem(sys)
  PROVE  \E h \in Nat : sys.ints = 2 * h /\ sys.ints \div 2 = h /\ \E c \in Nat : h = sys.queues * c
<1> DEFINE n == sys.ints
           p == sys.queues
           c == n \div (2 * p)
<1>1. n \in Nat \ {0} /\ p \in Nat \ {0} /\ n % (2 * p) = 0 BY Zenon DEF IsSystem
<1> HIDE DEF n, p
<1>2. 2 * p \in Nat \ {0} BY <1>1
<1>3. c \in Int /\ n = (2 * p) * c
  <2>1. n \in Int BY <1>1
  <2>2. c \in Int /\ n = (2 * p) * c + (n % (2 * p)) BY Zenon, <2>1, <1>2, DivMod
  <2> HIDE DEF c
  <2> QED BY <2>1, <2>2, <1>1, <1>2
<1> HIDE DEF c
<1>4. c \in Nat
  <2>1. SUFFICES ASSUME c <= -1 PROVE FALSE BY <1>3
  <2>2. (2 * p) * c <= -(2 * p) BY <2>1, <1>2, <1>3
  <2> QED BY <2>2, <1>1, <1>3
<1>5. p * c \in Nat /\ n = 2 * (p * c) BY <1>1, <1>3, <1>4
<1>6. n \div 2 = p * c BY <1>1, <1>5
<1> QED BY Zenon, <1>4, <1>5, <1>6 DEF n, p

\* A conversion to int changes a number by a multiple of the number of values.
LEMMA ToIntShifts ==
  ASSUME IsSystem(sys), NEW x \in Int
  PROVE  \E k \in Int : ToInt(x) = x + sys.ints * k
<1> DEFINE n == sys.ints
           h == n \div 2
           d == (x + h) \div n
           m == (x + h) % n
<1>1. n \in Nat \ {0} BY Zenon DEF IsSystem
<1>2. h \in Nat BY Zenon, IntsAre
<1> HIDE DEF n, h
<1>3. x + h \in Int BY <1>2
<1>4. d \in Int /\ m \in 0 .. n - 1 /\ x + h = n * d + m BY Zenon, <1>1, <1>3, DivMod
<1>5. ToInt(x) = m - h BY Zenon DEF ToInt, n, h
<1> HIDE DEF d, m
<1>6. m - h = x + n * (-d) /\ -d \in Int BY <1>1, <1>2, <1>4
<1> QED BY Zenon, <1>5, <1>6 DEF n

\* It keeps the numbers from 0 up to the largest int, whatever the high bits are.
LEMMA ToIntKeeps ==
  ASSUME IsSystem(sys), NEW x \in Nat, x < sys.ints \div 2, NEW k \in Int
  PROVE  ToInt(x + sys.ints * k) = x
<1> DEFINE n == sys.ints
           h == n \div 2
<1>1. n \in Nat \ {0} BY Zenon DEF IsSystem
<1>2. h \in Nat /\ n = 2 * h BY Zenon, IntsAre
<1>3. x < h OBVIOUS
<1>4. ToInt(x + n * k) = ((x + n * k + h) % n) - h BY Zenon DEF ToInt
<1> HIDE DEF n, h
<1>5. x + n * k + h = n * k + (x + h) /\ x + h \in 0 .. n - 1 BY <1>1, <1>2, <1>3
<1>6. (n * k + (x + h)) % n = x + h BY Zenon, <1>1, <1>5, ModUnique
<1> QED BY <1>2, <1>4, <1>5, <1>6 DEF n

\* A conversion to int does not change the list.
LEMMA IndexToInt ==
  ASSUME IsSystem(sys), NEW x \in Int
  PROVE  Index(ToInt(x)) = Index(x) /\ ToInt(x) \in Int
<1>1. PICK k \in Int : ToInt(x) = x + sys.ints * k BY Zenon, ToIntShifts
<1>2. PICK h \in Nat : sys.ints = 2 * h /\ \E c \in Nat : h = sys.queues * c BY Zenon, IntsAre
<1>3. PICK c \in Nat : h = sys.queues * c BY Zenon, <1>2
<1> DEFINE p == sys.queues
<1>4. p \in Nat \ {0} BY Zenon DEF IsSystem
<1>5. ToInt(x) = x + p * (2 * c * k) /\ 2 * c * k \in Int
  <2>1. ToInt(x) = x + (2 * (p * c)) * k BY Zenon, <1>1, <1>2, <1>3
  <2> HIDE DEF p
  <2>2. (2 * (p * c)) * k = p * (2 * c * k) /\ 2 * c * k \in Int BY <1>4
  <2> QED BY Zenon, <2>1, <2>2
<1>6. (x + p * (2 * c * k)) % p = x % p BY Zenon, <1>4, <1>5, ModShift
<1>7. p * (2 * c * k) \in Int BY <1>4, <1>5
<1> QED BY <1>5, <1>6, <1>7 DEF Index

\* The interrupt is never held up for so long that int overflows.
Punctual == clock \in Nat /\ old_clock \in 0 .. clock /\ clock - old_clock <= sys.maxdelay

\* _old_clock is not in a later slot than the clock, and fewer slots lie between them than
\* half the values of int.
LEMMA SlotsPass ==
  ASSUME IsSystem(sys), Punctual
  PROVE  /\ Slot(old_clock) \in Nat /\ Slot(clock) \in Nat /\ Slot(old_clock) <= Slot(clock)
         /\ Slot(clock) - Slot(old_clock) < sys.ints \div 2
<1> DEFINE s == sys.slot
           d == sys.maxdelay
<1>1. s \in Nat \ {0} /\ d \in Nat BY Zenon DEF IsSystem
<1>2. old_clock \in Nat /\ clock \in Nat /\ old_clock <= clock BY DEF Punctual
<1>3. clock - old_clock \in Nat /\ clock - old_clock <= d BY <1>2 DEF Punctual
<1> HIDE DEF s, d
<1>4. /\ old_clock \div s \in Nat /\ clock \div s \in Nat /\ old_clock \div s <= clock \div s
      /\ clock \div s - old_clock \div s <= (clock - old_clock) \div s + 1
  BY Zenon, <1>1, <1>2, DivMonotone
<1>5. /\ (clock - old_clock) \div s <= d \div s
      /\ (clock - old_clock) \div s \in Nat /\ d \div s \in Nat
  BY Zenon, <1>1, <1>3, DivMonotone
<1>6. d \div s + 1 < sys.ints \div 2 BY Zenon DEF IsSystem, d, s
<1>7. sys.ints \div 2 \in Nat BY Zenon, IntsAre
<1>8. /\ Slot(old_clock) = old_clock \div s /\ Slot(clock) = clock \div s BY Zenon DEF Slot, s
<1> QED BY <1>4, <1>5, <1>6, <1>7, <1>8

\* The slots up to the last one that has begun are n after the first one; the loop of
\* do_timeouts() visits n + 1 lists, or all.
LEMMA VisitedIs ==
  ASSUME IsSystem(sys), Punctual
  PROVE  LET n == Slot(clock) - Slot(old_clock) IN
         IF n >= sys.queues THEN Visited = {Index(0 + k) : k \in 0 .. sys.queues - 1}
         ELSE Visited = {Index(Index(Slot(old_clock)) + k) : k \in 0 .. n}
<1> DEFINE a == Slot(old_clock)
           b == Slot(clock)
           n == b - a
           p == sys.queues
           start == ToInt(a)
           diff == ToInt(b - start)
           end == Index(ToInt(start + diff + 1))
<1>1. a \in Nat /\ b \in Nat /\ a <= b /\ n < sys.ints \div 2 /\ p \in Nat \ {0}
  BY Zenon, SlotsPass DEF IsSystem
<1>2. PICK k \in Int : start = a + sys.ints * k
  <2>1. a \in Int BY <1>1
  <2> QED BY Zenon, <2>1, ToIntShifts
<1>3. sys.ints \in Nat BY Zenon DEF IsSystem
<1> HIDE DEF a, b, p
<1>4. diff = n
  <2>1. b - start = n + sys.ints * (-k) /\ n \in Nat /\ -k \in Int BY <1>1, <1>2, <1>3
  <2> HIDE DEF n, start
  <2> QED BY Zenon, <2>1, <1>1, ToIntKeeps
<1>5. Index(start) = Index(a) /\ start \in Int
  <2>1. a \in Int BY <1>1
  <2> QED BY Zenon, <2>1, IndexToInt
<1>6. end = Index(start + n + 1)
  <2>1. start + diff + 1 \in Int BY <1>1, <1>4, <1>5
  <2> QED BY Zenon, <2>1, <1>4, IndexToInt
<1> HIDE DEF start, diff, end, n
<1>7. Visited = {Index((IF diff >= p THEN 0 ELSE Index(start)) + j) :
        j \in 0 .. Index((IF diff >= p THEN 0 ELSE end) - (IF diff >= p THEN 0 ELSE Index(start)) - 1)}
  BY Zenon DEF Visited, start, diff, end, a, b, p
<1>8. CASE n >= p
  <2>1. Index(0 - 0 - 1) = p - 1
    <3>1. 0 - 0 - 1 = p * (-1) + (p - 1) /\ p - 1 \in 0 .. p - 1 BY <1>1
    <3>2. (p * (-1) + (p - 1)) % p = p - 1 BY <1>1, <3>1, ModUnique
    <3> QED BY Zenon, <3>1, <3>2 DEF Index, p
  <2>2. Visited = {Index(0 + j) : j \in 0 .. p - 1} BY Zenon, <1>4, <1>7, <1>8, <2>1
  <2> QED BY Zenon, <2>2, <1>8 DEF n, a, b, p
<1>9. CASE ~(n >= p)
  <2>1. Index(end - Index(start) - 1) = n
    <3> DEFINE x == start + n + 1
    <3>1. x \in Int /\ n \in 0 .. p - 1 /\ start \in Int BY <1>1, <1>5, <1>9 DEF n
    <3>2. PICK e \in Int : end = x + p * e
      <4>1. x \div p \in Int /\ x % p \in 0 .. p - 1 /\ x = p * (x \div p) + (x % p)
        BY Zenon, <1>1, <3>1, DivMod
      <4>2. end = x % p BY Zenon, <1>6 DEF Index, p
      <4> DEFINE d == x \div p
      <4>3. end = x + p * (-d) /\ -d \in Int
        <5>1. d \in Int /\ end \in Int /\ x = p * d + end BY <4>1, <4>2
        <5> HIDE DEF d, x
        <5> QED BY <5>1, <1>1
      <4> QED BY Zenon, <4>3
    <3>3. PICK f \in Int : Index(start) = start + p * f
      <4>1. start \div p \in Int /\ start % p \in 0 .. p - 1 /\ start = p * (start \div p) + (start % p)
        BY Zenon, <1>1, <3>1, DivMod
      <4>2. Index(start) = start % p BY Zenon DEF Index, p
      <4> DEFINE d == start \div p
      <4>3. Index(start) = start + p * (-d) /\ -d \in Int
        <5>1. d \in Int /\ Index(start) \in Int /\ start = p * d + Index(start) BY <4>1, <4>2
        <5> HIDE DEF d
        <5> QED BY <5>1, <1>1
      <4> QED BY Zenon, <4>3
    <3>4. end - Index(start) - 1 = n + p * (e - f) /\ e - f \in Int
      BY <1>1, <3>1, <3>2, <3>3
    <3>5. (n + p * (e - f)) % p = n % p
      <4>1. n \in Int BY <3>1
      <4> QED BY Zenon, <1>1, <4>1, <3>4, ModShift
    <3>6. n % p = n BY Zenon, <1>1, <3>1, ModSmall
    <3> QED BY Zenon, <3>4, <3>5, <3>6 DEF Index, p
  <2>2. Visited = {Index(Index(a) + j) : j \in 0 .. n} BY Zenon, <1>4, <1>5, <1>7, <1>9, <2>1
  <2> QED BY Zenon, <2>2, <1>9 DEF n, a, b, p
<1> QED BY Zenon, <1>8, <1>9

\* The timer interrupt visits the list of every time since the last one, however many
\* times the wheel has turned meanwhile.
LEMMA VisitsDue ==
  ASSUME IsSystem(sys), Punctual, NEW w \in Nat, old_clock < w, w <= clock
  PROVE  Index(Slot(w)) \in Visited
<1> DEFINE a == Slot(old_clock)
           b == Slot(clock)
           m == Slot(w)
           p == sys.queues
<1>1. p \in Nat \ {0} /\ sys.slot \in Nat \ {0} BY Zenon DEF IsSystem
<1>2. old_clock \in Nat /\ clock \in Nat BY DEF Punctual
<1>3. a \in Nat /\ b \in Nat /\ m \in Nat /\ a <= m /\ m <= b
  BY <1>1, <1>2, DivMonotone DEF Slot
<1> HIDE DEF a, b, m, p
<1>4. CASE b - a >= p
  <2>1. Visited = {Index(0 + k) : k \in 0 .. p - 1} BY Zenon, <1>4, VisitedIs DEF a, b, p
  <2>2. m % p \in 0 .. p - 1 BY <1>1, <1>3, DivMod
  <2>3. (m % p) % p = m % p BY Zenon, <1>1, <2>2, ModSmall
  <2>4. Index(m) = Index(0 + Index(m)) /\ Index(m) \in 0 .. p - 1 BY <2>2, <2>3 DEF Index, p
  <2> QED BY Zenon, <2>1, <2>4 DEF m
<1>5. CASE ~(b - a >= p)
  <2>1. Visited = {Index(Index(a) + k) : k \in 0 .. b - a} BY Zenon, <1>5, VisitedIs DEF a, b, p
  <2> DEFINE d == a \div p
             r == a % p
  <2>2. d \in Int /\ r \in 0 .. p - 1 /\ a = p * d + r
    <3>1. a \in Int BY <1>3
    <3> QED BY Zenon, <1>1, <3>1, DivMod
  <2>3. Index(a) = r BY Zenon DEF Index, p
  <2> HIDE DEF d, r
  <2>4. r + (m - a) = m + p * (-d) /\ -d \in Int BY <1>1, <1>3, <2>2
  <2>5. (m + p * (-d)) % p = m % p
    <3>1. m \in Int BY <1>3
    <3> QED BY Zenon, <1>1, <3>1, <2>4, ModShift
  <2>6. Index(Index(a) + (m - a)) = Index(m) BY Zenon, <2>3, <2>4, <2>5 DEF Index, p
  <2>7. m - a \in 0 .. b - a BY <1>3
  <2> QED BY Zenon, <2>1, <2>6, <2>7 DEF m
<1> QED BY Zenon, <1>4, <1>5

-------------------------------------------------------------------------------
(* Lists *)

\* A set of natural numbers has a smallest one.
LEMMA Smallest ==
  ASSUME NEW S, S \subseteq Nat, S # {}
  PROVE  Min(S) \in S /\ \A x \in S : Min(S) <= x
<1>1. PICK m \in S : \A y \in S : ~(<<y, m>> \in OpToRel(<, Nat))
  BY Zenon, NatLessThanWellFounded, WFMin
<1>2. ASSUME NEW y \in S PROVE m <= y
  <2>1. y \in Nat /\ m \in Nat OBVIOUS
  <2>2. y < m => <<y, m>> \in OpToRel(<, Nat) BY Zenon, <2>1 DEF OpToRel
  <2>3. ~(y < m) BY Zenon, <1>1, <2>2
  <2> QED BY <2>1, <2>3
<1> QED BY Zenon, <1>2 DEF Min

\* Sequence r is s with t at position p.
PutAt(r, s, p, t) ==
  /\ Len(r) = Len(s) + 1
  /\ \A j \in 1 .. Len(s) + 1 :
       (j < p => r[j] = s[j]) /\ (j = p => r[j] = t) /\ (j > p => r[j] = s[j - 1])

\* What insert_before() leaves at each position.
LEMMA InsertBeforeIs ==
  ASSUME NEW S, NEW s \in Seq(S), NEW t \in S, NEW p \in 1 .. Len(s) + 1
  PROVE  InsertBefore(s, p, t) \in Seq(S) /\ PutAt(InsertBefore(s, p, t), s, p, t)
<1> DEFINE n == Len(s)
           l == SubSeq(s, 1, p - 1)
           m == <<t>>
           r == SubSeq(s, p, n)
<1>1. n \in Nat /\ \A j \in 1 .. n : s[j] \in S BY Zenon, LenProperties
<1>2. /\ l \in Seq(S) /\ Len(l) = p - 1
      /\ \A i \in 1 .. p - 1 : l[i] = s[i]
  <2>1. \A i \in 1 .. p - 1 : s[i] \in S BY <1>1
  <2>2. 1 \in Int /\ p - 1 \in Int BY <1>1
  <2>3. /\ l \in Seq(S) /\ Len(l) = IF 1 <= p - 1 THEN (p - 1) - 1 + 1 ELSE 0
        /\ \A i \in 1 .. (p - 1) - 1 + 1 : l[i] = s[1 + i - 1]
    BY <2>1, <2>2, SubSeqProperties
  <2> QED BY <2>3, <1>1
<1>3. /\ r \in Seq(S) /\ Len(r) = n - p + 1
      /\ \A i \in 1 .. n - p + 1 : r[i] = s[p + i - 1]
  <2>1. \A i \in p .. n : s[i] \in S BY <1>1
  <2>2. p \in Int /\ n \in Int BY <1>1
  <2>3. /\ r \in Seq(S) /\ Len(r) = IF p <= n THEN n - p + 1 ELSE 0
        /\ \A i \in 1 .. n - p + 1 : r[i] = s[p + i - 1]
    BY <2>1, <2>2, SubSeqProperties
  <2> QED BY <2>3, <1>1
<1>4. m \in Seq(S) /\ Len(m) = 1 /\ m[1] = t OBVIOUS
<1> HIDE DEF l, m, r
<1> DEFINE lm == l \o m
<1>5. /\ lm \in Seq(S) /\ Len(lm) = p
      /\ \A i \in 1 .. p : lm[i] = IF i < p THEN s[i] ELSE t
  <2>1. /\ lm \in Seq(S) /\ Len(lm) = Len(l) + Len(m)
        /\ \A i \in 1 .. Len(l) + Len(m) : lm[i] = IF i <= Len(l) THEN l[i] ELSE m[i - Len(l)]
    BY Zenon, <1>2, <1>4, ConcatProperties
  <2> QED BY <2>1, <1>1, <1>2, <1>4
<1> HIDE DEF lm
<1>6. /\ lm \o r \in Seq(S) /\ Len(lm \o r) = Len(lm) + Len(r)
      /\ \A i \in 1 .. Len(lm) + Len(r) : (lm \o r)[i] = IF i <= Len(lm) THEN lm[i] ELSE r[i - Len(lm)]
  BY Zenon, <1>3, <1>5, ConcatProperties
<1> DEFINE x == lm \o r
<1>7. x = InsertBefore(s, p, t) BY Zenon DEF InsertBefore, lm, l, m, r
<1> HIDE DEF x
<1>8. Len(x) = n + 1 BY <1>1, <1>3, <1>5, <1>6 DEF x
<1>9. ASSUME NEW j \in 1 .. n + 1 
      PROVE (j < p => x[j] = s[j]) /\ (j = p => x[j] = t) /\ (j > p => x[j] = s[j - 1])
  <2>1. CASE j <= p BY <2>1, <1>1, <1>3, <1>5, <1>6 DEF x
  <2>2. CASE ~(j <= p)
    <3>1. x[j] = r[j - p] /\ j - p \in 1 .. n - p + 1 BY <2>2, <1>1, <1>3, <1>5, <1>6 DEF x
    <3>2. r[j - p] = s[p + (j - p) - 1] BY Zenon, <3>1, <1>3
    <3>3. p + (j - p) - 1 = j - 1 BY <1>1
    <3> QED BY <3>1, <3>2, <3>3, <2>2, <1>1
  <2> QED BY Zenon, <2>1, <2>2
<1> QED BY Zenon, <1>6, <1>7, <1>8, <1>9 DEF x, PutAt

\* What remove() leaves at each position.
LEMMA WithoutItemIs ==
  ASSUME NEW S, NEW s \in Seq(S), NEW p \in 1 .. Len(s)
  PROVE  /\ WithoutItem(s, p) \in Seq(S) /\ Len(WithoutItem(s, p)) = Len(s) - 1
         /\ \A j \in 1 .. Len(s) - 1 : WithoutItem(s, p)[j] = IF j < p THEN s[j] ELSE s[j + 1]
<1> DEFINE n == Len(s)
           l == SubSeq(s, 1, p - 1)
           r == SubSeq(s, p + 1, n)
<1>1. n \in Nat /\ \A j \in 1 .. n : s[j] \in S BY Zenon, LenProperties
<1>2. /\ l \in Seq(S) /\ Len(l) = p - 1
      /\ \A i \in 1 .. p - 1 : l[i] = s[i]
  <2>1. \A i \in 1 .. p - 1 : s[i] \in S BY <1>1
  <2>2. 1 \in Int /\ p - 1 \in Int BY <1>1
  <2>3. /\ l \in Seq(S) /\ Len(l) = IF 1 <= p - 1 THEN (p - 1) - 1 + 1 ELSE 0
        /\ \A i \in 1 .. (p - 1) - 1 + 1 : l[i] = s[1 + i - 1]
    BY <2>1, <2>2, SubSeqProperties
  <2> QED BY <2>3, <1>1
<1>3. /\ r \in Seq(S) /\ Len(r) = n - p
      /\ \A i \in 1 .. n - p : r[i] = s[p + i]
  <2>1. \A i \in p + 1 .. n : s[i] \in S BY <1>1
  <2>2. p + 1 \in Int /\ n \in Int BY <1>1
  <2>3. /\ r \in Seq(S) /\ Len(r) = IF p + 1 <= n THEN n - (p + 1) + 1 ELSE 0
        /\ \A i \in 1 .. n - (p + 1) + 1 : r[i] = s[(p + 1) + i - 1]
    BY <2>1, <2>2, SubSeqProperties
  <2>4. Len(r) = n - p BY <2>3, <1>1
  <2>5. ASSUME NEW i \in 1 .. n - p PROVE r[i] = s[p + i]
    <3>1. (p + 1) + i - 1 = p + i /\ i \in 1 .. n - (p + 1) + 1 BY <1>1
    <3> QED BY Zenon, <2>3, <3>1
  <2> QED BY Zenon, <2>3, <2>4, <2>5
<1> HIDE DEF l, r
<1> DEFINE x == l \o r
<1>4. /\ x \in Seq(S) /\ Len(x) = n - 1
      /\ \A i \in 1 .. n - 1 : x[i] = IF i <= p - 1 THEN l[i] ELSE r[i - (p - 1)]
  <2>1. /\ x \in Seq(S) /\ Len(x) = Len(l) + Len(r)
        /\ \A i \in 1 .. Len(l) + Len(r) : x[i] = IF i <= Len(l) THEN l[i] ELSE r[i - Len(l)]
    BY Zenon, <1>2, <1>3, ConcatProperties
  <2>2. Len(l) + Len(r) = n - 1 BY <1>1, <1>2, <1>3
  <2> QED BY Zenon, <1>2, <2>1, <2>2
<1>5. x = WithoutItem(s, p) BY Zenon DEF WithoutItem, l, r
<1> HIDE DEF x
<1>6. ASSUME NEW j \in 1 .. n - 1 PROVE x[j] = IF j < p THEN s[j] ELSE s[j + 1]
  <2>1. CASE j < p BY <2>1, <1>1, <1>2, <1>4
  <2>2. CASE ~(j < p)
    <3>0. ~(j <= p - 1) /\ j - (p - 1) \in 1 .. n - p BY <2>2, <1>1
    <3>1. x[j] = r[j - (p - 1)] /\ j - (p - 1) \in 1 .. n - p BY Zenon, <3>0, <1>4
    <3>2. r[j - (p - 1)] = s[p + (j - (p - 1))] BY Zenon, <3>1, <1>3
    <3>3. p + (j - (p - 1)) = j + 1 BY <1>1
    <3> QED BY Zenon, <3>1, <3>2, <3>3, <2>2, <1>1
  <2> QED BY Zenon, <2>1, <2>2
<1> QED BY Zenon, <1>4, <1>5, <1>6

\* A list holds a timeout once, and the earlier ones first.
Sorted(s, wk) ==
  \A j, k \in 1 .. Len(s) : j < k => s[j] # s[k] /\ wk[s[j]] <= wk[s[k]]

\* Position p is the first one that is not before time w.
FirstAfter(s, p, w, wk) ==
  /\ \A j \in 1 .. Len(s) : j < p => wk[s[j]] < w
  /\ p <= Len(s) => wk[s[p]] >= w

\* Three facts of the order on the clock's values.
LEMMA Between == \A a, b, c \in Nat : b >= a /\ b <= c => a <= c
OBVIOUS

LEMMA Below == \A a, b \in Nat : a < b => a <= b
OBVIOUS

LEMMA Above == \A a, b \in Nat : ~(a <= b) => a > b
OBVIOUS

\* A timeout goes before the first one that is not earlier.
LEMMA PutSorted ==
  ASSUME NEW s \in Seq(All), NEW wk \in [All -> Nat], Sorted(s, wk),
         NEW t \in All, t \notin Range(s), NEW w \in Nat,
         NEW p \in 1 .. Len(s) + 1, FirstAfter(s, p, w, wk),
         NEW r \in Seq(All), PutAt(r, s, p, t)
  PROVE  Range(r) = Range(s) \cup {t} /\ Sorted(r, [wk EXCEPT ![t] = w])
<1> DEFINE n == Len(s)
           v == [wk EXCEPT ![t] = w]
<1>1. n \in Nat /\ DOMAIN s = 1 .. n /\ \A j \in 1 .. n : s[j] \in All /\ s[j] # t
  BY LenProperties DEF Range
<1>4. /\ p \in 1 .. n + 1
      /\ \A j \in 1 .. n : j < p => wk[s[j]] < w
      /\ p <= n => wk[s[p]] >= w
  BY Zenon DEF FirstAfter
<1>5. Len(r) = n + 1 /\ \A j \in 1 .. n + 1 : r[j] = IF j < p THEN s[j] ELSE IF j = p THEN t ELSE s[j - 1]
  BY <1>1 DEF PutAt
<1>6. Range(r) = Range(s) \cup {t}
  <2>0. DOMAIN r = 1 .. n + 1 BY Zenon, <1>5, LenProperties
  <2>1. ASSUME NEW j \in 1 .. n + 1 PROVE r[j] \in Range(s) \cup {t}
    <3>1. j < p => j \in 1 .. n BY <1>1, <1>4
    <3>2. j > p => j - 1 \in 1 .. n BY <1>1, <1>4
    <3>3. j < p \/ j = p \/ j > p BY <1>1, <1>4
    <3> QED BY Zenon, <3>1, <3>2, <3>3, <1>1, <1>4, <1>5 DEF Range
  <2>2. ASSUME NEW j \in 1 .. n PROVE s[j] \in Range(r)
    <3>1. CASE j < p
      <4>0. j \in 1 .. n + 1 BY <1>1
      <4>1. j \in 1 .. n + 1 /\ r[j] = s[j] BY Zenon, <4>0, <3>1, <1>5
      <4> QED BY Zenon, <4>1, <2>0 DEF Range
    <3>2. CASE ~(j < p)
      <4>1. j + 1 \in 1 .. n + 1 /\ (j + 1) - 1 = j /\ ~(j + 1 < p) /\ j + 1 # p
        BY <3>2, <1>1, <1>4
      <4>2. r[j + 1] = s[(j + 1) - 1] BY Zenon, <4>1, <1>5
      <4>3. r[j + 1] = s[j] BY Zenon, <4>1, <4>2
      <4> QED BY Zenon, <4>1, <4>3, <2>0 DEF Range
    <3> QED BY Zenon, <3>1, <3>2
  <2>3. t \in Range(r)
    <3>1. p \in 1 .. n + 1 /\ r[p] = t BY <1>1, <1>4, <1>5
    <3> QED BY Zenon, <3>1, <2>0 DEF Range
  <2> QED BY Zenon, <2>0, <2>1, <2>2, <2>3, <1>1 DEF Range
<1>7. v[t] = w /\ \A j \in 1 .. n : v[s[j]] = wk[s[j]] /\ v[s[j]] \in Nat BY Zenon, <1>1
<1> HIDE DEF v
<1>8. ASSUME NEW j \in 1 .. n + 1, NEW k \in 1 .. n + 1, j < k
      PROVE  r[j] # r[k] /\ v[r[j]] <= v[r[k]]
  <2>0. \A i, l \in 1 .. n : i < l => s[i] # s[l] /\ v[s[i]] <= v[s[l]] BY Zenon, <1>7 DEF Sorted
  <2>1. CASE k < p
    <3>1. j \in 1 .. n /\ k \in 1 .. n /\ r[j] = s[j] /\ r[k] = s[k] BY <2>1, <1>1, <1>4, <1>5, <1>8
    <3> QED BY Zenon, <3>1, <2>0, <1>8
  <2>2. CASE k = p
    <3>1. j \in 1 .. n /\ r[j] = s[j] /\ r[k] = t /\ wk[s[j]] < w BY <2>2, <1>1, <1>4, <1>5, <1>8
    <3>2. wk[s[j]] <= w BY Zenon, <3>1, <1>1, Below
    <3>3. v[s[j]] = wk[s[j]] BY Zenon, <3>1, <1>7
    <3>4. v[s[j]] <= v[t] BY Zenon, <3>2, <3>3, <1>7
    <3>5. s[j] # t BY Zenon, <3>1, <1>1
    <3> QED BY Zenon, <3>1, <3>4, <3>5
  <2>3. CASE k > p /\ j < p
    <3>1. j \in 1 .. n /\ k - 1 \in 1 .. n /\ r[j] = s[j] /\ r[k] = s[k - 1] /\ j < k - 1
      BY <2>3, <1>1, <1>4, <1>5, <1>8
    <3> QED BY Zenon, <3>1, <2>0, <1>8
  <2>4. CASE k > p /\ j = p
    <3>0. p \in 1 .. n /\ k - 1 \in 1 .. n /\ p <= k - 1 /\ ~(k < p) /\ k # p BY <2>4, <1>1, <1>4
    <3>1. r[j] = t /\ r[k] = s[k - 1] /\ wk[s[p]] >= w BY <3>0, <2>4, <1>4, <1>5
    <3>2. v[s[p]] <= v[s[k - 1]]
      <4>0. v[s[p]] \in Nat BY Zenon, <3>0, <1>7
      <4>1. CASE p = k - 1 BY <4>0, <4>1
      <4>2. CASE p < k - 1 BY Zenon, <4>2, <3>0, <2>0
      <4> QED BY <4>1, <4>2, <3>0
    <3>3. v[s[p]] >= w /\ v[s[p]] \in Nat /\ v[s[k - 1]] \in Nat BY Zenon, <3>0, <3>1, <1>7
    <3>4. r[j] # r[k] BY Zenon, <3>0, <3>1, <1>1
    <3>5. w <= v[s[k - 1]] BY Zenon, <3>2, <3>3, Between
    <3> QED BY Zenon, <3>1, <3>4, <3>5, <1>7
  <2>5. CASE k > p /\ j > p
    <3>1. j - 1 \in 1 .. n /\ k - 1 \in 1 .. n /\ r[j] = s[j - 1] /\ r[k] = s[k - 1] /\ j - 1 < k - 1
      BY <2>5, <1>1, <1>4, <1>5, <1>8
    <3> QED BY Zenon, <3>1, <2>0, <1>8
  <2> QED BY <2>1, <2>2, <2>3, <2>4, <2>5, <1>1, <1>4
<1> QED BY Zenon, <1>5, <1>6, <1>8 DEF Sorted, v

\* enqueue() keeps a list sorted.
LEMMA InsertSorted ==
  ASSUME NEW s \in Seq(All), NEW wk \in [All -> Nat], Sorted(s, wk),
         NEW t \in All, t \notin Range(s), NEW w \in Nat
  PROVE  LET r == InsertBefore(s, NotBefore(s, w, wk), t) IN
         r \in Seq(All) /\ Range(r) = Range(s) \cup {t} /\ Sorted(r, [wk EXCEPT ![t] = w])
<1> DEFINE n == Len(s)
           S == {k \in DOMAIN s : wk[s[k]] >= w} \cup {n + 1}
           p == Min(S)
<1>1. n \in Nat /\ DOMAIN s = 1 .. n /\ \A j \in 1 .. n : s[j] \in All /\ s[j] # t
  BY LenProperties DEF Range
<1>2. p \in S /\ \A k \in S : p <= k
  <2>1. S \subseteq Nat /\ S # {} BY <1>1
  <2> HIDE DEF S
  <2> QED BY Zenon, <2>1, Smallest
<1>3. NotBefore(s, w, wk) = p BY Zenon DEF NotBefore
<1> HIDE DEF p
<1>4. /\ p \in 1 .. n + 1
      /\ \A j \in 1 .. n : j < p => wk[s[j]] < w
      /\ p <= n => wk[s[p]] >= w
  <2>1. p \in 1 .. n + 1 /\ (p <= n => wk[s[p]] >= w) BY <1>1, <1>2
  <2>2. ASSUME NEW j \in 1 .. n, j < p PROVE wk[s[j]] < w
    <3>1. ~(p <= j) BY <2>1, <2>2, <1>1
    <3>2. j \notin S
      <4> HIDE DEF S
      <4> QED BY Zenon, <3>1, <1>2
    <3> QED BY <3>2, <1>1
  <2> QED BY Zenon, <2>1, <2>2
<1> HIDE DEF S
<1>5. p \in 1 .. Len(s) + 1 /\ FirstAfter(s, p, w, wk) BY Zenon, <1>4 DEF FirstAfter
<1>6. InsertBefore(s, p, t) \in Seq(All) /\ PutAt(InsertBefore(s, p, t), s, p, t)
  BY Zenon, <1>5, InsertBeforeIs
<1>7. /\ Range(InsertBefore(s, p, t)) = Range(s) \cup {t}
      /\ Sorted(InsertBefore(s, p, t), [wk EXCEPT ![t] = w])
  BY Zenon, <1>5, <1>6, PutSorted
<1> QED BY Zenon, <1>3, <1>6, <1>7

\* reset() takes one timeout out of its list.
LEMMA RemoveSorted ==
  ASSUME NEW s \in Seq(All), NEW wk, Sorted(s, wk), NEW t, NEW r, r = Remove(s, t)
  PROVE  r \in Seq(All) /\ Range(r) = Range(s) \ {t} /\ Sorted(r, wk)
<1> DEFINE n == Len(s)
           I == {i \in DOMAIN s : s[i] = t}
           p == Min(I)
<1>1. n \in Nat /\ DOMAIN s = 1 .. n BY Zenon, LenProperties
<1>2. CASE I = {}
  <2>1. t \notin Range(s) BY Zenon, <1>1, <1>2 DEF Range
  <2>2. r = s BY Zenon, <2>1 DEF Remove
  <2> QED BY Zenon, <2>1, <2>2
<1>3. CASE I # {}
  <2>0. t \in Range(s) BY Zenon, <1>3 DEF Range
  <2>1. r = WithoutItem(s, p) BY Zenon, <2>0 DEF Remove
  <2>2. p \in 1 .. n /\ s[p] = t
    <3>1. I \subseteq Nat BY <1>1
    <3>2. p \in I
      <4> HIDE DEF I
      <4> QED BY Zenon, <1>3, <3>1, Smallest
    <3> QED BY <3>2
  <2> HIDE DEF I, p
  <2>3. /\ r \in Seq(All) /\ Len(r) = n - 1
        /\ \A j \in 1 .. n - 1 : r[j] = IF j < p THEN s[j] ELSE s[j + 1]
    BY Zenon, <2>1, <2>2, WithoutItemIs
  <2>4. DOMAIN r = 1 .. n - 1 BY Zenon, <2>3, LenProperties
  <2>5. \A i, l \in 1 .. n : i < l => s[i] # s[l] /\ wk[s[i]] <= wk[s[l]] BY Zenon DEF Sorted
  <2>6. ASSUME NEW j \in 1 .. n - 1 PROVE r[j] \in Range(s) \ {t}
    <3>1. CASE j < p
      <4>1. j \in 1 .. n /\ r[j] = s[j] BY <3>1, <1>1, <2>3
      <4> QED BY Zenon, <4>1, <3>1, <1>1, <2>2, <2>5 DEF Range
    <3>2. CASE ~(j < p)
      <4>1. j + 1 \in 1 .. n /\ r[j] = s[j + 1] /\ p < j + 1 BY <3>2, <1>1, <2>2, <2>3
      <4> QED BY Zenon, <4>1, <1>1, <2>2, <2>5 DEF Range
    <3> QED BY Zenon, <3>1, <3>2
  <2>7. ASSUME NEW j \in 1 .. n, s[j] # t PROVE s[j] \in Range(r)
    <3>1. CASE j < p
      <4>1. j \in 1 .. n - 1 /\ r[j] = s[j] BY <3>1, <1>1, <2>2, <2>3
      <4> QED BY Zenon, <4>1, <2>4 DEF Range
    <3>2. CASE ~(j < p)
      <4>1. j - 1 \in 1 .. n - 1 /\ r[j - 1] = s[(j - 1) + 1] /\ (j - 1) + 1 = j
        BY <3>2, <2>7, <1>1, <2>2, <2>3
      <4> QED BY Zenon, <4>1, <2>4 DEF Range
    <3> QED BY Zenon, <3>1, <3>2
  <2>8. Range(r) = Range(s) \ {t} BY Zenon, <2>4, <2>6, <2>7, <1>1 DEF Range
  <2>9. ASSUME NEW j \in 1 .. n - 1, NEW k \in 1 .. n - 1, j < k
        PROVE  r[j] # r[k] /\ wk[r[j]] <= wk[r[k]]
    <3>1. PICK i \in 1 .. n, l \in 1 .. n : i < l /\ r[j] = s[i] /\ r[k] = s[l]
      <4>1. CASE k < p
        <5>1. r[j] = s[j] /\ r[k] = s[k] /\ j \in 1 .. n /\ k \in 1 .. n
          BY <4>1, <2>9, <1>1, <2>2, <2>3
        <5> QED BY Zenon, <5>1, <2>9
      <4>2. CASE ~(k < p) /\ j < p
        <5>1. r[j] = s[j] /\ r[k] = s[k + 1] /\ j < k + 1 /\ j \in 1 .. n /\ k + 1 \in 1 .. n
          BY <4>2, <2>9, <1>1, <2>3
        <5> QED BY Zenon, <5>1
      <4>3. CASE ~(k < p) /\ ~(j < p)
        <5>1. r[j] = s[j + 1] /\ r[k] = s[k + 1] /\ j + 1 < k + 1 /\ j + 1 \in 1 .. n /\ k + 1 \in 1 .. n
          BY <4>3, <2>9, <1>1, <2>3
        <5> QED BY Zenon, <5>1
      <4> QED BY Zenon, <4>1, <4>2, <4>3
    <3> QED BY Zenon, <3>1, <2>5
  <2> QED BY Zenon, <2>3, <2>8, <2>9 DEF Sorted
<1> QED BY Zenon, <1>2, <1>3

\* do_timeouts() takes the timeouts off a list that are due, and no other.
LEMMA ExpireSorted ==
  ASSUME NEW s \in Seq(All), NEW wk \in [All -> Nat], Sorted(s, wk), NEW w \in Nat,
         NEW r, r = SubSeq(s, After(s, w, wk), Len(s))
  PROVE  /\ r \in Seq(All) /\ Sorted(r, wk)
         /\ Range(r) = {t \in Range(s) : wk[t] > w}
         /\ {s[k] : k \in 1 .. After(s, w, wk) - 1} = {t \in Range(s) : wk[t] <= w}
<1> DEFINE n == Len(s)
           S == {k \in DOMAIN s : wk[s[k]] > w} \cup {n + 1}
           p == Min(S)
<1>1. n \in Nat /\ DOMAIN s = 1 .. n /\ \A j \in 1 .. n : s[j] \in All BY LenProperties
<1>2. p \in S /\ \A k \in S : p <= k
  <2>1. S \subseteq Nat /\ S # {} BY <1>1
  <2> HIDE DEF S
  <2> QED BY Zenon, <2>1, Smallest
<1>3. After(s, w, wk) = p BY Zenon DEF After
<1> HIDE DEF p
<1>4. p \in 1 .. n + 1 /\ (p <= n => wk[s[p]] > w) BY <1>1, <1>2
<1>5. ASSUME NEW j \in 1 .. n PROVE wk[s[j]] <= w <=> j < p
  <2>0. wk[s[j]] \in Nat BY Zenon, <1>1
  <2>1. CASE j < p
    <3>1. j \notin S BY <2>1, <1>1, <1>2, <1>4
    <3> QED BY <3>1, <2>0, <2>1, <1>1
  <2>2. CASE j = p BY <2>0, <2>2, <1>1, <1>4
  <2>3. CASE j > p
    <3>1. p \in 1 .. n BY <2>3, <1>1, <1>4
    <3>2. wk[s[p]] <= wk[s[j]] /\ wk[s[p]] > w /\ wk[s[p]] \in Nat BY <3>1, <2>3, <1>1, <1>4 DEF Sorted
    <3> QED BY <3>2, <2>0, <2>3, <1>4
  <2> QED BY <2>1, <2>2, <2>3, <1>4
<1> HIDE DEF S
<1>6. /\ r \in Seq(All) /\ Len(r) = n - p + 1
      /\ \A i \in 1 .. n - p + 1 : r[i] = s[p + i - 1]
  <2>1. \A i \in p .. n : s[i] \in All BY <1>1, <1>4
  <2>2. p \in Int /\ n \in Int BY <1>1, <1>4
  <2>3. /\ r \in Seq(All) /\ Len(r) = IF p <= n THEN n - p + 1 ELSE 0
        /\ \A i \in 1 .. n - p + 1 : r[i] = s[p + i - 1]
    BY <1>3, <2>1, <2>2, SubSeqProperties
  <2>4. (IF p <= n THEN n - p + 1 ELSE 0) = n - p + 1 BY <1>1, <1>4
  <2>5. Len(r) = n - p + 1 BY Zenon, <2>3, <2>4
  <2> QED BY Zenon, <2>3, <2>5
<1>7. DOMAIN r = 1 .. n - p + 1 BY Zenon, <1>6, LenProperties
<1>8. Range(r) = {t \in Range(s) : wk[t] > w}
  <2>1. ASSUME NEW i \in 1 .. n - p + 1 PROVE r[i] \in Range(s) /\ wk[r[i]] > w
    <3>0. p + i - 1 \in 1 .. n /\ ~(p + i - 1 < p) BY <1>1, <1>4
    <3>1. p + i - 1 \in 1 .. n /\ ~(p + i - 1 < p) /\ r[i] = s[p + i - 1] BY Zenon, <3>0, <1>6
    <3>2. wk[s[p + i - 1]] \in Nat /\ ~(wk[s[p + i - 1]] <= w) BY Zenon, <3>1, <1>1, <1>5
    <3>3. wk[s[p + i - 1]] > w BY Zenon, <3>2, Above
    <3> QED BY Zenon, <3>1, <3>3, <1>1 DEF Range
  <2>2. ASSUME NEW j \in 1 .. n, wk[s[j]] > w PROVE s[j] \in Range(r)
    <3>1. ~(j < p)
      <4>1. wk[s[j]] \in Nat BY Zenon, <1>1
      <4> QED BY <4>1, <2>2, <1>5
    <3>2. j - p + 1 \in 1 .. n - p + 1 /\ p + (j - p + 1) - 1 = j BY <3>1, <1>1, <1>4
    <3> QED BY Zenon, <3>2, <1>6, <1>7 DEF Range
  <2>3. ASSUME NEW t \in Range(r) PROVE t \in Range(s) /\ wk[t] > w
    <3>1. PICK i \in 1 .. n - p + 1 : t = r[i] BY Zenon, <1>7 DEF Range
    <3> QED BY Zenon, <3>1, <2>1
  <2>4. ASSUME NEW t \in Range(s), wk[t] > w PROVE t \in Range(r)
    <3>1. PICK j \in 1 .. n : t = s[j] BY Zenon, <1>1 DEF Range
    <3> QED BY Zenon, <3>1, <2>2, <2>4
  <2> QED BY Zenon, <2>3, <2>4
<1>9. {s[k] : k \in 1 .. p - 1} = {t \in Range(s) : wk[t] <= w}
  <2>1. \A k \in 1 .. p - 1 : k \in 1 .. n /\ k < p BY <1>1, <1>4
  <2>2. \A k \in 1 .. n : k < p => k \in 1 .. p - 1 BY <1>1, <1>4
  <2> QED BY Zenon, <2>1, <2>2, <1>1, <1>5 DEF Range
<1>10. ASSUME NEW j \in 1 .. n - p + 1, NEW k \in 1 .. n - p + 1, j < k
       PROVE  r[j] # r[k] /\ wk[r[j]] <= wk[r[k]]
  <2>1. p + j - 1 \in 1 .. n /\ p + k - 1 \in 1 .. n /\ p + j - 1 < p + k - 1
    BY <1>10, <1>1, <1>4
  <2>2. r[j] = s[p + j - 1] /\ r[k] = s[p + k - 1] BY Zenon, <1>6
  <2> QED BY Zenon, <2>1, <2>2 DEF Sorted
<1> QED BY Zenon, <1>3, <1>6, <1>8, <1>9, <1>10 DEF Sorted

-------------------------------------------------------------------------------
(* The wheel *)

\* The index of a list is one of the lists.
LEMMA IndexIn == ASSUME IsSystem(sys), NEW x \in Int PROVE Index(x) \in 0 .. sys.queues - 1
<1>1. sys.queues \in Nat \ {0} BY Zenon DEF IsSystem
<1> QED BY Zenon, <1>1, DivMod DEF Index

\* Slots are numbered from 0.
LEMMA SlotIn == ASSUME IsSystem(sys), NEW w \in Nat PROVE Slot(w) \in Nat
<1>1. sys.slot \in Nat \ {0} BY Zenon DEF IsSystem
<1> QED BY <1>1, DivMonotone DEF Slot

\* do_timeouts() visits lists of the wheel only.
LEMMA VisitedIn == ASSUME IsSystem(sys), Punctual PROVE Visited \subseteq 0 .. sys.queues - 1
<1>1. Slot(old_clock) \in Nat /\ Slot(clock) \in Nat BY Zenon, SlotsPass
<1>2. Index(Slot(old_clock)) \in Nat /\ sys.queues \in Nat BY <1>1, IndexIn DEF IsSystem
<1>3. Visited \subseteq {Index(x) : x \in Int}
  <2>1. CASE Slot(clock) - Slot(old_clock) >= sys.queues
    <3>1. Visited = {Index(0 + k) : k \in 0 .. sys.queues - 1} BY Zenon, <2>1, VisitedIs
    <3> QED BY <3>1, <1>2
  <2>2. CASE ~(Slot(clock) - Slot(old_clock) >= sys.queues)
    <3>1. Visited = {Index(Index(Slot(old_clock)) + k) : k \in 0 .. Slot(clock) - Slot(old_clock)}
      BY Zenon, <2>2, VisitedIs
    <3> QED BY <3>1, <1>1, <1>2
  <2> QED BY Zenon, <2>1, <2>2
<1> QED BY Zenon, <1>3, IndexIn

\* A wheel with the times wk: each list is sorted, and has timeouts of its own slots only.
Lists(qs, wk) ==
  /\ qs \in [0 .. sys.queues - 1 -> Seq(All)]
  /\ \A i \in 0 .. sys.queues - 1 : /\ Sorted(qs[i], wk)
                                    /\ \A t \in Range(qs[i]) : Index(Slot(wk[t])) = i

\* The timeouts in the lists of a wheel.
Members(qs) == UNION {Range(qs[i]) : i \in 0 .. sys.queues - 1}

\* The order of a list depends on the times of its own timeouts only.
LEMMA SortedSame ==
  ASSUME NEW s, NEW wk, NEW v, Sorted(s, wk), DOMAIN s = 1 .. Len(s),
         \A t \in Range(s) : v[t] = wk[t]
  PROVE  Sorted(s, v)
BY Zenon DEF Sorted, Range

\* enqueue() puts a timeout into the list of its slot.
LEMMA InsertLists ==
  ASSUME IsSystem(sys), wakeup \in [All -> Nat], NEW qs, Lists(qs, wakeup),
         NEW t \in All, t \notin Members(qs), NEW w \in Nat
  PROVE  /\ Lists(Inserted(qs, t, w), [wakeup EXCEPT ![t] = w])
         /\ Members(Inserted(qs, t, w)) = Members(qs) \cup {t}
<1> DEFINE D == 0 .. sys.queues - 1
           i0 == Index(Slot(w))
           r == InsertBefore(qs[i0], NotBefore(qs[i0], w, wakeup), t)
           v == [wakeup EXCEPT ![t] = w]
           qr == Inserted(qs, t, w)
<1>1. i0 \in D
  <2>1. Slot(w) \in Int BY SlotIn
  <2> QED BY Zenon, <2>1, IndexIn
<1>2. qr = [qs EXCEPT ![i0] = r] BY Zenon DEF Inserted
<1>3. qs \in [D -> Seq(All)] BY Zenon DEF Lists
<1>4. \A i \in D : t \notin Range(qs[i]) BY Zenon DEF Members
<1>5. r \in Seq(All) /\ Range(r) = Range(qs[i0]) \cup {t} /\ Sorted(r, v)
  <2>1. qs[i0] \in Seq(All) /\ Sorted(qs[i0], wakeup) BY Zenon, <1>1, <1>3 DEF Lists
  <2> QED BY Zenon, <2>1, <1>1, <1>4, InsertSorted
<1>6. v[t] = w /\ \A u \in All : u # t => v[u] = wakeup[u] BY Zenon
<1> HIDE DEF D, i0, r, v, qr
<1>7. qr \in [D -> Seq(All)] /\ qr[i0] = r /\ \A i \in D : i # i0 => qr[i] = qs[i]
  BY Zenon, <1>1, <1>2, <1>3, <1>5
<1>8. \A i \in D : \A u \in Range(qs[i]) : u \in All /\ u # t
  <2>1. ASSUME NEW i \in D, NEW u \in Range(qs[i]) PROVE u \in All
    <3>1. qs[i] \in Seq(All) BY Zenon, <1>3
    <3> QED BY <3>1, LenProperties DEF Range
  <2> QED BY Zenon, <2>1, <1>4
<1>9. ASSUME NEW i \in D PROVE Sorted(qr[i], v) /\ \A u \in Range(qr[i]) : Index(Slot(v[u])) = i
  <2>0. \A u \in Range(qs[i]) : Index(Slot(v[u])) = i BY Zenon, <1>6, <1>8 DEF Lists, D
  <2>1. CASE i = i0 BY Zenon, <2>0, <2>1, <1>5, <1>6, <1>7 DEF i0
  <2>2. CASE i # i0
    <3>1. qr[i] = qs[i] BY Zenon, <2>2, <1>7
    <3>2. DOMAIN qs[i] = 1 .. Len(qs[i]) BY Zenon, <1>3, LenProperties
    <3>3. Sorted(qs[i], wakeup) BY Zenon DEF Lists, D
    <3>4. \A u \in Range(qs[i]) : v[u] = wakeup[u] BY Zenon, <1>6, <1>8
    <3> QED BY Zenon, <2>0, <3>1, <3>2, <3>3, <3>4, SortedSame
  <2> QED BY Zenon, <2>1, <2>2
<1>10. Lists(qr, v) BY Zenon, <1>7, <1>9 DEF Lists, D
<1>11. Range(qr[i0]) = Range(qs[i0]) \cup {t} /\ \A i \in D : i # i0 => Range(qr[i]) = Range(qs[i])
  BY Zenon, <1>5, <1>7
<1>12. Members(qr) = Members(qs) \cup {t}
  <2>1. \A u : (\E i \in D : u \in Range(qr[i])) <=> (\E i \in D : u \in Range(qs[i])) \/ u = t
    BY Zenon, <1>1, <1>11
  <2> QED BY Zenon, <2>1 DEF Members, D
<1> QED BY Zenon, <1>10, <1>12 DEF v, qr

\* reset() takes a timeout out of the wheel.
LEMMA RemoveLists ==
  ASSUME Lists(q, wakeup), NEW t
  PROVE  Lists(Removed(t), wakeup) /\ Members(Removed(t)) = Members(q) \ {t}
<1> DEFINE D == 0 .. sys.queues - 1
           qr == Removed(t)
<1>1. q \in [D -> Seq(All)] BY Zenon DEF Lists
<1>2. qr = [i \in D |-> Remove(q[i], t)] BY Zenon, <1>1 DEF Removed
<1>3. ASSUME NEW i \in D
      PROVE  qr[i] \in Seq(All) /\ Range(qr[i]) = Range(q[i]) \ {t} /\ Sorted(qr[i], wakeup)
  <2>1. q[i] \in Seq(All) /\ Sorted(q[i], wakeup) /\ qr[i] = Remove(q[i], t)
    BY Zenon, <1>1, <1>2 DEF Lists
  <2> QED BY Zenon, <2>1, RemoveSorted
<1> HIDE DEF qr, D
<1>4. qr \in [D -> Seq(All)] BY Zenon, <1>2, <1>3
<1>5. Lists(qr, wakeup) BY Zenon, <1>3, <1>4 DEF Lists, D
<1>6. Members(qr) = Members(q) \ {t}
  <2>1. \A u : (\E i \in D : u \in Range(qr[i])) <=> (\E i \in D : u \in Range(q[i])) /\ u # t
    BY Zenon, <1>3
  <2> QED BY Zenon, <2>1 DEF Members, D
<1> QED BY Zenon, <1>5, <1>6 DEF qr

\* The lists after do_timeouts().
Rest == [i \in DOMAIN q |->
          IF i \in Visited THEN SubSeq(q[i], After(q[i], clock, wakeup), Len(q[i])) ELSE q[i]]

\* do_timeouts() lets all timeouts expire that have become due since the last time, and
\* none that is not due, and takes just these out of the wheel.
LEMMA ExpireLists ==
  ASSUME IsSystem(sys), Punctual, wakeup \in [All -> Nat], Lists(q, wakeup)
  PROVE  /\ Lists(Rest, wakeup) /\ Members(Rest) = Members(q) \ Expired
         /\ \A t \in Expired : t \in Members(q) /\ wakeup[t] <= clock
         /\ \A t \in Members(q) : old_clock < wakeup[t] /\ wakeup[t] <= clock => t \in Expired
<1> DEFINE D == 0 .. sys.queues - 1
           Gone(i) == {q[i][k] : k \in 1 .. After(q[i], clock, wakeup) - 1}
<1>1. q \in [D -> Seq(All)] /\ clock \in Nat BY Zenon DEF Lists, Punctual
<1>2. Visited \subseteq D BY Zenon, VisitedIn
<1>3. ASSUME NEW i \in Visited
      PROVE  /\ Rest[i] \in Seq(All) /\ Sorted(Rest[i], wakeup)
             /\ Range(Rest[i]) = {t \in Range(q[i]) : wakeup[t] > clock}
             /\ Gone(i) = {t \in Range(q[i]) : wakeup[t] <= clock}
  <2>1. q[i] \in Seq(All) /\ Sorted(q[i], wakeup) BY Zenon, <1>1, <1>2 DEF Lists
  <2>2. Rest[i] = SubSeq(q[i], After(q[i], clock, wakeup), Len(q[i])) BY Zenon, <1>1, <1>2 DEF Rest
  <2> DEFINE s == q[i]
  <2>3. s \in Seq(All) /\ Sorted(s, wakeup) /\ Rest[i] = SubSeq(s, After(s, clock, wakeup), Len(s))
    BY Zenon, <2>1, <2>2
  <2>4. Gone(i) = {s[k] : k \in 1 .. After(s, clock, wakeup) - 1} BY Zenon
  <2> HIDE DEF s, Gone
  <2>5. /\ Rest[i] \in Seq(All) /\ Sorted(Rest[i], wakeup)
        /\ Range(Rest[i]) = {t \in Range(s) : wakeup[t] > clock}
        /\ {s[k] : k \in 1 .. After(s, clock, wakeup) - 1} = {t \in Range(s) : wakeup[t] <= clock}
    BY Zenon, <2>3, <1>1, ExpireSorted
  <2> QED BY Zenon, <2>4, <2>5 DEF s
<1>4. \A i \in D : i \notin Visited => Rest[i] = q[i] BY Zenon, <1>1 DEF Rest
<1>5. Expired = UNION {Gone(i) : i \in Visited} BY Zenon DEF Expired
<1> HIDE DEF D, Gone
<1>6. \A i \in D : \A t \in Range(q[i]) : t \in All /\ wakeup[t] \in Nat
  <2>1. ASSUME NEW i \in D, NEW t \in Range(q[i]) PROVE t \in All
    <3>1. q[i] \in Seq(All) BY Zenon, <1>1
    <3> QED BY <3>1, LenProperties DEF Range
  <2> QED BY Zenon, <2>1
<1>7. \A i \in D : \A t \in Range(q[i]) : Index(Slot(wakeup[t])) = i BY Zenon DEF Lists, D
<1>8. Rest \in [D -> Seq(All)]
  <2>1. \A i \in D : Rest[i] \in Seq(All) BY Zenon, <1>1, <1>3, <1>4
  <2>2. DOMAIN Rest = D /\ Rest = [i \in D |-> Rest[i]] BY Zenon, <1>1 DEF Rest
  <2> QED BY Zenon, <2>1, <2>2
<1>9. \A i \in D : Range(Rest[i]) \subseteq Range(q[i])
  BY Zenon, <1>3, <1>4
<1>10. Lists(Rest, wakeup)
  <2>1. \A i \in D : Sorted(Rest[i], wakeup) BY Zenon, <1>3, <1>4 DEF Lists, D
  <2> QED BY Zenon, <2>1, <1>7, <1>8, <1>9 DEF Lists, D
<1>11. \A t \in Expired : t \in Members(q) /\ wakeup[t] <= clock
  <2>1. ASSUME NEW t \in Expired PROVE t \in Members(q) /\ wakeup[t] <= clock
    <3>1. PICK i \in Visited : t \in Gone(i) BY Zenon, <1>5
    <3>2. i \in D /\ t \in Range(q[i]) /\ wakeup[t] <= clock BY Zenon, <3>1, <1>2, <1>3
    <3> QED BY Zenon, <3>2 DEF Members, D
  <2> QED BY Zenon, <2>1
<1>12. ASSUME NEW t \in Members(q), old_clock < wakeup[t], wakeup[t] <= clock PROVE t \in Expired
  <2>1. PICK i \in D : t \in Range(q[i]) BY Zenon DEF Members, D
  <2>2. wakeup[t] \in Nat /\ Index(Slot(wakeup[t])) = i BY Zenon, <2>1, <1>6, <1>7
  <2>3. i \in Visited BY Zenon, <2>2, <1>12, VisitsDue
  <2> QED BY Zenon, <2>1, <2>3, <1>3, <1>5, <1>12
<1>13. Members(Rest) = Members(q) \ Expired
  <2>1. ASSUME NEW i \in D, NEW t \in Range(Rest[i]) PROVE t \in Members(q) \ Expired
    <3>1. t \in Range(q[i]) BY Zenon, <1>9
    <3>2. t \in Members(q) BY Zenon, <3>1 DEF Members, D
    <3>3. ASSUME t \in Expired PROVE FALSE
      <4>1. PICK j \in Visited : t \in Gone(j) BY Zenon, <3>3, <1>5
      <4>2. j \in D /\ t \in Range(q[j]) /\ wakeup[t] <= clock BY Zenon, <4>1, <1>2, <1>3
      <4>3. i = j BY Zenon, <4>2, <3>1, <1>7
      <4>4. wakeup[t] > clock BY Zenon, <4>1, <4>3, <1>3
      <4>5. wakeup[t] \in Nat BY Zenon, <3>1, <1>6
      <4> QED BY <4>2, <4>4, <4>5, <1>1
    <3> QED BY Zenon, <3>2, <3>3
  <2>2. ASSUME NEW t \in Members(q), t \notin Expired PROVE \E i \in D : t \in Range(Rest[i])
    <3>1. PICK i \in D : t \in Range(q[i]) BY Zenon DEF Members, D
    <3>2. CASE i \notin Visited BY Zenon, <3>1, <3>2, <1>4
    <3>3. CASE i \in Visited
      <4>1. t \notin Gone(i) BY Zenon, <3>3, <2>2, <1>5
      <4>2. ~(wakeup[t] <= clock) BY Zenon, <4>1, <3>1, <3>3, <1>3
      <4>3. wakeup[t] \in Nat BY Zenon, <3>1, <1>6
      <4>4. wakeup[t] > clock BY <4>2, <4>3, <1>1
      <4> QED BY Zenon, <4>4, <3>1, <3>3, <1>3
    <3> QED BY Zenon, <3>2, <3>3
  <2> QED BY Zenon, <2>1, <2>2 DEF Members, D
<1> QED BY Zenon, <1>10, <1>11, <1>12, <1>13

-------------------------------------------------------------------------------
(* The invariant *)

\* Every timeout in the wheel is in the list of its slot, in order; a thread on its way
\* to another CPU has taken its timeout along; and the timeout of a thread that waits has
\* not hit.
WheelInv ==
  /\ TypeOK /\ Punctual
  /\ Lists(q, wakeup)
  /\ \A t \in away : t \notin Members(q)
  /\ \A t \in Timeouts : t \in Members(q) => ~hit[t]

\* The timeouts of the abstract specification.
Armed == {t \in All : is_set(t)}
Late == {t \in All : is_set(t) /\ wakeup[t] <= old_clock}
Over == {t \in All : hit[t] /\ ~is_set(t)}

\* The constants and the clocks are numbers.
LEMMA Consts ==
  ASSUME TypeOK
  PROVE  /\ IsSystem(sys) /\ MinInterval \in Nat /\ MaxIntervals \subseteq Nat
         /\ MaxClock \in Nat /\ sys.maxclock \in Nat /\ sys.maxclock <= MaxClock
         /\ clock \in Nat /\ old_clock \in Nat /\ old_clock <= clock
<1>1. sys \in Systems /\ clock \in 0 .. sys.maxclock /\ old_clock \in 0 .. clock BY Zenon DEF TypeOK
<1>2. /\ IsSystem(sys) /\ MinInterval \in Nat /\ MaxIntervals \subseteq Nat /\ MaxClock \in Nat
  BY Zenon, <1>1, TimeoutAssumption
<1>3. sys.maxclock \in 1 .. MaxClock BY Zenon, <1>2 DEF IsSystem
<1> QED BY <1>1, <1>2, <1>3

\* Wake-up times are numbers.
LEMMA WakeupNat == ASSUME TypeOK PROVE wakeup \in [All -> Nat]
<1>1. wakeup \in [All -> 0 .. MaxClock] BY Zenon DEF TypeOK
<1> QED BY <1>1, Consts

\* is_set() finds the members of the wheel.
LEMMA MembersAre ==
  ASSUME Lists(q, wakeup)
  PROVE  /\ \A t : is_set(t) <=> t \in Members(q)
         /\ Members(q) \subseteq All
<1>1. q \in [0 .. sys.queues - 1 -> Seq(All)] BY Zenon DEF Lists
<1>2. \A t : is_set(t) <=> t \in Members(q) BY Zenon, <1>1 DEF is_set, Members
<1>3. ASSUME NEW i \in 0 .. sys.queues - 1 PROVE Range(q[i]) \subseteq All
  <2>1. q[i] \in Seq(All) BY Zenon, <1>1
  <2> QED BY <2>1, LenProperties DEF Range
<1> QED BY Zenon, <1>2, <1>3 DEF Members

\* The state of the set of timeouts, said of the members of the wheel.
Mapped ==
  /\ Armed = Members(q)
  /\ Late = {t \in Members(q) : wakeup[t] <= old_clock}
  /\ Over = {t \in All : hit[t] /\ t \notin Members(q)}

\* The refinement mapping.
LEMMA MapIs == WheelInv => Mapped
BY Zenon, MembersAre DEF WheelInv, Mapped, Armed, Late, Over

\* The mapping after a step.
LEMMA MapNext == WheelInv' => Mapped'
BY MapIs, PTL

\* The invariant after a step.
LEMMA NextInv ==
  ASSUME WheelInv, sys' = sys, Lists(q', wakeup'),
         clock' \in 0 .. sys.maxclock, old_clock' \in 0 .. clock', clock' - old_clock' <= sys.maxdelay,
         current' \in Nat, wakeup' \in [All -> 0 .. MaxClock], hit' \in [All -> BOOLEAN],
         away' \subseteq Timeouts, asleep' \in BOOLEAN,
         \A t \in away' : t \notin Members(q'),
         \A t \in Timeouts : t \in Members(q') => ~hit'[t]
  PROVE  WheelInv' /\ Members(q)' = Members(q')
<1>1. Members(q)' = Members(q') BY Zenon DEF Members
<1>2. Lists(q, wakeup)' BY Zenon DEF Lists, Index, Slot
<1>3. Punctual'
  <2>1. sys.maxclock \in Nat BY Zenon, Consts DEF WheelInv
  <2>2. clock' \in Nat BY <2>1
  <2> QED BY Zenon, <2>2 DEF Punctual
<1>4. TypeOK'
  <2>1. q' \in [0 .. sys.queues - 1 -> Seq(All)] BY Zenon DEF Lists
  <2>2. sys' \in Systems BY Zenon DEF WheelInv, TypeOK
  <2>3. ASSUME NEW i \in 0 .. sys.queues - 1 PROVE Range(q'[i]) \subseteq All
    <3>1. q'[i] \in Seq(All) BY Zenon, <2>1
    <3> QED BY <3>1, LenProperties DEF Range
  <2>4. DOMAIN q' = 0 .. sys'.queues - 1 BY Zenon, <2>1
  <2>5. \A i \in DOMAIN q' : Range(q'[i]) \subseteq All BY Zenon, <2>1, <2>3
  <2> QED BY Zenon, <2>2, <2>4, <2>5 DEF TypeOK, Range
<1> QED BY Zenon, <1>1, <1>2, <1>3, <1>4 DEF WheelInv

\* The timer after enqueue().
LEMMA TimerTyped ==
  ASSUME WheelInv, NEW w \in Nat, EnqueueTimer(w)
  PROVE  current' \in Nat
<1>1. current \in Nat /\ old_clock \in Nat /\ MinInterval \in Nat BY Zenon, Consts DEF WheelInv, TypeOK
<1> QED BY <1>1 DEF EnqueueTimer, Programmed

-------------------------------------------------------------------------------
(* The steps *)

\* A timeout is set for a time in the future: set(), after reset() for the timeslice.
LEMMA ArmStep ==
  ASSUME WheelInv, sys' = sys, NEW t \in All, NEW w \in clock + 1 .. sys.maxclock,
         NEW qs, Lists(qs, wakeup), t \notin Members(qs), Members(qs) = Members(q) \ {t},
         wakeup' = [wakeup EXCEPT ![t] = w], q' = Inserted(qs, t, w), EnqueueTimer(w),
         UNCHANGED <<clock, old_clock, away, asleep>>,
         hit' \in [All -> BOOLEAN], \A u \in All \ {t} : hit'[u] = hit[u],
         t \in Timeouts => ~hit'[t] /\ t \notin away
  PROVE  WheelInv' /\ Members(q)' = Members(q) \cup {t} /\ Abstract!Arm(t)
<1>1. TypeOK /\ IsSystem(sys) /\ wakeup \in [All -> Nat] BY Zenon, Consts, WakeupNat DEF WheelInv
<1>2. w \in Nat /\ w \in 0 .. MaxClock /\ w \in clock + 1 .. MaxClock /\ ~(w <= old_clock)
  BY <1>1, Consts
<1>3. Lists(q', wakeup') /\ Members(q') = Members(q) \cup {t}
  <2>1. Lists(q', wakeup') /\ Members(q') = Members(qs) \cup {t} BY Zenon, <1>1, <1>2, InsertLists
  <2> QED BY Zenon, <2>1
<1>4. WheelInv' /\ Members(q)' = Members(q')
  <2>1. wakeup' \in [All -> 0 .. MaxClock] BY Zenon, <1>1, <1>2 DEF TypeOK
  <2>2. /\ clock' \in 0 .. sys.maxclock /\ old_clock' \in 0 .. clock' /\ clock' - old_clock' <= sys.maxdelay
        /\ away' \subseteq Timeouts /\ asleep' \in BOOLEAN
    BY Zenon, <1>1 DEF TypeOK, WheelInv, Punctual
  <2>3. current' \in Nat BY Zenon, <1>2, TimerTyped
  <2>4. \A u \in away' : u \notin Members(q')
    BY Zenon, <1>1, <1>3 DEF WheelInv, TypeOK
  <2>5. \A u \in Timeouts : u \in Members(q') => ~hit'[u]
    BY Zenon, <1>3 DEF WheelInv, All
  <2> QED BY Zenon, <1>3, <2>1, <2>2, <2>3, <2>4, <2>5, NextInv
<1>5. wakeup'[t] = w /\ \A u \in All : u # t => wakeup'[u] = wakeup[u] BY Zenon, <1>1
<1>6. Armed' = Armed \cup {t} BY Zenon, <1>3, <1>4, MapIs, MapNext DEF Mapped
<1>7. Late' = Late \ {t}
  <2>1. Late' = {u \in Members(q') : wakeup'[u] <= old_clock'} BY Zenon, <1>4, MapNext DEF Mapped
  <2>2. Members(q) \subseteq All BY Zenon, MembersAre DEF WheelInv
  <2>3. t \notin Late' BY Zenon, <1>2, <1>5, <2>1
  <2>4. ASSUME NEW u, u # t PROVE u \in Late' <=> u \in Late
    <3>1. u \in Members(q') <=> u \in Members(q) BY Zenon, <2>4, <1>3
    <3>2. u \in Members(q) => wakeup'[u] = wakeup[u] BY Zenon, <2>2, <2>4, <1>5
    <3> QED BY Zenon, <2>1, <3>1, <3>2, MapIs DEF Mapped
  <2> QED BY Zenon, <2>3, <2>4
<1>8. Over' = Over \ {t}
  <2>1. Over' = {u \in All : hit'[u] /\ u \notin Members(q')} BY Zenon, <1>4, MapNext DEF Mapped
  <2>2. \A u : u \in Over' <=> u \in Over \ {t} BY Zenon, <1>3, <2>1, MapIs DEF Mapped
  <2> QED BY Zenon, <2>2
<1>9. wakeup'[t] \in clock + 1 .. MaxClock /\ wakeup' = [wakeup EXCEPT ![t] = wakeup'[t]]
  BY Zenon, <1>2, <1>5
<1> QED BY Zenon, <1>3, <1>4, <1>6, <1>7, <1>8, <1>9 DEF Abstract!Arm, Armed, Late, Over

\* setup_timer() arms a timeout.
LEMMA SetStep ==
  ASSUME WheelInv, sys' = sys, NEW t \in Timeouts, Set(t)
  PROVE  WheelInv' /\ Members(q)' = Members(q) \cup {t} /\ Abstract!Arm(t)
<1>1. TypeOK /\ t \in All BY Zenon DEF WheelInv, All
<1>2. PICK w \in clock + 1 .. sys.maxclock :
        wakeup' = [wakeup EXCEPT ![t] = w] /\ q' = Inserted(q, t, w) /\ EnqueueTimer(w)
  BY Zenon DEF Set
<1>3. Lists(q, wakeup) /\ t \notin Members(q) BY Zenon, MembersAre DEF WheelInv, Set
<1>4. Members(q) = Members(q) \ {t} BY Zenon, <1>3
<1>5. /\ hit' \in [All -> BOOLEAN] /\ ~hit'[t] /\ \A u \in All \ {t} : hit'[u] = hit[u]
  <2>1. hit \in [All -> BOOLEAN] /\ hit' = [hit EXCEPT ![t] = FALSE] BY Zenon, <1>1 DEF TypeOK, Set
  <2> QED BY Zenon, <1>1, <2>1
<1>6. UNCHANGED <<clock, old_clock, away, asleep>> /\ t \notin away BY Zenon DEF Set
<1> QED BY Zenon, <1>1, <1>2, <1>3, <1>4, <1>5, <1>6, ArmStep

\* set_current_sched() arms the timeslice anew.
LEMMA TimesliceStep ==
  ASSUME WheelInv, sys' = sys, SetTimeslice
  PROVE  WheelInv' /\ Members(q)' = Members(q) \cup {Timeslice} /\ Abstract!Arm(Timeslice)
<1>1. TypeOK /\ Timeslice \in All /\ Timeslice \notin Timeouts
  BY Zenon, TimeoutAssumption DEF WheelInv, All
<1>2. PICK w \in clock + 1 .. sys.maxclock :
        /\ wakeup' = [wakeup EXCEPT ![Timeslice] = w]
        /\ q' = Inserted(Removed(Timeslice), Timeslice, w) /\ EnqueueTimer(w)
  BY Zenon DEF SetTimeslice
<1>3. /\ Lists(Removed(Timeslice), wakeup)
      /\ Members(Removed(Timeslice)) = Members(q) \ {Timeslice}
  BY Zenon, RemoveLists DEF WheelInv
<1>4. Timeslice \notin Members(Removed(Timeslice)) BY Zenon, <1>3
<1>5. hit' \in [All -> BOOLEAN] /\ \A u \in All \ {Timeslice} : hit'[u] = hit[u]
  BY Zenon, <1>1 DEF TypeOK, SetTimeslice
<1>6. UNCHANGED <<clock, old_clock, away, asleep>> BY Zenon DEF SetTimeslice
<1> QED BY Zenon, <1>1, <1>2, <1>3, <1>4, <1>5, <1>6, ArmStep

\* A timeout is taken out of the wheel, or is not in it.
LEMMA DisarmStep ==
  ASSUME WheelInv, sys' = sys, NEW t \in Timeouts, q' = Removed(t), t \in Members(q) \/ hit[t],
         UNCHANGED <<clock, current, old_clock, wakeup, hit, asleep>>,
         away' \in {away, away \cup {t}}
  PROVE  /\ WheelInv' /\ Members(q)' = Members(q) \ {t}
         /\ Abstract!Disarm(t) \/ UNCHANGED Abstract!vars
<1>1. Lists(q', wakeup') /\ Members(q') = Members(q) \ {t} BY Zenon, RemoveLists DEF WheelInv
<1>2. WheelInv' /\ Members(q)' = Members(q')
  <2>1. /\ clock' \in 0 .. sys.maxclock /\ old_clock' \in 0 .. clock' /\ clock' - old_clock' <= sys.maxdelay
        /\ asleep' \in BOOLEAN /\ current' \in Nat
        /\ wakeup' \in [All -> 0 .. MaxClock] /\ hit' \in [All -> BOOLEAN]
    BY Zenon DEF TypeOK, WheelInv, Punctual
  <2>2. away' \subseteq Timeouts BY Zenon DEF WheelInv, TypeOK
  <2>3. \A u \in away' : u \notin Members(q') BY Zenon, <1>1 DEF WheelInv
  <2>4. \A u \in Timeouts : u \in Members(q') => ~hit'[u] BY Zenon, <1>1 DEF WheelInv
  <2> QED BY Zenon, <1>1, <2>1, <2>2, <2>3, <2>4, NextInv
<1>3. Armed' = Armed \ {t} BY Zenon, <1>1, <1>2, MapIs, MapNext DEF Mapped
<1>4. Late' = Late \ {t}
  <2>1. Late' = {u \in Members(q') : wakeup'[u] <= old_clock'} BY Zenon, <1>2, MapNext DEF Mapped
  <2>2. \A u : u \in Late' <=> u \in Late \ {t} BY Zenon, <1>1, <2>1, MapIs DEF Mapped
  <2> QED BY Zenon, <2>2
<1>5. Over' = {u \in All : hit[u] /\ ~(u \in Members(q) /\ u # t)}
  <2>1. Over' = {u \in All : hit'[u] /\ u \notin Members(q')} BY Zenon, <1>2, MapNext DEF Mapped
  <2> QED BY Zenon, <1>1, <2>1
<1>6. CASE t \in Members(q)
  <2>1. Over' = Over
    <3>1. ~hit[t] BY Zenon, <1>6 DEF WheelInv
    <3>2. \A u : u \in Over' <=> u \in Over BY Zenon, <1>5, <3>1, MapIs DEF Mapped
    <3> QED BY Zenon, <3>2
  <2>2. t \in Armed BY Zenon, <1>6, MapIs DEF Mapped
  <2>3. Abstract!Disarm(t)
    BY Zenon, <1>3, <1>4, <2>1, <2>2 DEF Abstract!Disarm, Armed, Late, Over
  <2> QED BY Zenon, <1>1, <1>2, <2>3
<1>7. CASE t \notin Members(q)
  <2>1. Armed' = Armed BY Zenon, <1>3, <1>7, MapIs DEF Mapped
  <2>2. Late' = Late BY Zenon, <1>4, <1>7, MapIs DEF Mapped
  <2>3. Over' = Over
    <3>1. \A u : u \in Over' <=> u \in Over BY Zenon, <1>5, <1>7, MapIs DEF Mapped
    <3> QED BY Zenon, <3>1
  <2>4. UNCHANGED Abstract!vars BY Zenon, <2>1, <2>2, <2>3 DEF Abstract!vars, Armed, Late, Over
  <2> QED BY Zenon, <1>1, <1>2, <2>4
<1> QED BY Zenon, <1>6, <1>7

\* reset_timeout() disarms a timeout.
LEMMA ResetStep ==
  ASSUME WheelInv, sys' = sys, NEW t \in Timeouts, Reset(t)
  PROVE  /\ WheelInv' /\ Members(q)' = Members(q) \ {t}
         /\ Abstract!Disarm(t) \/ UNCHANGED Abstract!vars
<1>1. t \in Members(q) BY Zenon, MembersAre DEF Reset, WheelInv
<1>2. /\ q' = Removed(t) /\ UNCHANGED <<clock, current, old_clock, wakeup, hit, asleep>>
      /\ away' \in {away, away \cup {t}}
  BY Zenon DEF Reset
<1> QED BY Zenon, <1>1, <1>2, DisarmStep

\* migrate_away() disarms a timeout that has not hit.
LEMMA MigrateAwayStep ==
  ASSUME WheelInv, sys' = sys, NEW t \in Timeouts, MigrateAway(t)
  PROVE  /\ WheelInv' /\ Members(q)' = Members(q) \ {t}
         /\ Abstract!Disarm(t) \/ UNCHANGED Abstract!vars
<1>1. t \in Members(q) \/ hit[t] BY Zenon, MembersAre DEF MigrateAway, WheelInv
<1>2. /\ q' = Removed(t) /\ UNCHANGED <<clock, current, old_clock, wakeup, hit, asleep>>
      /\ away' \in {away, away \cup {t}}
  BY Zenon DEF MigrateAway
<1> QED BY Zenon, <1>1, <1>2, DisarmStep

\* set_again() arms a timeout that has not hit for the time it had.
LEMMA SetAgainStep ==
  ASSUME WheelInv, sys' = sys, NEW t \in Timeouts, SetAgain(t)
  PROVE  /\ WheelInv'
         /\ \/ hit[t] /\ UNCHANGED <<q, current>> /\ UNCHANGED Abstract!vars
            \/ ~hit[t] /\ EnqueueTimer(wakeup[t]) /\ Members(q)' = Members(q) \cup {t} /\ Abstract!Rearm(t)
<1>1. TypeOK /\ IsSystem(sys) /\ wakeup \in [All -> Nat] /\ t \in All
  BY Zenon, Consts, WakeupNat DEF WheelInv, All
<1>2. Lists(q, wakeup) /\ t \notin Members(q) BY Zenon DEF WheelInv, SetAgain
<1>3. /\ clock' \in 0 .. sys.maxclock /\ old_clock' \in 0 .. clock' /\ clock' - old_clock' <= sys.maxdelay
      /\ asleep' \in BOOLEAN /\ away' \subseteq Timeouts
      /\ wakeup' \in [All -> 0 .. MaxClock] /\ hit' \in [All -> BOOLEAN]
  BY Zenon DEF SetAgain, TypeOK, WheelInv, Punctual
<1>4. UNCHANGED <<clock, old_clock, wakeup, hit>> /\ away' = away \ {t} BY Zenon DEF SetAgain
<1>5. CASE hit[t]
  <2>1. UNCHANGED <<q, current>> BY Zenon, <1>5 DEF SetAgain
  <2>2. Lists(q', wakeup') BY Zenon, <2>1, <1>2, <1>4
  <2>3. current' \in Nat BY Zenon, <2>1, <1>1 DEF TypeOK
  <2>4. \A u \in away' : u \notin Members(q') BY Zenon, <1>4, <2>1 DEF WheelInv
  <2>5. \A u \in Timeouts : u \in Members(q') => ~hit'[u] BY Zenon, <1>4, <2>1 DEF WheelInv
  <2>6. WheelInv' BY Zenon, <1>3, <2>2, <2>3, <2>4, <2>5, NextInv
  <2>7. UNCHANGED Abstract!vars BY Zenon, <1>4, <2>1 DEF Abstract!vars, is_set
  <2> QED BY Zenon, <1>5, <2>1, <2>6, <2>7
<1>6. CASE ~hit[t]
  <2>1. q' = Inserted(q, t, wakeup[t]) /\ EnqueueTimer(wakeup[t]) BY Zenon, <1>6 DEF SetAgain
  <2>2. wakeup[t] \in Nat /\ wakeup = [wakeup EXCEPT ![t] = wakeup[t]] BY Zenon, <1>1
  <2>3. Lists(q', wakeup') /\ Members(q') = Members(q) \cup {t}
    <3>1. /\ Lists(q', [wakeup EXCEPT ![t] = wakeup[t]])
          /\ Members(q') = Members(q) \cup {t}
      BY Zenon, <1>1, <1>2, <2>1, <2>2, InsertLists
    <3> QED BY Zenon, <3>1, <2>2, <1>4
  <2>4. current' \in Nat BY Zenon, <2>1, <2>2, TimerTyped
  <2>5. \A u \in away' : u \notin Members(q') BY Zenon, <1>4, <2>3 DEF WheelInv
  <2>6. \A u \in Timeouts : u \in Members(q') => ~hit'[u] BY Zenon, <1>4, <1>6, <2>3 DEF WheelInv
  <2>7. WheelInv' /\ Members(q)' = Members(q') BY Zenon, <1>3, <2>3, <2>4, <2>5, <2>6, NextInv
  <2>8. Armed' = Armed \cup {t} BY Zenon, <2>3, <2>7, MapIs, MapNext DEF Mapped
  <2>9. Late' = IF wakeup[t] <= old_clock THEN Late \cup {t} ELSE Late
    <3>1. Late' = {u \in Members(q') : wakeup'[u] <= old_clock'} BY Zenon, <2>7, MapNext DEF Mapped
    <3>2. \A u : u \in Late' <=> u \in Late \/ (u = t /\ wakeup[t] <= old_clock)
      BY Zenon, <1>4, <2>3, <3>1, MapIs DEF Mapped
    <3> QED BY Zenon, <3>2
  <2>10. Over' = Over
    <3>1. Over' = {u \in All : hit'[u] /\ u \notin Members(q')} BY Zenon, <2>7, MapNext DEF Mapped
    <3>2. \A u : u \in Over' <=> u \in Over BY Zenon, <1>4, <1>6, <2>3, <3>1, MapIs DEF Mapped
    <3> QED BY Zenon, <3>2
  <2>11. t \notin Armed \cup Over BY Zenon, <1>2, <1>6, MapIs DEF Mapped
  <2>12. Abstract!Rearm(t)
    BY Zenon, <1>4, <2>8, <2>9, <2>10, <2>11 DEF Abstract!Rearm, Armed, Late, Over
  <2> QED BY Zenon, <1>6, <2>1, <2>3, <2>7, <2>12
<1> QED BY Zenon, <1>5, <1>6

\* The lists and what has hit are not touched.
LEMMA IdleStep ==
  ASSUME WheelInv, sys' = sys, UNCHANGED <<q, current, old_clock, wakeup, hit, away>>,
         \/ Tick
         \/ clock' = clock /\ asleep' \in BOOLEAN
  PROVE  /\ WheelInv' /\ Members(q)' = Members(q)
         /\ (Tick /\ Abstract!Tick) \/ UNCHANGED Abstract!vars
<1>1. TypeOK /\ Lists(q', wakeup') /\ current' \in Nat /\ away' \subseteq Timeouts
      /\ wakeup' \in [All -> 0 .. MaxClock] /\ hit' \in [All -> BOOLEAN] /\ asleep' \in BOOLEAN
  BY Zenon DEF WheelInv, TypeOK, Tick
<1>2. /\ \A u \in away' : u \notin Members(q')
      /\ \A u \in Timeouts : u \in Members(q') => ~hit'[u]
  BY Zenon DEF WheelInv
<1>3. clock' \in 0 .. sys.maxclock /\ old_clock' \in 0 .. clock' /\ clock' - old_clock' <= sys.maxdelay
  <2>1. sys.maxdelay \in Nat /\ sys.maxclock \in Nat /\ clock \in Nat /\ old_clock \in Nat /\ old_clock <= clock
    BY Zenon, <1>1, Consts DEF IsSystem
  <2>2. CASE Tick BY <2>1, <2>2 DEF Tick
  <2>3. CASE clock' = clock BY Zenon, <2>3 DEF WheelInv, TypeOK, Punctual
  <2> QED BY Zenon, <2>2, <2>3
<1>4. WheelInv' /\ Members(q)' = Members(q') BY Zenon, <1>1, <1>2, <1>3, NextInv
<1>5. Armed' = Armed /\ Late' = Late /\ Over' = Over BY Zenon DEF Armed, Late, Over, is_set
<1>6. CASE Tick
  <2>1. Abstract!Tick BY Zenon, <1>5, <1>6 DEF Tick, Abstract!Tick, Armed, Late, Over
  <2> QED BY Zenon, <1>4, <1>6, <2>1
<1>7. CASE clock' = clock
  <2>1. UNCHANGED Abstract!vars BY Zenon, <1>5, <1>7 DEF Abstract!vars, Armed, Late, Over
  <2> QED BY Zenon, <1>4, <2>1
<1> QED BY Zenon, <1>6, <1>7

\* update_timer() finds the first timeout of all lists at the front of one of them.
LEMMA UpdateTimerIs ==
  ASSUME TypeOK, NEW qs, Lists(qs, wakeup), NEW max \in Nat, NEW clk \in Nat
  PROVE  /\ UpdateTimer(qs, max, clk) \in Nat
         /\ \A t \in Members(qs) : \/ UpdateTimer(qs, max, clk) <= wakeup[t]
                                   \/ UpdateTimer(qs, max, clk) <= clk + MinInterval
<1> DEFINE D == 0 .. sys.queues - 1
           F == {wakeup[Head(qs[i])] : i \in {j \in DOMAIN qs : qs[j] # <<>>}} \cup {max}
           m == Min(F)
<1>1. qs \in [D -> Seq(All)] /\ DOMAIN qs = D BY Zenon DEF Lists
<1>2. wakeup \in [All -> Nat] /\ MinInterval \in Nat BY Zenon, WakeupNat, Consts
<1>3. ASSUME NEW i \in D, qs[i] # <<>> PROVE Head(qs[i]) \in All /\ Head(qs[i]) = qs[i][1]
  <2>1. qs[i] \in Seq(All) BY Zenon, <1>1
  <2> QED BY <2>1, <1>3
<1>4. F \subseteq Nat /\ F # {} BY Zenon, <1>1, <1>2, <1>3
<1>5. m \in F /\ \A x \in F : m <= x
  <2> HIDE DEF F
  <2> QED BY Zenon, <1>4, Smallest
<1>6. UpdateTimer(qs, max, clk) = Programmed(m, clk) BY Zenon DEF UpdateTimer
<1> HIDE DEF m
<1>7. ASSUME NEW t \in Members(qs) PROVE m <= wakeup[t] /\ wakeup[t] \in Nat
  <2>1. PICK i \in D : t \in Range(qs[i]) BY Zenon DEF Members
  <2>2. qs[i] \in Seq(All) /\ Sorted(qs[i], wakeup) BY Zenon, <1>1 DEF Lists
  <2>3. /\ Len(qs[i]) \in Nat /\ DOMAIN qs[i] = 1 .. Len(qs[i])
        /\ \A k \in 1 .. Len(qs[i]) : qs[i][k] \in All
    BY Zenon, <2>2, LenProperties
  <2>4. PICK k \in 1 .. Len(qs[i]) : t = qs[i][k] BY Zenon, <2>1, <2>3 DEF Range
  <2>5. 1 \in 1 .. Len(qs[i]) /\ qs[i] # <<>> BY <2>3, <2>4, EmptySeq
  <2>6. wakeup[qs[i][1]] <= wakeup[t]
    <3>0. wakeup[t] \in Nat BY Zenon, <2>3, <2>4, <1>2
    <3>1. CASE k = 1 BY <3>0, <3>1, <2>4
    <3>2. CASE k # 1
      <4>1. 1 < k BY <3>2, <2>3
      <4> QED BY Zenon, <4>1, <2>2, <2>4, <2>5 DEF Sorted
    <3> QED BY Zenon, <3>1, <3>2
  <2>7. wakeup[qs[i][1]] \in F BY Zenon, <2>5, <1>1, <1>3
  <2>8. wakeup[t] \in Nat /\ wakeup[qs[i][1]] \in Nat BY Zenon, <2>3, <2>4, <2>5, <1>2
  <2>9. m <= wakeup[qs[i][1]] /\ m \in Nat BY Zenon, <2>7, <1>4, <1>5
  <2> QED BY <2>6, <2>8, <2>9
<1>8. m \in Nat BY Zenon, <1>4, <1>5
<1> HIDE DEF F
<1>9. Programmed(m, clk) \in Nat /\ (Programmed(m, clk) = m \/ Programmed(m, clk) = clk + MinInterval)
  BY <1>2, <1>8 DEF Programmed
<1>10. clk + MinInterval <= clk + MinInterval BY <1>2
<1> QED BY Zenon, <1>6, <1>7, <1>9, <1>10

\* do_timeouts() lets expire what is due.
LEMMA ExpireStep ==
  ASSUME WheelInv, sys' = sys, DoTimeouts
  PROVE  WheelInv' /\ Members(q)' = Members(q) \ Expired /\ Abstract!Expire
<1>1. TypeOK /\ IsSystem(sys) /\ wakeup \in [All -> Nat] /\ Punctual /\ Lists(q, wakeup)
  BY Zenon, Consts, WakeupNat DEF WheelInv
<1>2. /\ Lists(Rest, wakeup) /\ Members(Rest) = Members(q) \ Expired
      /\ \A t \in Expired : t \in Members(q) /\ wakeup[t] <= clock
      /\ \A t \in Members(q) : old_clock < wakeup[t] /\ wakeup[t] <= clock => t \in Expired
  BY Zenon, <1>1, ExpireLists
<1>3. q' = Rest /\ UNCHANGED <<clock, wakeup, away, asleep>> /\ old_clock' = clock
  BY Zenon DEF DoTimeouts, Rest
<1>4. hit' = [t \in All |-> hit[t] \/ t \in Expired] BY Zenon DEF DoTimeouts
<1>5. Members(q) \subseteq All BY Zenon, <1>1, MembersAre
<1>6. WheelInv' /\ Members(q)' = Members(q')
  <2>1. Lists(q', wakeup') BY Zenon, <1>2, <1>3
  <2>2. current' \in Nat
    <3>1. PICK m \in MaxIntervals :
            current' = IF sys.oneshot THEN UpdateTimer(q', clock + m, clock) ELSE current
      BY Zenon DEF DoTimeouts
    <3>2. clock + m \in Nat /\ clock \in Nat
      <4>1. m \in Nat /\ clock \in Nat BY Zenon, <1>1, Consts
      <4> QED BY <4>1
    <3>3. UpdateTimer(q', clock + m, clock) \in Nat BY Zenon, <1>1, <1>2, <1>3, <3>2, UpdateTimerIs
    <3> QED BY Zenon, <3>1, <3>3, <1>1 DEF TypeOK
  <2>3. clock' \in 0 .. sys.maxclock /\ old_clock' \in 0 .. clock' /\ clock' - old_clock' <= sys.maxdelay
    <3>1. clock \in 0 .. sys.maxclock /\ clock \in Nat /\ sys.maxdelay \in Nat
      BY Zenon, <1>1, Consts DEF TypeOK, IsSystem
    <3>2. clock \in 0 .. clock /\ clock - clock <= sys.maxdelay BY <3>1
    <3> QED BY Zenon, <3>1, <3>2, <1>3
  <2>4. /\ away' \subseteq Timeouts /\ asleep' \in BOOLEAN /\ wakeup' \in [All -> 0 .. MaxClock]
        /\ hit' \in [All -> BOOLEAN]
    BY Zenon, <1>1, <1>3, <1>4 DEF TypeOK
  <2>5. \A u \in away' : u \notin Members(q') BY Zenon, <1>2, <1>3 DEF WheelInv
  <2>6. \A u \in Timeouts : u \in Members(q') => ~hit'[u] BY Zenon, <1>2, <1>3, <1>4 DEF WheelInv, All
  <2> QED BY Zenon, <2>1, <2>2, <2>3, <2>4, <2>5, <2>6, NextInv
<1>7. Members(q)' = Members(q) \ Expired BY Zenon, <1>2, <1>3, <1>6
<1>8. Armed' = Armed \ Expired BY Zenon, <1>6, <1>7, MapIs, MapNext DEF Mapped
<1>9. Over' = Over \cup Expired
  <2>1. Over' = {u \in All : hit'[u] /\ u \notin Members(q)'} BY Zenon, <1>6, MapNext DEF Mapped
  <2>2. \A u : u \in Over' <=> u \in Over \cup Expired
    BY Zenon, <2>1, <1>2, <1>4, <1>5, <1>7, MapIs DEF Mapped
  <2> QED BY Zenon, <2>2
<1>10. Late' = Late \ Expired
  <2>1. Late' = {u \in Members(q)' : wakeup'[u] <= old_clock'} BY Zenon, <1>6, MapNext DEF Mapped
  <2>2. ASSUME NEW u \in Members(q) PROVE /\ ~(old_clock < wakeup[u]) <=> wakeup[u] <= old_clock
                                          /\ wakeup[u] <= old_clock => wakeup[u] <= clock
    <3>1. wakeup[u] \in Nat BY Zenon, <1>1, <1>5
    <3> QED BY <3>1, <1>1, Consts
  <2>3. \A u : u \in Late' <=> u \in Late \ Expired
    BY Zenon, <2>1, <2>2, <1>2, <1>3, <1>7, MapIs DEF Mapped
  <2> QED BY Zenon, <2>3
<1>11. Expired \in SUBSET {t \in Armed : wakeup[t] <= clock} BY Zenon, <1>2, MapIs DEF Mapped
<1>12. \A t \in Armed \ Late : wakeup[t] <= clock => t \in Expired
  <2>1. ASSUME NEW t \in Members(q), ~(wakeup[t] <= old_clock) PROVE old_clock < wakeup[t]
    <3>1. wakeup[t] \in Nat BY Zenon, <1>1, <1>5
    <3> QED BY <2>1, <3>1, <1>1, Consts
  <2> QED BY Zenon, <2>1, <1>2, MapIs DEF Mapped
<1>13. Abstract!Expire
  BY Zenon, <1>3, <1>8, <1>9, <1>10, <1>11, <1>12 DEF Abstract!Expire, Armed, Late, Over
<1> QED BY Zenon, <1>6, <1>7, <1>13

-------------------------------------------------------------------------------
(* The timer *)

\* TimerComes, said of the members of the wheel.
TimerInv ==
  /\ asleep => \A t \in Timeouts : t \notin Members(q)
  /\ sys.oneshot => \A t \in Members(q) :
       current <= wakeup[t] \/ current <= old_clock + MinInterval

\* In the wheel, TimerInv and TimerComes are the same.
LEMMA TimerInvIs == WheelInv => (TimerInv <=> TimerComes)
<1> SUFFICES ASSUME WheelInv PROVE TimerInv <=> TimerComes OBVIOUS
<1>1. (\A t : is_set(t) <=> t \in Members(q)) /\ Members(q) \subseteq All BY Zenon, MembersAre DEF WheelInv
<1> QED BY Zenon, <1>1 DEF TimerInv, TimerComes

\* enqueue() programs the timer for the new timeout and keeps what it promised to the
\* others.
LEMMA TimerArmed ==
  ASSUME WheelInv, TimerInv, sys' = sys, NEW t \in All, NEW w \in Nat, EnqueueTimer(w),
         wakeup' = [wakeup EXCEPT ![t] = w], old_clock' = old_clock, ~asleep, asleep' = asleep,
         Members(q)' = Members(q) \cup {t}
  PROVE  TimerInv'
<1>1. TypeOK /\ wakeup \in [All -> Nat] /\ Lists(q, wakeup) BY Zenon, WakeupNat DEF WheelInv
<1>2. Members(q) \subseteq All BY Zenon, <1>1, MembersAre
<1>3. current \in Nat /\ old_clock \in Nat /\ MinInterval \in Nat BY Zenon, <1>1, Consts DEF TypeOK
<1>4. ASSUME sys.oneshot, NEW u \in Members(q) \cup {t}
      PROVE  current' <= wakeup'[u] \/ current' <= old_clock + MinInterval
  <2>1. current' = IF w < current THEN Programmed(w, old_clock) ELSE current
    BY Zenon, <1>4 DEF EnqueueTimer
  <2>2. CASE u = t
    <3>1. wakeup'[u] = w BY Zenon, <2>2, <1>1
    <3> QED BY <3>1, <2>1, <1>3 DEF Programmed
  <2>3. CASE u # t
    <3>1. wakeup'[u] = wakeup[u] /\ wakeup[u] \in Nat BY Zenon, <2>3, <1>1, <1>2, <1>4
    <3>2. current <= wakeup[u] \/ current <= old_clock + MinInterval BY Zenon, <2>3, <1>4 DEF TimerInv
    <3> QED BY <3>1, <3>2, <2>1, <1>3 DEF Programmed
  <2> QED BY Zenon, <2>2, <2>3
<1> QED BY Zenon, <1>4 DEF TimerInv

\* A step that only takes timeouts away keeps what the timer promised.
LEMMA TimerKept ==
  ASSUME TimerInv, UNCHANGED <<sys, current, old_clock, wakeup>>, Members(q)' \subseteq Members(q),
         asleep' => asleep \/ \A t \in Timeouts : t \notin Members(q)
  PROVE  TimerInv'
BY Zenon DEF TimerInv

\* have_timeouts(): a timeout of a thread is in none of the lists.
LEMMA NoTimeouts ==
  ASSUME WheelInv, ~HaveTimeouts
  PROVE  \A t \in Timeouts : t \notin Members(q)
<1>1. q \in [0 .. sys.queues - 1 -> Seq(All)] BY Zenon DEF WheelInv, Lists
<1>2. ASSUME NEW t \in Timeouts, NEW i \in 0 .. sys.queues - 1, t \in Range(q[i]) PROVE FALSE
  <2>1. q[i] = <<>> \/ q[i] = <<Timeslice>> BY Zenon, <1>1 DEF HaveTimeouts
  <2>2. q[i] # <<>> BY <1>2 DEF Range
  <2>3. Range(<<Timeslice>>) = {Timeslice} BY DEF Range
  <2> QED BY Zenon, <1>2, <2>1, <2>2, <2>3, TimeoutAssumption
<1> QED BY Zenon, <1>2 DEF Members

\* do_timeouts() programs the timer for what is left in the lists.
LEMMA TimerExpire ==
  ASSUME WheelInv, TimerInv, sys' = sys, DoTimeouts
  PROVE  TimerInv'
<1>1. WheelInv' /\ Members(q)' = Members(q) \ Expired BY Zenon, ExpireStep
<1>2. TypeOK /\ IsSystem(sys) /\ wakeup \in [All -> Nat] /\ Punctual /\ Lists(q, wakeup)
  BY Zenon, Consts, WakeupNat DEF WheelInv
<1>3. Lists(Rest, wakeup) /\ Members(Rest) = Members(q) \ Expired BY Zenon, <1>2, ExpireLists
<1>4. q' = Rest /\ UNCHANGED <<clock, wakeup, asleep>> /\ old_clock' = clock BY Zenon DEF DoTimeouts, Rest
<1>5. ~asleep BY Zenon DEF DoTimeouts
<1>6. ASSUME sys.oneshot, NEW t \in Members(Rest)
      PROVE  current' <= wakeup[t] \/ current' <= clock + MinInterval
  <2>1. PICK m \in MaxIntervals : current' = UpdateTimer(Rest, clock + m, clock)
    BY Zenon, <1>4, <1>6 DEF DoTimeouts
  <2>2. clock + m \in Nat /\ clock \in Nat
    <3>1. m \in Nat /\ clock \in Nat BY Zenon, <1>2, Consts
    <3> QED BY <3>1
  <2> QED BY Zenon, <1>2, <1>3, <1>6, <2>1, <2>2, UpdateTimerIs
<1> QED BY Zenon, <1>1, <1>3, <1>4, <1>5, <1>6 DEF TimerInv

-------------------------------------------------------------------------------
(* The theorems *)

\* The queue starts without timeouts, and so does the set of timeouts.
LEMMA InitInv ==
  ASSUME Init
  PROVE  WheelInv /\ TimerInv /\ Abstract!Init
<1> DEFINE D == 0 .. sys.queues - 1
<1>1. /\ sys \in Systems /\ IsSystem(sys) /\ MaxClock \in Nat /\ MinInterval \in Nat
      /\ sys.maxclock \in 1 .. MaxClock /\ sys.maxdelay \in Nat
  BY Zenon, TimeoutAssumption DEF Init, IsSystem
<1>2. q \in [D -> {<<>>}] BY Zenon DEF Init
<1>3. <<>> \in Seq(All) /\ Range(<<>>) = {} /\ DOMAIN <<>> = {} BY DEF Range
<1>4. q \in [D -> Seq(All)] /\ \A i \in D : q[i] = <<>> BY Zenon, <1>2, <1>3
<1>5. Sorted(<<>>, wakeup)
  <2>1. Len(<<>>) = 0 /\ 1 .. 0 = {} OBVIOUS
  <2> QED BY Zenon, <2>1 DEF Sorted
<1>6. Lists(q, wakeup) /\ Members(q) = {}
  BY Zenon, <1>3, <1>4, <1>5 DEF Lists, Members
<1>7. TypeOK /\ Punctual
  <2>1. 0 \in 0 .. sys.maxclock /\ 0 \in 0 .. 0 /\ 0 \in 0 .. MaxClock /\ Infinite \in Nat /\ 0 - 0 <= sys.maxdelay /\ 0 \in Nat
    BY <1>1 DEF Infinite
  <2>2. DOMAIN q = D /\ \A i \in DOMAIN q : Range(q[i]) \subseteq All BY Zenon, <1>3, <1>4
  <2> QED BY Zenon, <1>1, <2>1, <2>2 DEF Init, TypeOK, Punctual
<1>8. WheelInv BY Zenon, <1>6, <1>7 DEF WheelInv, Init
<1>9. TimerInv BY Zenon, <1>6 DEF TimerInv
<1>10. Armed = {} /\ Late = {} /\ Over = {}
  BY Zenon, <1>6, <1>8, MapIs DEF Mapped, Init
<1>11. Abstract!Init BY Zenon, <1>10 DEF Init, Abstract!Init, Armed, Late, Over
<1> QED BY Zenon, <1>8, <1>9, <1>11

\* Every step of the queue keeps both invariants, and is a step of the set of timeouts
\* or changes nothing of it.
LEMMA NextStep ==
  ASSUME WheelInv, TimerInv, [Next]_vars
  PROVE  WheelInv' /\ TimerInv' /\ [Abstract!Next]_(Abstract!vars)
<1> DEFINE Goal == WheelInv' /\ TimerInv' /\ [Abstract!Next]_(Abstract!vars)
<1>1. TypeOK /\ wakeup \in [All -> Nat] /\ \A t \in Timeouts : t \in All
  BY Zenon, WakeupNat DEF WheelInv, All
<1>2. ASSUME UNCHANGED vars PROVE Goal
  <2>1. /\ sys' = sys /\ UNCHANGED <<q, current, old_clock, wakeup, hit, away>> /\ UNCHANGED <<sys, current, old_clock, wakeup>>
        /\ clock' = clock /\ asleep' = asleep /\ asleep' \in BOOLEAN
    BY Zenon, <1>1, <1>2 DEF vars, TypeOK
  <2>2. WheelInv' /\ Members(q)' = Members(q) /\ ((Tick /\ Abstract!Tick) \/ UNCHANGED Abstract!vars)
    BY Zenon, <2>1, IdleStep
  <2>3. TimerInv' BY Zenon, <2>1, <2>2, TimerKept
  <2> QED BY Zenon, <2>2, <2>3 DEF Abstract!Next
<1>3. ASSUME sys' = sys, Tick PROVE Goal
  <2>1. /\ UNCHANGED <<q, current, old_clock, wakeup, hit, away>> /\ UNCHANGED <<sys, current, old_clock, wakeup>>
        /\ asleep' = asleep
    BY Zenon, <1>3 DEF Tick
  <2>2. WheelInv' /\ Members(q)' = Members(q) /\ ((Tick /\ Abstract!Tick) \/ UNCHANGED Abstract!vars)
    BY Zenon, <1>3, <2>1, IdleStep
  <2>3. TimerInv' BY Zenon, <2>1, <2>2, TimerKept
  <2> QED BY Zenon, <2>2, <2>3 DEF Abstract!Next
<1>4. ASSUME sys' = sys, Sleep \/ WakeUp PROVE Goal
  <2>1. /\ UNCHANGED <<q, current, old_clock, wakeup, hit, away>> /\ UNCHANGED <<sys, current, old_clock, wakeup>>
        /\ clock' = clock /\ asleep' \in BOOLEAN
        /\ asleep' => ~HaveTimeouts
    BY Zenon, <1>4 DEF Sleep, WakeUp
  <2>2. WheelInv' /\ Members(q)' = Members(q) /\ ((Tick /\ Abstract!Tick) \/ UNCHANGED Abstract!vars)
    BY Zenon, <1>4, <2>1, IdleStep
  <2>3. TimerInv' BY Zenon, <2>1, <2>2, TimerKept, NoTimeouts
  <2> QED BY Zenon, <2>2, <2>3 DEF Abstract!Next
<1>5. ASSUME sys' = sys, SetTimeslice PROVE Goal
  <2>1. WheelInv' /\ Members(q)' = Members(q) \cup {Timeslice} /\ Abstract!Arm(Timeslice)
    BY Zenon, <1>5, TimesliceStep
  <2>2. PICK w \in clock + 1 .. sys.maxclock : wakeup' = [wakeup EXCEPT ![Timeslice] = w] /\ EnqueueTimer(w)
    BY Zenon, <1>5 DEF SetTimeslice
  <2>3. w \in Nat BY <1>1, Consts
  <2>4. old_clock' = old_clock /\ ~asleep /\ asleep' = asleep /\ Timeslice \in All
    BY Zenon, <1>5 DEF SetTimeslice, All
  <2>5. TimerInv' BY Zenon, <1>5, <2>1, <2>2, <2>3, <2>4, TimerArmed
  <2> QED BY Zenon, <2>1, <2>4, <2>5 DEF Abstract!Next
<1>6. ASSUME sys' = sys, NEW t \in Timeouts, Set(t) PROVE Goal
  <2>1. WheelInv' /\ Members(q)' = Members(q) \cup {t} /\ Abstract!Arm(t) BY Zenon, <1>6, SetStep
  <2>2. PICK w \in clock + 1 .. sys.maxclock : wakeup' = [wakeup EXCEPT ![t] = w] /\ EnqueueTimer(w)
    BY Zenon, <1>6 DEF Set
  <2>3. w \in Nat BY <1>1, Consts
  <2>4. old_clock' = old_clock /\ ~asleep /\ asleep' = asleep /\ t \in All BY Zenon, <1>1, <1>6 DEF Set
  <2>5. TimerInv' BY Zenon, <1>6, <2>1, <2>2, <2>3, <2>4, TimerArmed
  <2> QED BY Zenon, <2>1, <2>4, <2>5 DEF Abstract!Next
<1>7. ASSUME sys' = sys, NEW t \in Timeouts, Reset(t) \/ MigrateAway(t) PROVE Goal
  <2>1. WheelInv' /\ Members(q)' = Members(q) \ {t} /\ (Abstract!Disarm(t) \/ UNCHANGED Abstract!vars)
    BY Zenon, <1>7, ResetStep, MigrateAwayStep
  <2>2. UNCHANGED <<sys, current, old_clock, wakeup>> /\ asleep' = asleep
    BY Zenon, <1>7 DEF Reset, MigrateAway
  <2>3. TimerInv' BY Zenon, <2>1, <2>2, TimerKept
  <2> QED BY Zenon, <1>1, <2>1, <2>3 DEF Abstract!Next
<1>8. ASSUME sys' = sys, NEW t \in Timeouts, SetAgain(t) PROVE Goal
  <2>1. /\ WheelInv'
        /\ \/ hit[t] /\ UNCHANGED <<q, current>> /\ UNCHANGED Abstract!vars
           \/ ~hit[t] /\ EnqueueTimer(wakeup[t]) /\ Members(q)' = Members(q) \cup {t} /\ Abstract!Rearm(t)
    BY Zenon, <1>8, SetAgainStep
  <2>2. old_clock' = old_clock /\ wakeup' = wakeup /\ ~asleep /\ asleep' = asleep /\ t \in All
    BY Zenon, <1>1, <1>8 DEF SetAgain
  <2>3. CASE hit[t]
    <3>1. q' = q /\ UNCHANGED <<sys, current, old_clock, wakeup>> /\ UNCHANGED Abstract!vars
      BY Zenon, <1>8, <2>1, <2>2, <2>3
    <3>2. Members(q)' = Members(q) BY Zenon, <3>1 DEF Members
    <3>3. TimerInv' BY Zenon, <3>1, <3>2, <2>2, TimerKept
    <3> QED BY Zenon, <2>1, <3>1, <3>3
  <2>4. CASE ~hit[t]
    <3>1. EnqueueTimer(wakeup[t]) /\ Members(q)' = Members(q) \cup {t} /\ Abstract!Rearm(t)
      BY Zenon, <2>1, <2>4
    <3>2. wakeup[t] \in Nat BY Zenon, <1>1, <2>2
    <3>3. wakeup' = [wakeup EXCEPT ![t] = wakeup[t]] BY Zenon, <1>1, <2>2
    <3>4. TimerInv' BY Zenon, <1>8, <2>2, <3>1, <3>2, <3>3, TimerArmed
    <3> QED BY Zenon, <2>1, <2>2, <3>1, <3>4 DEF Abstract!Next
  <2> QED BY Zenon, <2>3, <2>4
<1>9. ASSUME sys' = sys, DoTimeouts PROVE Goal
  <2>1. WheelInv' /\ Abstract!Expire BY Zenon, <1>9, ExpireStep
  <2>2. TimerInv' BY Zenon, <1>9, TimerExpire
  <2> QED BY Zenon, <2>1, <2>2 DEF Abstract!Next
<1> HIDE DEF Goal
<1>10. Goal BY Zenon, <1>2, <1>3, <1>4, <1>5, <1>6, <1>7, <1>8, <1>9 DEF Next
<1> QED BY Zenon, <1>10 DEF Goal

\* The invariant of the wheel and the timer holds always.
LEMMA AlwaysInv == Spec => [](WheelInv /\ TimerInv)
<1>1. Init => WheelInv /\ TimerInv BY Zenon, InitInv
<1>2. WheelInv /\ TimerInv /\ [Next]_vars => (WheelInv /\ TimerInv)' BY Zenon, NextStep
<1> QED BY <1>1, <1>2, PTL DEF Spec

\* The lists hold timeouts only, and _old_clock never runs ahead of the clock, for any
\* number and width of lists and any length of the timer interrupt's delays.
THEOREM TimeoutsTyped == Spec => []TypeOK
<1>1. WheelInv => TypeOK BY Zenon DEF WheelInv
<1> QED BY <1>1, AlwaysInv, PTL

\* No timeout waits for a timer that does not come: the idle thread disables the tick
\* only without a timeout of a thread, and in one-shot mode enqueue() and do_timeouts()
\* keep the timer programmed to the first timeout or the minimal interval.
THEOREM TimerAlwaysComes == Spec => []TimerComes
<1>1. WheelInv /\ TimerInv => TimerComes BY Zenon, TimerInvIs
<1> QED BY <1>1, AlwaysInv, PTL

\* The wheel of sorted lists of timeout.h implements a plain set of timeouts: do_timeouts()
\* lets every timeout expire that is due, and none that is not, whatever the number of
\* lists, the width of a slot, the width of int and the delay of the interrupt.
THEOREM WheelIsTimeoutSet == Spec => ImplementsTimeoutSet
<1>1. Init => Abstract!Init BY Zenon, InitInv
<1>2. WheelInv /\ TimerInv /\ [Next]_vars => [Abstract!Next]_(Abstract!vars) BY Zenon, NextStep
<1> QED BY <1>1, <1>2, AlwaysInv, PTL DEF Spec, ImplementsTimeoutSet, Abstract!Spec

===============================================================================
