------------------------ MODULE TimerService_proofs ------------------------
(***************************************************************************)
(* The wheel keeps time, for arrays of any size: a timer is called back by *)
(* the tick it was set for.                                                *)
(***************************************************************************)
EXTENDS TimerService, TLAPS

-----------------------------------------------------------------------------
(* Remainders                                                              *)

LEMMA DivMod ==
    ASSUME NEW a \in Nat, NEW n \in Nat \ {0}
    PROVE  /\ a = (a \div n) * n + (a % n)
           /\ a \div n \in Nat
           /\ a % n \in 0 .. n - 1
  OBVIOUS

LEMMA Remainder ==
    ASSUME NEW q \in Nat, NEW r \in Nat, NEW n \in Nat \ {0}, r < n
    PROVE  /\ (q * n + r) % n = r
           /\ (q * n + r) \div n = q
  OBVIOUS

LEMMA Multiple ==
    ASSUME NEW q \in Nat, NEW n \in Nat \ {0}
    PROVE  (q * n) % n = 0 /\ (q * n) \div n = q
  <1>1. q * n + 0 = q * n
    OBVIOUS
  <1> QED
    BY <1>1, Remainder

\* Whole turns do not change a remainder.
LEMMA Turns ==
    ASSUME NEW x \in Nat, NEW y \in Nat, NEW n \in Nat \ {0}
    PROVE  (x + y * n) % n = x % n
  <1> DEFINE q == x \div n
             r == x % n
  <1>1. x = q * n + r /\ q \in Nat /\ r \in 0 .. n - 1
    BY DivMod
  <1> HIDE DEF q, r
  <1>2. x + y * n = (q + y) * n + r
    BY <1>1
  <1>3. ((q + y) * n + r) % n = r
    BY <1>1, Remainder
  <1> QED
    BY <1>2, <1>3 DEF r

-----------------------------------------------------------------------------
(* The grains of the arrays                                                *)

LEMMA Grains ==
    /\ Grain(0) = kSection1Num
    /\ \A s \in 0 .. 3 : Grain(s + 1) = Grain(s) * kSection2Num
    /\ \A s \in 0 .. 4 : Grain(s) \in Nat \ {0}
    /\ \A s \in 0 .. 3 : Grain(s) < Grain(s + 1)
  <1> DEFINE M == kSection1Num
             B == kSection2Num
  <1>0. M \in Nat \ {0, 1} /\ B \in Nat \ {0, 1}
    BY WheelAssumption
  <1>1. /\ Grain(0) = M
        /\ Grain(1) = Grain(0) * B
        /\ Grain(2) = Grain(1) * B
        /\ Grain(3) = Grain(2) * B
        /\ Grain(4) = Grain(3) * B
    BY DEF Grain
  <1> HIDE DEF M, B
  <1>2. \A g \in Nat \ {0} : g * B \in Nat \ {0} /\ g < g * B
    BY <1>0
  <1>3. Grain(0) \in Nat \ {0}
    BY <1>0, <1>1
  <1>4. Grain(1) \in Nat \ {0} /\ Grain(0) < Grain(1)
    BY <1>1, <1>2, <1>3
  <1>5. Grain(2) \in Nat \ {0} /\ Grain(1) < Grain(2)
    BY <1>1, <1>2, <1>4
  <1>6. Grain(3) \in Nat \ {0} /\ Grain(2) < Grain(3)
    BY <1>1, <1>2, <1>5
  <1>7. Grain(4) \in Nat \ {0} /\ Grain(3) < Grain(4)
    BY <1>1, <1>2, <1>6
  <1>8. \A s \in 0 .. 3 : s = 0 \/ s = 1 \/ s = 2 \/ s = 3
    OBVIOUS
  <1>9. \A s \in 0 .. 4 : s = 0 \/ s = 1 \/ s = 2 \/ s = 3 \/ s = 4
    OBVIOUS
  <1>10. \A s \in 0 .. 3 : Grain(s + 1) = Grain(s) * B /\ Grain(s) < Grain(s + 1)
    <2> TAKE s \in 0 .. 3
    <2>1. CASE s = 0
      BY <2>1, <1>1, <1>4
    <2>2. CASE s = 1
      BY <2>2, <1>1, <1>5
    <2>3. CASE s = 2
      BY <2>3, <1>1, <1>6
    <2>4. CASE s = 3
      BY <2>4, <1>1, <1>7
    <2> QED
      BY <1>8, <2>1, <2>2, <2>3, <2>4
  <1>11. \A s \in 0 .. 4 : Grain(s) \in Nat \ {0}
    BY <1>3, <1>4, <1>5, <1>6, <1>7, <1>9
  <1> QED
    BY <1>1, <1>10, <1>11 DEF M, B

\* A coarser list holds whole finer ones.
LEMMA GrainsDivide ==
    ASSUME NEW s \in 0 .. 4, NEW u \in 0 .. 4, s <= u
    PROVE  \E k \in Nat \ {0} : Grain(u) = k * Grain(s)
  <1> DEFINE B == kSection2Num
  <1>0. B \in Nat \ {0}
    BY WheelAssumption
  <1> HIDE DEF B
  <1>1. \A v \in s .. 3 : (\E k \in Nat \ {0} : Grain(v) = k * Grain(s))
            => \E k \in Nat \ {0} : Grain(v + 1) = k * Grain(s)
    <2> TAKE v \in s .. 3
    <2> HAVE \E k \in Nat \ {0} : Grain(v) = k * Grain(s)
    <2>1. PICK k \in Nat \ {0} : Grain(v) = k * Grain(s)
      OBVIOUS
    <2>2. Grain(v + 1) = Grain(v) * B /\ Grain(s) \in Nat
      BY Grains DEF B
    <2>3. Grain(v + 1) = (k * B) * Grain(s) /\ k * B \in Nat \ {0}
      BY <2>1, <2>2, <1>0
    <2> QED
      BY <2>3
  <1>2. Grain(s) = 1 * Grain(s)
    BY Grains
  <1> DEFINE P(v) == \E k \in Nat \ {0} : Grain(v) = k * Grain(s)
  <1>3. P(s)
    BY <1>2
  <1>4. \A v \in s .. 3 : P(v) => P(v + 1)
    BY <1>1
  <1> HIDE DEF P
  <1>5. s + 1 <= 4 => P(s + 1)
    BY <1>3, <1>4
  <1>6. s + 2 <= 4 => P(s + 2)
    BY <1>5, <1>4
  <1>7. s + 3 <= 4 => P(s + 3)
    BY <1>6, <1>4
  <1>8. s + 4 <= 4 => P(s + 4)
    BY <1>7, <1>4
  <1>9. P(u)
    BY <1>3, <1>5, <1>6, <1>7, <1>8
  <1> QED
    BY <1>9 DEF P

LEMMA SpanType == Span \in Nat \ {0, 1}
  <1>1. /\ Grain(3) \in Nat \ {0}
        /\ Grain(3) < Grain(3 + 1)
        /\ Grain(4) \in Nat \ {0}
    BY Grains
  <1> QED
    BY <1>1 DEF Span

-----------------------------------------------------------------------------
(* Distances on the clock                                                  *)

Times == 0 .. Span - 1

LEMMA MinusIs ==
    ASSUME NEW a \in Times, NEW b \in Times
    PROVE  /\ Minus(a, b) \in Times
           /\ a >= b => Minus(a, b) = a - b
           /\ a < b => Minus(a, b) = a + Span - b
  BY SpanType DEF Minus, Times

LEMMA MinusNat ==
    ASSUME NEW a \in Times, NEW b \in Times
    PROVE  Minus(a, b) \in Nat
  BY MinusIs DEF Times

LEMMA Successor ==
    ASSUME NEW b \in Times
    PROVE  (b + 1) % Span = IF b = Span - 1 THEN 0 ELSE b + 1
  BY SpanType DEF Times

\* As the clock goes on, what is ahead comes a tick closer.
LEMMA Closer ==
    ASSUME NEW a \in Times, NEW b \in Times, Minus(a, b) # 0
    PROVE  Minus(a, (b + 1) % Span) = Minus(a, b) - 1
  <1> DEFINE c == (b + 1) % Span
  <1>1. c = (IF b = Span - 1 THEN 0 ELSE b + 1) /\ c \in Times
    BY Successor, SpanType DEF Times
  <1> HIDE DEF c
  <1>2. a # b
    BY MinusIs DEF Times
  <1>3. /\ Minus(a, c) \in Times
        /\ a >= c => Minus(a, c) = a - c
        /\ a < c => Minus(a, c) = a + Span - c
    BY <1>1, MinusIs
  <1>4. /\ a >= b => Minus(a, b) = a - b
        /\ a < b => Minus(a, b) = a + Span - b
    BY MinusIs
  <1>5. Minus(a, c) = Minus(a, b) - 1
    BY <1>1, <1>2, <1>3, <1>4, SpanType DEF Times
  <1> QED
    BY <1>5 DEF c

LEMMA Ahead ==
    ASSUME NEW b \in Times, NEW x \in Times
    PROVE  /\ (b + x) % Span \in Times
           /\ Minus((b + x) % Span, b) = x
  <1> DEFINE a == (b + x) % Span
  <1>1. a \in Times
    BY SpanType DEF Times
  <1>2. a = IF b + x < Span THEN b + x ELSE b + x - Span
    BY SpanType DEF Times
  <1> HIDE DEF a
  <1>3. /\ a >= b => Minus(a, b) = a - b
        /\ a < b => Minus(a, b) = a + Span - b
    BY <1>1, MinusIs
  <1>4. Minus(a, b) = x
    BY <1>1, <1>2, <1>3, SpanType DEF Times
  <1> QED
    BY <1>1, <1>4 DEF a

LEMMA NoDistance ==
    ASSUME NEW a \in Times, NEW b \in Times, Minus(a, b) = 0
    PROVE  a = b
  <1>1. /\ a >= b => Minus(a, b) = a - b
        /\ a < b => Minus(a, b) = a + Span - b
    BY MinusIs
  <1> QED
    BY <1>1, SpanType DEF Times

\* The distance is the difference, up to a turn of the clock, which is whole
\* turns of each array.
LEMMA Difference ==
    ASSUME NEW a \in Times, NEW b \in Times, NEW s \in 0 .. 4
    PROVE  /\ Minus(a, b) \in Nat
           /\ \E k \in Nat : b + Minus(a, b) = a + k * Grain(s)
  <1>1. PICK k \in Nat : Span = k * Grain(s)
    BY GrainsDivide DEF Span
  <1>2. /\ Minus(a, b) \in Nat
        /\ a >= b => Minus(a, b) = a - b
        /\ a < b => Minus(a, b) = a + Span - b
    BY MinusIs DEF Times
  <1>3. Grain(s) \in Nat /\ a \in Nat /\ b \in Nat
    BY Grains DEF Times
  <1>4. CASE a >= b
    <2>1. b + Minus(a, b) = a + 0 * Grain(s)
      BY <1>2, <1>3, <1>4
    <2> QED
      BY <1>2, <2>1
  <1>5. CASE a < b
    <2>1. b + Minus(a, b) = a + k * Grain(s)
      BY <1>1, <1>2, <1>3, <1>5, SpanType
    <2> QED
      BY <1>2, <2>1
  <1> QED
    BY <1>3, <1>4, <1>5

\* Two times with one place in the near array, less than a turn of it apart,
\* are the same.
LEMMA NearIsExact ==
    ASSUME NEW a \in Times, NEW b \in Times,
           a % kSection1Num = b % kSection1Num,
           Minus(a, b) < kSection1Num
    PROVE  a = b
  <1> DEFINE M == kSection1Num
             d == Minus(a, b)
             r == a % M
             p == a \div M
             q == b \div M
  <1>1. M \in Nat \ {0} /\ a \in Nat /\ b \in Nat
    BY WheelAssumption DEF Times
  <1>2. a = p * M + r /\ b = q * M + r /\ p \in Nat /\ q \in Nat /\ r \in 0 .. M - 1
    BY <1>1, DivMod
  <1>3. d \in Nat /\ d < M
    BY Difference, <1>1
  <1>4. PICK k \in Nat : b + d = a + k * M
    BY Difference, Grains
  <1> HIDE DEF M, d, r, p, q
  <1>5. q * M + d = (p + k) * M
    BY <1>1, <1>2, <1>3, <1>4
  <1>6. d = 0
    <2>1. (q * M + d) % M = d
      <3>1. q \in Nat /\ d \in Nat /\ M \in Nat \ {0} /\ d < M
        BY <1>1, <1>2, <1>3
      <3> QED
        BY <3>1, Remainder, Zenon
    <2>2. ((p + k) * M) % M = 0
      BY <1>1, <1>2, Multiple
    <2> QED
      BY <1>5, <2>1, <2>2
  <1> QED
    BY <1>6, NoDistance DEF d

\* The first tick of a list: a timer as far ahead as its time is into the list
\* finds the clock at the list's beginning, and at the list's index.
LEMMA ListBegins ==
    ASSUME NEW a \in Times, NEW b \in Times, NEW s \in 0 .. 3,
           Minus(a, b) = a % Grain(s)
    PROVE  /\ b % Grain(s) = 0
           /\ GetSection2Index(a, s) = GetSection2Index(b, s)
  <1> DEFINE g == Grain(s)
             B == kSection2Num
             p == a \div g
             r == a % g
  <1>1. g \in Nat \ {0} /\ B \in Nat \ {0} /\ a \in Nat /\ b \in Nat
    BY Grains, WheelAssumption DEF Times
  <1>2. a = p * g + r /\ p \in Nat /\ r \in 0 .. g - 1
    BY <1>1, DivMod
  <1>3. Grain(s + 1) = g * B
    BY Grains
  <1>4. PICK k \in Nat : b + r = a + k * Grain(s + 1)
    BY Difference
  <1> HIDE DEF g, B, p, r
  <1>5. b = (p + k * B) * g
    BY <1>1, <1>2, <1>3, <1>4
  <1>6. p + k * B \in Nat
    BY <1>1, <1>2
  <1>7. b % g = 0 /\ b \div g = p + k * B
    BY <1>1, <1>5, <1>6, Multiple
  <1>8. (p + k * B) % B = p % B
    BY <1>1, <1>2, Turns
  <1> QED
    BY <1>7, <1>8 DEF g, p, B, GetSection2Index

\* At the beginning of a list, its timers are due within it, or after a whole
\* turn of its array.
LEMMA ListIsDue ==
    ASSUME NEW a \in Times, NEW b \in Times, NEW s \in 0 .. 3,
           b % Grain(s) = 0,
           GetSection2Index(a, s) = GetSection2Index(b, s)
    PROVE  Minus(a, b) < Grain(s) \/ Minus(a, b) >= Grain(s + 1)
  <1> DEFINE g == Grain(s)
             B == kSection2Num
             h == Grain(s + 1)
             d == Minus(a, b)
             x == a \div g
             y == b \div g
             r == a % g
             i == x % B
             p == x \div B
             q == y \div B
  <1>1. g \in Nat \ {0} /\ B \in Nat \ {0} /\ a \in Nat /\ b \in Nat
    BY Grains, WheelAssumption DEF Times
  <1>2. a = x * g + r /\ b = y * g + 0 /\ x \in Nat /\ y \in Nat /\ r \in 0 .. g - 1
    BY <1>1, DivMod
  <1>3. x = p * B + i /\ p \in Nat /\ i \in 0 .. B - 1
    BY <1>1, <1>2, DivMod
  <1>4. y = q * B + i /\ q \in Nat
    <2>1. i = y % B
      BY DEF GetSection2Index
    <2>2. y = q * B + (y % B) /\ q \in Nat
      BY <1>1, <1>2, DivMod
    <2> HIDE DEF i, q, y, B
    <2> QED
      BY <2>1, <2>2
  <1>5. h = g * B /\ h \in Nat \ {0}
    BY Grains
  <1>6. d \in Nat
    BY Difference
  <1>7. PICK k \in Nat : b + d = a + k * h
    BY Difference
  <1> HIDE DEF g, B, h, d, x, y, r, i, p, q
  <1>8. a = p * h + i * g + r
    BY <1>1, <1>2, <1>3, <1>5
  <1>9. b = q * h + i * g
    BY <1>1, <1>2, <1>3, <1>4, <1>5
  <1>10. q * h + d = (p + k) * h + r
    BY <1>1, <1>2, <1>3, <1>4, <1>5, <1>6, <1>7, <1>8, <1>9
  <1>11. r < h /\ r < g
    BY <1>1, <1>2, <1>5
  <1>12. CASE d < h
    <2>1. (q * h + d) % h = d
      BY <1>4, <1>5, <1>6, <1>12, Remainder
    <2>2. p + k \in Nat /\ r \in Nat
      BY <1>1, <1>2, <1>3
    <2>3. ((p + k) * h + r) % h = r
      BY <1>5, <1>11, <2>2, Remainder
    <2> QED
      BY <1>10, <1>11, <2>1, <2>3 DEF d, g
  <1>13. CASE d >= h
    BY <1>13 DEF d, h
  <1> QED
    BY <1>5, <1>6, <1>12, <1>13

\* When every finer array is at its first list, the index says whether this
\* one is.
LEMMA FirstList ==
    ASSUME NEW b \in Times, NEW s \in 0 .. 3, b % Grain(s) = 0
    PROVE  GetSection2Index(b, s) = 0 <=> b % Grain(s + 1) = 0
  <1> DEFINE g == Grain(s)
             B == kSection2Num
             h == Grain(s + 1)
             y == b \div g
             q == y \div B
             i == y % B
             j == b \div h
  <1>1. g \in Nat \ {0} /\ B \in Nat \ {0} /\ b \in Nat
    BY Grains, WheelAssumption DEF Times
  <1>2. b = y * g + 0 /\ y \in Nat
    BY <1>1, DivMod
  <1>3. y = q * B + i /\ q \in Nat /\ i \in 0 .. B - 1
    BY <1>1, <1>2, DivMod
  <1>4. h = g * B /\ h \in Nat \ {0}
    BY Grains
  <1>5. b = j * h + (b % h) /\ j \in Nat
    BY <1>1, <1>4, DivMod
  <1>6. i = GetSection2Index(b, s)
    BY DEF GetSection2Index
  <1> HIDE DEF g, B, h, y, q, i, j
  <1>7. ASSUME i = 0 PROVE b % h = 0
    <2>1. b = q * h
      BY <1>1, <1>2, <1>3, <1>4, <1>7
    <2> QED
      BY <1>3, <1>4, <2>1, Multiple
  <1>8. ASSUME b % h = 0 PROVE i = 0
    <2>1. b = (j * B) * g /\ j * B \in Nat
      BY <1>1, <1>4, <1>5, <1>8
    <2>2. y = j * B
      BY <1>1, <2>1, Multiple DEF y
    <2> QED
      BY <1>1, <1>5, <2>2, Multiple DEF i
  <1> QED
    BY <1>6, <1>7, <1>8 DEF h

LEMMA Coarser ==
    ASSUME NEW b \in Times, NEW s \in 0 .. 4, NEW u \in 0 .. 4, s <= u,
           b % Grain(u) = 0
    PROVE  b % Grain(s) = 0
  <1> DEFINE g == Grain(s)
             h == Grain(u)
             j == b \div h
  <1>1. g \in Nat \ {0} /\ h \in Nat \ {0} /\ b \in Nat
    BY Grains DEF Times
  <1>2. b = j * h + 0 /\ j \in Nat
    BY <1>1, DivMod
  <1>3. PICK k \in Nat : h = k * g
    BY GrainsDivide
  <1> HIDE DEF g, h, j
  <1>4. b = (j * k) * g /\ j * k \in Nat
    BY <1>1, <1>2, <1>3
  <1>5. b % g = 0
    BY <1>1, <1>4, Multiple
  <1> QED
    BY <1>5 DEF g

-----------------------------------------------------------------------------
(* The lists of the wheel                                                  *)

\* A timer for time a may lie in list l before the Update of tick n splices:
\* in the near array if it is less than a turn of it ahead; or in a coarse one
\* whose list begins no earlier than n, and later if that array is in sorted.
Place(l, a, n, sorted) ==
    \/ l = AddSection1(a) /\ Minus(a, n) < kSection1Num
    \/ \E s \in 0 .. 3 :
         /\ l = AddSection2(s, a)
         /\ a % Grain(s) <= Minus(a, n)
         /\ s \in sorted => a % Grain(s) < Minus(a, n)

\* The arrays whose list for the tick in progress has been sorted down, or has
\* not begun.
Sorted == CASE pc = "splice" -> 0 .. 3
            [] pc = "section2" -> 0 .. section - 1
            [] OTHER -> {}

PlacedInv ==
    \A t \in Timers :
        state[t] = "armed" => Place(slot[t], tm[t], NextTick, Sorted)

\* Until Update returns the clock is one tick ahead of it; it comes to an
\* array when all finer ones are at their first list; and it calls back what
\* was set for its tick.
ClockInv ==
    /\ pc \in {"section2", "splice", "call"} => cur_time = (curtime + 1) % Span
    /\ pc = "section2" => curtime % Grain(section) = 0
    /\ \A t \in Timers : state[t] \in {"expired", "called"} => pc = "call"
    /\ FiresOnItsTick

\* No timer is further ahead than it was set for.
BoundInv ==
    \A t \in Timers : state[t] = "armed" =>
        \E ms \in Requests : Minus(tm[t], NextTick) <= Timeout(ms) + 1

WheelInv == PlacedInv /\ ClockInv /\ BoundInv

\* No timer is set for the one distance that the near array takes by the clock
\* but not by the Update in progress, nor for the whole span but one tick
\* (which any period of two milliseconds or more rules out).
RaceFree == \A ms \in Requests : Timeout(ms) \notin {kSection1Num - 1, Span - 1}

LEMMA TwoIsNotNone == \A x, y : <<x, y>> # NoList
  BY DEF NoList

LEMMA ListTypes ==
    ASSUME NEW a \in Times
    PROVE  /\ AddSection1(a) \in Lists
           /\ \A s \in 0 .. 3 : AddSection2(s, a) \in Lists
  <1>1. a % kSection1Num \in 0 .. kSection1Num - 1
    BY WheelAssumption, DivMod DEF Times
  <1>2. \A s \in 0 .. 3 : a \div Grain(s) \in Nat
    <2> TAKE s \in 0 .. 3
    <2>1. a \in Nat /\ Grain(s) \in Nat \ {0}
      BY Grains DEF Times
    <2> QED
      BY <2>1, DivMod
  <1>3. \A s \in 0 .. 3 : GetSection2Index(a, s) \in 0 .. kSection2Num - 1
    BY <1>2, WheelAssumption, DivMod DEF GetSection2Index
  <1>4. \A s \in 0 .. 3 : s + 1 \in 1 .. 4
    OBVIOUS
  <1> QED
    BY <1>1, <1>3, <1>4 DEF AddSection1, AddSection2, Lists

\* The list of DoAdd: the near array below a turn of it, else the finest one
\* that reaches so far.
LEMMA DoAddIs ==
    ASSUME NEW n \in Times, NEW a \in Times
    PROVE  \/ Minus(a, n) < kSection1Num /\ DoAdd(n, a) = AddSection1(a)
           \/ \E s \in 0 .. 3 : /\ Grain(s) <= Minus(a, n)
                                /\ s < 3 => Minus(a, n) < Grain(s + 1)
                                /\ DoAdd(n, a) = AddSection2(s, a)
  <1> DEFINE d == Minus(a, n)
  <1>1. d \in Nat
    BY MinusIs DEF Times
  <1>2. /\ Grain(0) = kSection1Num
        /\ Grain(0) \in Nat /\ Grain(1) \in Nat /\ Grain(2) \in Nat /\ Grain(3) \in Nat
        /\ Grain(0) < Grain(0 + 1) /\ Grain(1) < Grain(1 + 1) /\ Grain(2) < Grain(2 + 1)
    BY Grains
  <1>3. DoAdd(n, a) = CASE d < kSection1Num -> AddSection1(a)
                        [] d >= kSection1Num /\ d < Grain(1) -> AddSection2(0, a)
                        [] d >= Grain(1) /\ d < Grain(2) -> AddSection2(1, a)
                        [] d >= Grain(2) /\ d < Grain(3) -> AddSection2(2, a)
                        [] OTHER -> AddSection2(3, a)
    BY DEF DoAdd
  <1> HIDE DEF d
  <1>4. CASE d < Grain(0)
    BY <1>1, <1>2, <1>3, <1>4 DEF d
  <1>5. CASE Grain(0) <= d /\ d < Grain(1)
    <2>1. DoAdd(n, a) = AddSection2(0, a)
      BY <1>1, <1>2, <1>3, <1>5
    <2> QED
      BY <1>5, <2>1 DEF d
  <1>6. CASE Grain(1) <= d /\ d < Grain(2)
    <2>1. DoAdd(n, a) = AddSection2(1, a)
      BY <1>1, <1>2, <1>3, <1>6
    <2> QED
      BY <1>6, <2>1 DEF d
  <1>7. CASE Grain(2) <= d /\ d < Grain(3)
    <2>1. DoAdd(n, a) = AddSection2(2, a)
      BY <1>1, <1>2, <1>3, <1>7
    <2> QED
      BY <1>7, <2>1 DEF d
  <1>8. CASE Grain(3) <= d
    <2>1. DoAdd(n, a) = AddSection2(3, a)
      BY <1>1, <1>2, <1>3, <1>8
    <2> QED
      BY <1>8, <2>1 DEF d
  <1> QED
    BY <1>1, <1>2, <1>4, <1>5, <1>6, <1>7, <1>8

LEMMA DoAddType ==
    ASSUME NEW n \in Times, NEW a \in Times
    PROVE  DoAdd(n, a) \in Lists /\ DoAdd(n, a) # NoList
  <1>1. /\ AddSection1(a) # NoList
        /\ \A s \in 0 .. 3 : AddSection2(s, a) # NoList
    BY TwoIsNotNone DEF AddSection1, AddSection2
  <1> QED
    BY <1>1, DoAddIs, ListTypes

LEMMA IntoList ==
    ASSUME NEW a \in Times, NEW s \in 0 .. 3
    PROVE  a % Grain(s) \in Nat /\ a % Grain(s) < Grain(s) /\ Grain(s) \in Nat
  <1>1. a \in Nat /\ Grain(s) \in Nat \ {0}
    BY Grains DEF Times
  <1>2. a % Grain(s) \in 0 .. Grain(s) - 1
    BY <1>1, DivMod
  <1> QED
    BY <1>1, <1>2

\* DoAdd at tick n.
LEMMA PlaceNew ==
    ASSUME NEW n \in Times, NEW a \in Times, NEW sorted
    PROVE  Place(DoAdd(n, a), a, n, sorted)
  <1>1. Minus(a, n) \in Nat
    BY MinusIs DEF Times
  <1>2. CASE Minus(a, n) < kSection1Num /\ DoAdd(n, a) = AddSection1(a)
    BY <1>2 DEF Place
  <1>3. ASSUME NEW s \in 0 .. 3, Grain(s) <= Minus(a, n), DoAdd(n, a) = AddSection2(s, a)
        PROVE  Place(DoAdd(n, a), a, n, sorted)
    <2>1. a % Grain(s) < Minus(a, n) /\ a % Grain(s) <= Minus(a, n)
      BY <1>1, <1>3, IntoList
    <2> QED
      BY <1>3, <2>1 DEF Place
  <1> QED
    BY <1>2, <1>3, DoAddIs

\* AddTimer's DoAdd while the Update of the tick before is in progress.
LEMMA PlaceAhead ==
    ASSUME NEW n \in Times, NEW x \in Times, x \notin {kSection1Num - 1, Span - 1},
           NEW c, c = (n + 1) % Span, NEW a, a = (c + x) % Span, NEW sorted
    PROVE  /\ Minus(a, n) = x + 1
           /\ Place(DoAdd(c, a), a, n, sorted)
  <1>1. c \in Times /\ x + 1 \in Times /\ 1 \in Times
    BY SpanType DEF Times
  <1>2. a \in Times /\ Minus(a, c) = x
    BY <1>1, Ahead
  <1>3. a = (n + (x + 1)) % Span
    <2>1. c = IF n = Span - 1 THEN 0 ELSE n + 1
      BY Successor
    <2>2. CASE n = Span - 1
      <3>1. a = x
        BY <2>1, <2>2, SpanType DEF Times
      <3>2. n + (x + 1) = Span + x
        BY <2>2, SpanType DEF Times
      <3>3. (Span + x) % Span = x
        BY SpanType DEF Times
      <3> QED
        BY <3>1, <3>2, <3>3
    <2>3. CASE n # Span - 1
      <3>1. c + x = n + (x + 1)
        BY <2>1, <2>3 DEF Times
      <3> QED
        BY <3>1
    <2> QED
      BY <2>2, <2>3
  <1>4. Minus(a, n) = x + 1
    BY <1>1, <1>3, Ahead
  <1>5. x \in Nat /\ kSection1Num \in Nat
    BY WheelAssumption DEF Times
  <1>6. CASE x < kSection1Num /\ DoAdd(c, a) = AddSection1(a)
    BY <1>4, <1>5, <1>6 DEF Place
  <1>7. ASSUME NEW s \in 0 .. 3, Grain(s) <= x, DoAdd(c, a) = AddSection2(s, a)
        PROVE  Place(DoAdd(c, a), a, n, sorted)
    <2>1. a % Grain(s) < Minus(a, n) /\ a % Grain(s) <= Minus(a, n)
      BY <1>2, <1>4, <1>5, <1>7, IntoList
    <2> QED
      BY <1>7, <2>1 DEF Place
  <1> QED
    BY <1>1, <1>2, <1>4, <1>6, <1>7, DoAddIs

\* A tick that begins no coarse list.
LEMMA PlaceTick ==
    ASSUME NEW n \in Times, NEW a \in Times, NEW l, NEW u \in 0 .. 4,
           n % Grain(u) # 0, Place(l, a, n, 0 .. u - 1)
    PROVE  Place(l, a, n, 0 .. 3)
  <1>1. CASE l = AddSection1(a) /\ Minus(a, n) < kSection1Num
    BY <1>1 DEF Place
  <1>2. ASSUME NEW s \in 0 .. 3, l = AddSection2(s, a), a % Grain(s) <= Minus(a, n),
               s \in 0 .. u - 1 => a % Grain(s) < Minus(a, n)
        PROVE  Place(l, a, n, 0 .. 3)
    <2>1. a % Grain(s) < Minus(a, n)
      <3>1. CASE s < u
        BY <1>2, <3>1
      <3>2. CASE u <= s
        <4>1. n % Grain(s) # 0
          BY <3>2, Coarser
        <4>2. Minus(a, n) # a % Grain(s)
          BY <4>1, ListBegins
        <4>3. a % Grain(s) \in Nat /\ Minus(a, n) \in Nat
          BY IntoList, MinusNat
        <4> QED
          BY <1>2, <4>2, <4>3
      <3> QED
        BY <3>1, <3>2
    <2> QED
      BY <1>2, <2>1 DEF Place
  <1> QED
    BY <1>1, <1>2 DEF Place

\* A timer that TickSection2 does not move is not in the list that begins.
LEMMA PlaceSection ==
    ASSUME NEW n \in Times, NEW a \in Times, NEW l, NEW u \in 0 .. 3,
           l # <<u + 1, GetSection2Index(n, u)>>, Place(l, a, n, 0 .. u - 1)
    PROVE  Place(l, a, n, 0 .. u)
  <1>1. CASE l = AddSection1(a) /\ Minus(a, n) < kSection1Num
    BY <1>1 DEF Place
  <1>2. ASSUME NEW s \in 0 .. 3, l = AddSection2(s, a), a % Grain(s) <= Minus(a, n),
               s \in 0 .. u - 1 => a % Grain(s) < Minus(a, n)
        PROVE  Place(l, a, n, 0 .. u)
    <2>1. CASE s = u
      <3>1. GetSection2Index(a, s) # GetSection2Index(n, s)
        BY <1>2, <2>1 DEF AddSection2
      <3>2. Minus(a, n) # a % Grain(s)
        BY <3>1, ListBegins
      <3>3. a % Grain(s) \in Nat /\ Minus(a, n) \in Nat
        BY IntoList, MinusNat
      <3>4. a % Grain(s) < Minus(a, n)
        BY <1>2, <3>2, <3>3
      <3> QED
        BY <1>2, <3>4 DEF Place
    <2>2. CASE s # u
      <3>1. s \in 0 .. u => s \in 0 .. u - 1
        BY <2>2
      <3> QED
        BY <1>2, <3>1 DEF Place
    <2> QED
      BY <2>1, <2>2
  <1> QED
    BY <1>1, <1>2 DEF Place

\* The near list of the tick has exactly what is due.
LEMMA PlaceDue ==
    ASSUME NEW n \in Times, NEW a \in Times, NEW sorted,
           Place(AddSection1(n), a, n, sorted)
    PROVE  a = n
  <1>1. \A s \in 0 .. 3 : AddSection1(n) # AddSection2(s, a)
    <2> TAKE s \in 0 .. 3
    <2>1. s + 1 # 0
      OBVIOUS
    <2> QED
      BY <2>1 DEF AddSection1, AddSection2
  <1>2. AddSection1(n) = AddSection1(a) /\ Minus(a, n) < kSection1Num
    BY <1>1 DEF Place
  <1>3. a % kSection1Num = n % kSection1Num
    BY <1>2 DEF AddSection1
  <1> QED
    BY <1>2, <1>3, NearIsExact

\* What the tick does not take is still ahead when it is over.
LEMMA PlaceSplice ==
    ASSUME NEW n \in Times, NEW a \in Times, NEW l,
           l # AddSection1(n), Place(l, a, n, 0 .. 3)
    PROVE  /\ Minus(a, n) # 0
           /\ Minus(a, (n + 1) % Span) = Minus(a, n) - 1
           /\ Place(l, a, (n + 1) % Span, {})
  <1>0. Minus(a, n) \in Nat /\ kSection1Num \in Nat
    BY MinusIs, WheelAssumption DEF Times
  <1>1. Minus(a, n) # 0
    <2>1. ASSUME l = AddSection1(a), Minus(a, n) = 0
          PROVE  FALSE
      <3>1. a = n
        BY <2>1, NoDistance
      <3> QED
        BY <2>1, <3>1
    <2>2. ASSUME NEW s \in 0 .. 3, a % Grain(s) < Minus(a, n)
          PROVE  Minus(a, n) # 0
      BY <1>0, <2>2, IntoList
    <2> QED
      BY <2>1, <2>2 DEF Place
  <1>2. Minus(a, (n + 1) % Span) = Minus(a, n) - 1
    BY <1>1, Closer
  <1>3. CASE l = AddSection1(a) /\ Minus(a, n) < kSection1Num
    <2>1. Minus(a, n) - 1 < kSection1Num
      BY <1>0, <1>3
    <2>2. Minus(a, (n + 1) % Span) < kSection1Num
      BY <1>2, <2>1
    <2> QED
      BY <1>1, <1>2, <1>3, <2>2 DEF Place
  <1>4. ASSUME NEW s \in 0 .. 3, l = AddSection2(s, a), a % Grain(s) < Minus(a, n)
        PROVE  Place(l, a, (n + 1) % Span, {})
    <2>1. a % Grain(s) <= Minus(a, n) - 1
      BY <1>0, <1>4, IntoList
    <2> QED
      BY <1>2, <1>4, <2>1 DEF Place
  <1> QED
    BY <1>1, <1>2, <1>3, <1>4 DEF Place

\* A timer of the list that begins goes to another array.
LEMMA PlaceDescends ==
    ASSUME NEW n \in Times, NEW a \in Times, NEW u \in 0 .. 3, NEW sorted,
           n % Grain(u) = 0, Place(<<u + 1, GetSection2Index(n, u)>>, a, n, sorted)
    PROVE  DoAdd(n, a)[1] # u + 1
  <1>1. <<u + 1, GetSection2Index(n, u)>> # AddSection1(a)
    <2>1. u + 1 # 0
      OBVIOUS
    <2> QED
      BY <2>1 DEF AddSection1
  <1>2. PICK s \in 0 .. 3 : <<u + 1, GetSection2Index(n, u)>> = AddSection2(s, a)
    BY <1>1 DEF Place
  <1>3. s = u /\ GetSection2Index(a, u) = GetSection2Index(n, u)
    <2>1. u + 1 = s + 1 /\ GetSection2Index(n, u) = GetSection2Index(a, s)
      BY <1>2 DEF AddSection2
    <2> QED
      BY <2>1
  <1>4. Minus(a, n) < Grain(u) \/ Minus(a, n) >= Grain(u + 1)
    BY <1>3, ListIsDue
  <1>5. Minus(a, n) \in Nat /\ Minus(a, n) < Span
    BY MinusIs, SpanType DEF Times
  <1>6. CASE DoAdd(n, a) = AddSection1(a)
    <2>1. DoAdd(n, a)[1] = 0
      BY <1>6 DEF AddSection1
    <2> QED
      BY <2>1
  <1>7. ASSUME NEW v \in 0 .. 3, Grain(v) <= Minus(a, n),
               v < 3 => Minus(a, n) < Grain(v + 1), DoAdd(n, a) = AddSection2(v, a)
        PROVE  DoAdd(n, a)[1] # u + 1
    <2>1. v # u
      <3> SUFFICES ASSUME v = u PROVE FALSE
        OBVIOUS
      <3>1. Grain(u) \in Nat /\ Grain(u + 1) \in Nat
        BY Grains
      <3>2. Minus(a, n) >= Grain(u + 1)
        BY <1>4, <1>5, <1>7, <3>1
      <3>3. CASE u < 3
        BY <1>5, <1>7, <3>1, <3>2, <3>3
      <3>4. CASE u = 3
        BY <1>5, <3>1, <3>2, <3>4 DEF Span
      <3> QED
        BY <3>3, <3>4
    <2>2. DoAdd(n, a)[1] = v + 1
      BY <1>7 DEF AddSection2
    <2> QED
      BY <2>1, <2>2
  <1> QED
    BY <1>6, <1>7, DoAddIs

-----------------------------------------------------------------------------
(* Types                                                                   *)

LEMMA TimeoutType ==
    ASSUME NEW ms \in Requests
    PROVE  Timeout(ms) \in Times
  <1> DEFINE x == (ms + kPeriod \div 2) % Span
  <1>1. ms \in Nat /\ kPeriod \in Nat \ {0} /\ kPeriod \div 2 \in Nat
    BY WheelAssumption, SpanType
  <1>2. x \in 0 .. Span - 1 /\ x \in Nat
    BY <1>1, SpanType
  <1> HIDE DEF x
  <1>3. x = (x \div kPeriod) * kPeriod + (x % kPeriod)
        /\ x \div kPeriod \in Nat /\ x % kPeriod \in 0 .. kPeriod - 1
    BY <1>1, <1>2, DivMod
  <1>4. \A y, k, r \in Nat : k # 0 => y <= y * k + r
    OBVIOUS
  <1>5. x \div kPeriod <= x
    BY <1>1, <1>2, <1>3, <1>4
  <1>6. x \div kPeriod \in 0 .. Span - 1
    BY <1>2, <1>3, <1>5, SpanType
  <1> QED
    BY <1>6 DEF Timeout, Times, x

LEMMA DestroyTypes ==
    ASSUME TypeOK, NEW ts \in SUBSET Timers, Destroy(ts)
    PROVE  /\ tm' \in [Timers -> 0 .. Span - 1]
           /\ slot' \in [Timers -> Lists \cup {NoList}]
           /\ state' \in [Timers -> {"none", "armed", "expired", "called"}]
           /\ deleted' \in [Timers -> BOOLEAN]
           /\ \A t \in Timers : state'[t] = "armed" <=> slot'[t] # NoList
  <1>1. deleted' \in [Timers -> BOOLEAN]
    <2>1. \A t \in Timers : (t \notin ts /\ deleted[t]) \in BOOLEAN
      OBVIOUS
    <2> QED
      BY <2>1, Zenon DEF Destroy
  <1>2. tm' \in [Timers -> 0 .. Span - 1]
    BY SpanType DEF TypeOK, Destroy
  <1>3. /\ slot' \in [Timers -> Lists \cup {NoList}]
        /\ state' \in [Timers -> {"none", "armed", "expired", "called"}]
    BY DEF TypeOK, Destroy
  <1>4. \A t \in Timers : state'[t] = "armed" <=> slot'[t] # NoList
    BY DEF TypeOK, SlotWhileArmed, Destroy
  <1> QED
    BY <1>1, <1>2, <1>3, <1>4

\* A timer moves from list to list and out of the wheel, never to a list that
\* is not its slot.
LEMMA TypeStep == TypeOK /\ [Next]_vars => TypeOK'
  <1> SUFFICES ASSUME TypeOK, [Next]_vars PROVE TypeOK'
    OBVIOUS
  <1>0. Times = 0 .. Span - 1 /\ Span \in Nat \ {0, 1}
    BY SpanType DEF Times
  <1>1. ASSUME NEW t \in Timers, DeleteTimer(t) PROVE TypeOK'
    <2>1. CASE slot[t] # NoList
      <3>1. Destroy({t}) /\ UNCHANGED <<cur_time, pc, curtime, section>>
        BY <1>1, <2>1 DEF DeleteTimer
      <3> QED
        BY <3>1, DestroyTypes DEF TypeOK, SlotWhileArmed
    <2>2. CASE slot[t] = NoList
      <3>1. deleted' = [deleted EXCEPT ![t] = TRUE] /\ UNCHANGED <<tm, slot, state>>
            /\ UNCHANGED <<cur_time, pc, curtime, section>>
        BY <1>1, <2>2 DEF DeleteTimer
      <3>2. deleted' \in [Timers -> BOOLEAN]
        BY <3>1 DEF TypeOK
      <3> QED
        BY <3>1, <3>2 DEF TypeOK, SlotWhileArmed
    <2> QED
      BY <2>1, <2>2
  <1>2. ASSUME NEW t \in Timers, NEW ms \in Requests, AddTimer(t, ms) PROVE TypeOK'
    <2> DEFINE due == (cur_time + Timeout(ms)) % Span
    <2>1. due \in Times
      BY <1>0, Ahead, TimeoutType DEF TypeOK
    <2>2. DoAdd(cur_time, due) \in Lists /\ DoAdd(cur_time, due) # NoList
      BY <1>0, <2>1, DoAddType DEF TypeOK
    <2>3. /\ tm' = [tm EXCEPT ![t] = due]
          /\ slot' = [slot EXCEPT ![t] = DoAdd(cur_time, due)]
          /\ state' = [state EXCEPT ![t] = "armed"]
          /\ UNCHANGED <<cur_time, deleted, pc, curtime, section>>
      BY <1>2 DEF AddTimer
    <2> HIDE DEF due
    <2> QED
      BY <1>0, <2>1, <2>2, <2>3 DEF TypeOK, SlotWhileArmed
  <1>3. CASE Tick
    <2>1. (cur_time + 1) % Span \in 0 .. Span - 1
      BY <1>0 DEF TypeOK
    <2> QED
      BY <1>3, <2>1 DEF Tick, TypeOK, SlotWhileArmed
  <1>4. CASE TickSection2
    <2>1. \A t \in Timers : DoAdd(curtime, tm[t]) \in Lists /\ DoAdd(curtime, tm[t]) # NoList
      BY <1>0, DoAddType DEF TypeOK
    <2> DEFINE list == <<section + 1, GetSection2Index(curtime, section)>>
    <2>2. slot' = [t \in Timers |-> IF t \in Members(list)
                                      THEN DoAdd(curtime, tm[t]) ELSE slot[t]]
      BY <1>4 DEF TickSection2
    <2>3. list # NoList
      BY TwoIsNotNone
    <2> HIDE DEF list
    <2>4. slot' \in [Timers -> Lists \cup {NoList}]
      BY <2>1, <2>2 DEF TypeOK
    <2>5. \A t \in Timers : slot'[t] # NoList <=> slot[t] # NoList
      BY <2>1, <2>2, <2>3 DEF Members
    <2>6. section' \in 0 .. 3 /\ pc' \in {"section2", "splice"}
          /\ UNCHANGED <<cur_time, tm, state, deleted, curtime>>
      BY <1>4 DEF TickSection2, TypeOK
    <2> QED
      BY <2>4, <2>5, <2>6 DEF TypeOK, SlotWhileArmed
  <1>5. CASE Splice
    <2>1. /\ state' = [t \in Timers |-> IF t \in Members(AddSection1(curtime))
                                          THEN "expired" ELSE state[t]]
          /\ slot' = [t \in Timers |-> IF t \in Members(AddSection1(curtime))
                                         THEN NoList ELSE slot[t]]
          /\ pc' = "call"
          /\ UNCHANGED <<cur_time, tm, deleted, curtime, section>>
      BY <1>5 DEF Splice
    <2> QED
      BY <2>1 DEF TypeOK, SlotWhileArmed
  <1>6. ASSUME NEW t \in Timers, Callback(t) PROVE TypeOK'
    BY <1>6 DEF Callback, TypeOK, SlotWhileArmed
  <1>7. CASE UpdateReturns
    <2>1. {t \in Timers : state[t] = "called"} \in SUBSET Timers
      OBVIOUS
    <2>2. /\ Destroy({t \in Timers : state[t] = "called"})
          /\ pc' = "sleep" /\ UNCHANGED <<cur_time, curtime, section>>
      BY <1>7 DEF UpdateReturns
    <2> QED
      BY <2>1, <2>2, DestroyTypes DEF TypeOK, SlotWhileArmed
  <1>8. CASE RunEnds
    BY <1>8 DEF RunEnds, TypeOK, SlotWhileArmed
  <1>9. CASE UNCHANGED vars
    BY <1>9 DEF vars, TypeOK, SlotWhileArmed
  <1> QED
    BY <1>1, <1>2, <1>3, <1>4, <1>5, <1>6, <1>7, <1>8, <1>9 DEF Next, RunStep

\* Every variable keeps its type, and a timer has a slot exactly while it is
\* in a list of the wheel, whatever the sizes of the arrays and the timeouts.
THEOREM WheelTypes == Spec => []TypeOK
  <1>1. Init => TypeOK
    <2>1. Span \in Nat \ {0, 1}
      BY SpanType
    <2> QED
      BY <2>1 DEF Init, TypeOK, SlotWhileArmed
  <1> QED
    BY <1>1, TypeStep, PTL DEF Spec

-----------------------------------------------------------------------------
(* No tick comes too early or too late                                     *)

LEMMA TypeFacts ==
    ASSUME TypeOK
    PROVE  /\ cur_time \in Times /\ curtime \in Times /\ NextTick \in Times
           /\ section \in 0 .. 3
           /\ \A t \in Timers : tm[t] \in Times
  BY DEF TypeOK, Times, NextTick

\* Nothing that does not add or move a timer and leaves the wheel's thread
\* where it is disturbs the wheel.
LEMMA FewerTimers ==
    ASSUME WheelInv, UNCHANGED <<cur_time, pc, curtime, section>>,
           \A t \in Timers : state'[t] = "armed" =>
               state[t] = "armed" /\ tm'[t] = tm[t] /\ slot'[t] = slot[t],
           \A t \in Timers : state'[t] \in {"expired", "called"} =>
               state[t] \in {"expired", "called"},
           \A t \in Timers : state'[t] = "expired" =>
               state[t] = "expired" /\ tm'[t] = tm[t]
    PROVE  WheelInv'
  <1>1. UNCHANGED <<NextTick, Sorted>>
    BY DEF NextTick, Sorted
  <1>2. PlacedInv'
    BY <1>1 DEF WheelInv, PlacedInv
  <1>3. BoundInv'
    BY <1>1 DEF WheelInv, BoundInv
  <1>4. ClockInv'
    BY DEF WheelInv, ClockInv, FiresOnItsTick
  <1> QED
    BY <1>2, <1>3, <1>4 DEF WheelInv

LEMMA AddTimerPlaces ==
    ASSUME RaceFree, TypeOK, WheelInv,
           NEW t \in Timers, NEW ms \in Requests, AddTimer(t, ms)
    PROVE  WheelInv'
  <1> DEFINE x == Timeout(ms)
             due == (cur_time + x) % Span
  <1>1. x \in Times /\ x \notin {kSection1Num - 1, Span - 1} /\ x \in Nat
    BY TimeoutType DEF RaceFree, Times
  <1>2. due \in Times /\ Minus(due, cur_time) = x
    BY <1>1, TypeFacts, Ahead
  <1>3. /\ tm' = [tm EXCEPT ![t] = due]
        /\ slot' = [slot EXCEPT ![t] = DoAdd(cur_time, due)]
        /\ state' = [state EXCEPT ![t] = "armed"]
        /\ UNCHANGED <<cur_time, deleted, pc, curtime, section>>
    BY DEF AddTimer
  <1>4. UNCHANGED <<NextTick, Sorted>>
    BY <1>3 DEF NextTick, Sorted
  <1>5. /\ Minus(due, NextTick) <= x + 1
        /\ Place(DoAdd(cur_time, due), due, NextTick, Sorted)
    <2>1. CASE pc \in {"section2", "splice"}
      <3>1. NextTick = curtime /\ cur_time = (curtime + 1) % Span /\ curtime \in Times
        BY <2>1, TypeFacts DEF NextTick, WheelInv, ClockInv
      <3>2. /\ Minus(due, curtime) = x + 1
            /\ Place(DoAdd(cur_time, due), due, curtime, Sorted)
        BY <1>1, <3>1, PlaceAhead
      <3> QED
        BY <1>1, <3>1, <3>2
    <2>2. CASE pc \notin {"section2", "splice"}
      <3>1. NextTick = cur_time /\ cur_time \in Times
        BY <2>2, TypeFacts DEF NextTick
      <3>2. Place(DoAdd(cur_time, due), due, cur_time, Sorted)
        BY <1>2, <3>1, PlaceNew
      <3>3. Minus(due, cur_time) <= x + 1
        BY <1>1, <1>2
      <3> QED
        BY <3>1, <3>2, <3>3
    <2> QED
      BY <2>1, <2>2
  <1> HIDE DEF due
  <1>6. /\ tm'[t] = due /\ slot'[t] = DoAdd(cur_time, due) /\ state'[t] = "armed"
        /\ \A u \in Timers : u # t =>
             tm'[u] = tm[u] /\ slot'[u] = slot[u] /\ state'[u] = state[u]
    BY <1>3 DEF TypeOK
  <1>7. PlacedInv'
    BY <1>4, <1>5, <1>6 DEF WheelInv, PlacedInv
  <1>8. BoundInv'
    BY <1>4, <1>5, <1>6 DEF WheelInv, BoundInv
  <1>9. ClockInv'
    BY <1>3, <1>6 DEF WheelInv, ClockInv, FiresOnItsTick
  <1> QED
    BY <1>7, <1>8, <1>9 DEF WheelInv

LEMMA TickPlaces ==
    ASSUME TypeOK, WheelInv, Tick
    PROVE  WheelInv'
  <1>1. /\ pc = "sleep" /\ curtime' = cur_time /\ section' = 0
        /\ cur_time' = (cur_time + 1) % Span
        /\ pc' = IF cur_time % kSection1Num = 0 THEN "section2" ELSE "splice"
        /\ UNCHANGED <<tm, slot, state, deleted>>
    BY DEF Tick
  <1>2. NextTick = cur_time /\ NextTick' = cur_time /\ Sorted = {} /\ cur_time \in Times
    BY <1>1, TypeFacts DEF NextTick, Sorted
  <1>3. kSection1Num = Grain(0)
    BY Grains
  <1>4. PlacedInv'
    <2> SUFFICES ASSUME NEW t \in Timers, state[t] = "armed"
                 PROVE  Place(slot[t], tm[t], cur_time, Sorted')
      BY <1>1, <1>2 DEF PlacedInv
    <2>1. Place(slot[t], tm[t], cur_time, {})
      BY <1>2 DEF WheelInv, PlacedInv
    <2>2. {} = 0 .. 0 - 1
      OBVIOUS
    <2>3. CASE cur_time % kSection1Num = 0
      <3>1. Sorted' = 0 .. 0 - 1
        BY <1>1, <2>3 DEF Sorted
      <3> QED
        BY <2>1, <2>2, <3>1
    <2>4. CASE cur_time % kSection1Num # 0
      <3>1. Sorted' = 0 .. 3
        BY <1>1, <2>4 DEF Sorted
      <3>2. Place(slot[t], tm[t], cur_time, 0 .. 0 - 1)
        BY <2>1, <2>2
      <3>3. tm[t] \in Times
        BY TypeFacts
      <3>4. cur_time % Grain(0) # 0
        BY <1>3, <2>4
      <3> QED
        BY <1>2, <3>1, <3>2, <3>3, <3>4, PlaceTick
    <2> QED
      BY <2>3, <2>4
  <1>5. BoundInv'
    BY <1>1, <1>2 DEF WheelInv, BoundInv
  <1>6. ClockInv'
    <2>1. \A t \in Timers : state[t] \notin {"expired", "called"}
      BY <1>1 DEF WheelInv, ClockInv
    <2> QED
      BY <1>1, <1>3, <2>1 DEF ClockInv, FiresOnItsTick
  <1> QED
    BY <1>4, <1>5, <1>6 DEF WheelInv

LEMMA TickSection2Places ==
    ASSUME TypeOK, WheelInv, TickSection2
    PROVE  WheelInv'
  <1> DEFINE i == GetSection2Index(curtime, section)
             list == <<section + 1, i>>
  <1>1. /\ pc = "section2"
        /\ slot' = [t \in Timers |-> IF t \in Members(list)
                                       THEN DoAdd(curtime, tm[t]) ELSE slot[t]]
        /\ IF i = 0 /\ section < 3
             THEN section' = section + 1 /\ pc' = pc
             ELSE pc' = "splice" /\ section' = section
        /\ UNCHANGED <<cur_time, tm, state, deleted, curtime>>
    BY DEF TickSection2
  <1>2. /\ NextTick = curtime /\ NextTick' = curtime /\ Sorted = 0 .. section - 1
        /\ curtime \in Times /\ section \in 0 .. 3 /\ curtime % Grain(section) = 0
    BY <1>1, TypeFacts DEF NextTick, Sorted, WheelInv, ClockInv
  <1>3. i = 0 <=> curtime % Grain(section + 1) = 0
    BY <1>2, FirstList
  <1>4. ASSUME NEW t \in Timers, state[t] = "armed"
        PROVE  Place(slot'[t], tm[t], curtime, Sorted')
    <2>0. tm[t] \in Times
      BY TypeFacts
    <2>1. CASE t \in Members(list)
      <3>1. slot'[t] = DoAdd(curtime, tm[t])
        BY <1>1, <2>1
      <3> QED
        BY <1>2, <2>0, <3>1, PlaceNew
    <2>2. CASE t \notin Members(list)
      <3>1. slot'[t] = slot[t] /\ slot[t] # list
        BY <1>1, <2>2 DEF Members
      <3>2. Place(slot[t], tm[t], curtime, 0 .. section - 1)
        BY <1>2, <1>4 DEF WheelInv, PlacedInv
      <3>3. Place(slot[t], tm[t], curtime, 0 .. section)
        BY <1>2, <2>0, <3>1, <3>2, PlaceSection
      <3>4. CASE i = 0 /\ section < 3
        <4>1. pc' = "section2" /\ section' = section + 1
          BY <1>1, <3>4
        <4>2. Sorted' = 0 .. section' - 1
          BY <4>1 DEF Sorted
        <4>3. section' - 1 = section
          BY <1>2, <4>1
        <4> QED
          BY <3>1, <3>3, <4>2, <4>3
      <3>5. CASE section = 3
        <4>1. Sorted' = 0 .. 3
          BY <1>1, <3>5 DEF Sorted
        <4>2. Place(slot[t], tm[t], curtime, 0 .. 3)
          BY <3>3, <3>5
        <4> QED
          BY <3>1, <4>1, <4>2
      <3>6. CASE i # 0
        <4>1. Sorted' = 0 .. 3
          BY <1>1, <3>6 DEF Sorted
        <4>2. section + 1 \in 0 .. 4 /\ section = (section + 1) - 1
          BY <1>2
        <4>3. curtime % Grain(section + 1) # 0
          BY <1>3, <3>6
        <4>4. Place(slot[t], tm[t], curtime, 0 .. (section + 1) - 1)
          BY <3>3, <4>2
        <4>5. Place(slot[t], tm[t], curtime, 0 .. 3)
          BY <1>2, <2>0, <4>2, <4>3, <4>4, PlaceTick
        <4> QED
          BY <3>1, <4>1, <4>5
      <3> QED
        BY <1>2, <3>4, <3>5, <3>6
    <2> QED
      BY <2>1, <2>2
  <1>5. PlacedInv'
    BY <1>1, <1>2, <1>4 DEF PlacedInv
  <1>6. BoundInv'
    BY <1>1, <1>2 DEF WheelInv, BoundInv
  <1>7. ClockInv'
    <2>1. pc' = "section2" => curtime' % Grain(section') = 0
      BY <1>1, <1>3
    <2>2. pc' \in {"section2", "splice", "call"} => cur_time' = (curtime' + 1) % Span
      BY <1>1 DEF WheelInv, ClockInv
    <2>3. \A t \in Timers : state'[t] \notin {"expired", "called"}
      BY <1>1 DEF WheelInv, ClockInv
    <2> QED
      BY <2>1, <2>2, <2>3 DEF ClockInv, FiresOnItsTick
  <1> QED
    BY <1>5, <1>6, <1>7 DEF WheelInv

LEMMA SplicePlaces ==
    ASSUME TypeOK, WheelInv, Splice
    PROVE  WheelInv'
  <1> DEFINE list == AddSection1(curtime)
  <1>1. /\ pc = "splice" /\ pc' = "call"
        /\ state' = [t \in Timers |-> IF t \in Members(list) THEN "expired"
                                      ELSE state[t]]
        /\ slot' = [t \in Timers |-> IF t \in Members(list) THEN NoList
                                     ELSE slot[t]]
        /\ UNCHANGED <<cur_time, tm, deleted, curtime, section>>
    BY DEF Splice
  <1>2. /\ NextTick = curtime /\ NextTick' = (curtime + 1) % Span
        /\ Sorted = 0 .. 3 /\ Sorted' = {} /\ curtime \in Times
        /\ cur_time = (curtime + 1) % Span
    BY <1>1, TypeFacts DEF NextTick, Sorted, WheelInv, ClockInv
  <1>3. ASSUME NEW t \in Timers, state'[t] = "armed"
        PROVE  /\ state[t] = "armed"
               /\ Minus(tm[t], (curtime + 1) % Span) = Minus(tm[t], curtime) - 1
               /\ Minus(tm[t], curtime) \in Nat
               /\ Place(slot'[t], tm[t], (curtime + 1) % Span, {})
    <2>1. state[t] = "armed" /\ slot'[t] = slot[t] /\ slot[t] # list
      BY <1>1, <1>3 DEF Members
    <2>2. Place(slot[t], tm[t], curtime, 0 .. 3) /\ tm[t] \in Times
      BY <1>2, <2>1, TypeFacts DEF WheelInv, PlacedInv
    <2>3. /\ Minus(tm[t], (curtime + 1) % Span) = Minus(tm[t], curtime) - 1
          /\ Place(slot[t], tm[t], (curtime + 1) % Span, {})
      BY <1>2, <2>1, <2>2, PlaceSplice
    <2> QED
      BY <1>2, <2>1, <2>2, <2>3, MinusNat
  <1>4. PlacedInv'
    BY <1>1, <1>2, <1>3 DEF PlacedInv
  <1>5. BoundInv'
    <2> SUFFICES ASSUME NEW t \in Timers, state'[t] = "armed"
                 PROVE  \E ms \in Requests :
                          Minus(tm[t], (curtime + 1) % Span) <= Timeout(ms) + 1
      BY <1>1, <1>2 DEF BoundInv
    <2>1. PICK ms \in Requests : Minus(tm[t], curtime) <= Timeout(ms) + 1
      BY <1>2, <1>3 DEF WheelInv, BoundInv
    <2>2. Timeout(ms) \in Nat
      BY TimeoutType DEF Times
    <2>3. Minus(tm[t], (curtime + 1) % Span) <= Timeout(ms) + 1
      BY <1>3, <2>1, <2>2
    <2> QED
      BY <2>3
  <1>6. ClockInv'
    <2>1. \A t \in Timers : state[t] \notin {"expired", "called"}
      BY <1>1 DEF WheelInv, ClockInv
    <2>2. ASSUME NEW t \in Timers, state'[t] = "expired" PROVE tm[t] = curtime
      <3>1. slot[t] = list
        BY <1>1, <2>1, <2>2 DEF Members
      <3>2. state[t] = "armed"
        BY <3>1, TwoIsNotNone DEF TypeOK, SlotWhileArmed, AddSection1
      <3>3. Place(list, tm[t], curtime, 0 .. 3) /\ tm[t] \in Times
        BY <1>2, <3>1, <3>2, TypeFacts DEF WheelInv, PlacedInv
      <3> QED
        BY <1>2, <3>3, PlaceDue
    <2>3. FiresOnItsTick'
      BY <1>1, <2>2 DEF FiresOnItsTick
    <2> QED
      BY <1>1, <1>2, <2>3 DEF ClockInv
  <1> QED
    BY <1>4, <1>5, <1>6 DEF WheelInv

LEMMA WheelStep == RaceFree /\ TypeOK /\ WheelInv /\ [Next]_vars => WheelInv'
  <1> SUFFICES ASSUME RaceFree, TypeOK, WheelInv, [Next]_vars PROVE WheelInv'
    OBVIOUS
  <1>1. ASSUME NEW t \in Timers, DeleteTimer(t) PROVE WheelInv'
    <2>1. CASE slot[t] # NoList
      <3>1. Destroy({t}) /\ UNCHANGED <<cur_time, pc, curtime, section>>
        BY <1>1, <2>1 DEF DeleteTimer
      <3> QED
        BY <3>1, FewerTimers DEF Destroy
    <2>2. CASE slot[t] = NoList
      <3>1. UNCHANGED <<tm, slot, state>> /\ UNCHANGED <<cur_time, pc, curtime, section>>
        BY <1>1, <2>2 DEF DeleteTimer
      <3> QED
        BY <3>1, FewerTimers
    <2> QED
      BY <2>1, <2>2
  <1>2. ASSUME NEW t \in Timers, NEW ms \in Requests, AddTimer(t, ms) PROVE WheelInv'
    BY <1>2, AddTimerPlaces
  <1>3. CASE Tick
    BY <1>3, TickPlaces
  <1>4. CASE TickSection2
    BY <1>4, TickSection2Places
  <1>5. CASE Splice
    BY <1>5, SplicePlaces
  <1>6. ASSUME NEW t \in Timers, Callback(t) PROVE WheelInv'
    <2>1. /\ state[t] = "expired" /\ state' = [state EXCEPT ![t] = "called"]
          /\ UNCHANGED <<cur_time, tm, slot, deleted, pc, curtime, section>>
      BY <1>6 DEF Callback
    <2>2. state'[t] = "called" /\ \A u \in Timers : u # t => state'[u] = state[u]
      BY <2>1 DEF TypeOK
    <2> QED
      BY <2>1, <2>2, FewerTimers
  <1>7. CASE UpdateReturns
    <2> DEFINE called == {t \in Timers : state[t] = "called"}
    <2>1. /\ pc = "call" /\ pc' = "sleep" /\ UNCHANGED <<cur_time, curtime, section>>
          /\ \A t \in Timers : state[t] # "expired"
          /\ Destroy(called)
      BY <1>7 DEF UpdateReturns
    <2>2. \A t \in Timers :
            /\ state'[t] \notin {"expired", "called"}
            /\ state'[t] = "armed" =>
                 state[t] = "armed" /\ tm'[t] = tm[t] /\ slot'[t] = slot[t]
      BY <2>1 DEF Destroy
    <2>3. UNCHANGED <<NextTick, Sorted>>
      BY <2>1 DEF NextTick, Sorted
    <2>4. PlacedInv'
      BY <2>2, <2>3 DEF WheelInv, PlacedInv
    <2>5. BoundInv'
      BY <2>2, <2>3 DEF WheelInv, BoundInv
    <2>6. ClockInv'
      BY <2>1, <2>2 DEF ClockInv, FiresOnItsTick
    <2> QED
      BY <2>4, <2>5, <2>6 DEF WheelInv
  <1>8. CASE RunEnds
    <2>1. pc = "sleep" /\ pc' = "stopped"
          /\ UNCHANGED <<cur_time, tm, slot, state, deleted, curtime, section>>
      BY <1>8 DEF RunEnds
    <2>2. UNCHANGED <<NextTick, Sorted>>
      BY <2>1 DEF NextTick, Sorted
    <2>3. PlacedInv' /\ BoundInv'
      BY <2>1, <2>2 DEF WheelInv, PlacedInv, BoundInv
    <2>4. ClockInv'
      BY <2>1 DEF WheelInv, ClockInv, FiresOnItsTick
    <2> QED
      BY <2>3, <2>4 DEF WheelInv
  <1>9. CASE UNCHANGED vars
    BY <1>9, FewerTimers DEF vars
  <1> QED
    BY <1>1, <1>2, <1>3, <1>4, <1>5, <1>6, <1>7, <1>8, <1>9 DEF Next, RunStep

\* Through every AddTimer, tick and cascade the timers stay in the lists that
\* Update will come to in time.
THEOREM WheelInvariant == ASSUME RaceFree PROVE Spec => []WheelInv
  <1>1. Init => WheelInv
    BY DEF Init, WheelInv, PlacedInv, ClockInv, BoundInv, FiresOnItsTick
  <1>2. TypeOK /\ WheelInv /\ [Next]_vars => WheelInv'
    BY WheelStep
  <1> QED
    BY <1>1, <1>2, WheelTypes, PTL DEF Spec

\* A callback is made in the Update of the tick that its timer was set for, in
\* wheels of any size.
THEOREM TimersFireOnTheirTick == ASSUME RaceFree PROVE Spec => []FiresOnItsTick
  <1>1. WheelInv => FiresOnItsTick
    BY DEF WheelInv, ClockInv
  <1> QED
    BY <1>1, WheelInvariant, PTL

\* A timer that TickSection2 is to sort down goes to another array.
LEMMA Descends == TypeOK /\ WheelInv => CascadeDescends
  <1> SUFFICES ASSUME TypeOK, WheelInv, pc = "section2", NEW t \in Timers,
                      slot[t] = <<section + 1, GetSection2Index(curtime, section)>>
               PROVE  DoAdd(curtime, tm[t])[1] # section + 1
    BY DEF CascadeDescends
  <1>1. state[t] = "armed"
    BY TwoIsNotNone DEF TypeOK, SlotWhileArmed
  <1>2. /\ NextTick = curtime /\ curtime \in Times /\ section \in 0 .. 3
        /\ tm[t] \in Times /\ curtime % Grain(section) = 0
    BY TypeFacts DEF NextTick, WheelInv, ClockInv
  <1>3. Place(slot[t], tm[t], curtime, Sorted)
    BY <1>1, <1>2 DEF WheelInv, PlacedInv
  <1> QED
    BY <1>2, <1>3, PlaceDescends

\* No armed timer is passed over, by the cascade of an array or by the clock:
\* the tick of every one is still to come, and no further away than the
\* longest timeout.
THEOREM TimersAreNeverMissed == ASSUME RaceFree PROVE Spec => []NeverMissed
  <1>1. TypeOK /\ WheelInv => NeverMissed
    BY Descends DEF NeverMissed, TypeOK, WheelInv, BoundInv
  <1> QED
    BY <1>1, WheelInvariant, WheelTypes, PTL
=============================================================================
