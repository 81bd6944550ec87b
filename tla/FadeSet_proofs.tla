--------------------------- MODULE FadeSet_proofs ---------------------------
(***************************************************************************)
(* What the methods of FadeSet preserve, for every table and every state   *)
(* of a fade: its type, the bounds of its index and the range of its       *)
(* values.                                                                 *)
(***************************************************************************)
EXTENDS FadeSet, TLAPS

\* A part of a way of d steps, rounded down, is between 0 and d.
LEMMA PartOfWay ==
    ASSUME NEW d \in Int, NEW n \in Nat \ {0}, NEW i \in 0..n
    PROVE  /\ Floor(d * i, n) \in Int
           /\ d >= 0 => Floor(d * i, n) \in 0..d
           /\ d <= 0 => Floor(d * i, n) \in d..0
<1> DEFINE q == (d * i) \div n
<1>1. d * i \in Int
  OBVIOUS
<1>2. q \in Int /\ n * q <= d * i /\ d * i < n * q + n
  BY <1>1
<1>3. ASSUME d >= 0 PROVE q \in 0..d
  <2>1. 0 <= d * i /\ d * i <= d * n
    BY <1>3
  <2>2. q >= 0
    BY <1>2, <2>1
  <2>3. q <= d
    BY <1>2, <2>1
  <2> QED  BY <1>2, <2>2, <2>3
<1>4. ASSUME d <= 0 PROVE q \in d..0
  <2>1. d * n <= d * i /\ d * i <= 0
    BY <1>4
  <2>2. q <= 0
    BY <1>2, <2>1
  <2>3. q >= d
    BY <1>2, <2>1
  <2> QED  BY <1>2, <2>2, <2>3
<1> QED  BY <1>2, <1>3, <1>4 DEF Floor

\* A point of the way from a to b, rounded either way, is between a and b.
LEMMA PointOfWay ==
    ASSUME NEW a \in Int, NEW b \in Int, NEW n \in Nat \ {0}, NEW i \in 0..n
    PROVE  /\ a + Floor((b - a) * i, n) \in Int
           /\ Between(a + Floor((b - a) * i, n), a, b)
           /\ a + Ceil((b - a) * i, n) \in Int
           /\ Between(a + Ceil((b - a) * i, n), a, b)
<1> DEFINE d == b - a
           up == Floor(d * i, n)
           down == Floor((-d) * i, n)
<1>1. d \in Int /\ -d \in Int
  OBVIOUS
<1>2. -(d * i) = (-d) * i
  BY <1>1
<1> HIDE DEF d
<1>3. up \in Int /\ (d >= 0 => up \in 0..d) /\ (d <= 0 => up \in d..0)
  BY <1>1, PartOfWay
<1>4. /\ down \in Int
      /\ (-d >= 0 => down \in 0..(-d)) /\ (-d <= 0 => down \in (-d)..0)
  BY <1>1, PartOfWay
<1>5. Ceil(d * i, n) = -down
  BY <1>2 DEF Ceil, Floor
<1> HIDE DEF up, down
<1>6. a + up \in Int /\ Between(a + up, a, b)
  BY <1>1, <1>3 DEF Between, d
<1>7. a - down \in Int /\ Between(a - down, a, b)
  BY <1>1, <1>4 DEF Between, d
<1>8. a + (-down) = a - down
  BY <1>4
<1> QED  BY <1>5, <1>6, <1>7, <1>8 DEF up, d

\* An entry of a table is a whole number of the way, and the way has a length.
LEMMA TableEntry ==
    ASSUME NEW f \in FadeSets, NEW i \in Nat, i < f.setSize
    PROVE  /\ Span(f.fadeCurve, f.setSize) \in Nat \ {0}
           /\ Progress(f.fadeCurve, i, f.setSize) \in 0..Span(f.fadeCurve, f.setSize)
<1>1. f.setSize \in TableSizes \ {0} /\ f.setSize \in Nat /\ i \in 0..(f.setSize - 1)
  BY DEF FadeSets, TableSizes
<1>2. f.fadeCurve \in FadeCurves
  BY DEF FadeSets
<1>3. CASE f.fadeCurve = 0
  BY <1>1, <1>3 DEF Span, Progress
<1>4. CASE f.fadeCurve # 0
  BY <1>1, <1>2, <1>4, FadeAssumption DEF Span, Progress
<1> QED  BY <1>3, <1>4

\* No entry of a table is outside the range between its two values.
LEMMA EntryInRange ==
    ASSUME NEW f \in FadeSets, NEW i \in Nat, i < f.setSize
    PROVE  Entry(f, i) \in Int /\ Between(Entry(f, i), f.fromValue, f.toValue)
<1> DEFINE from == f.fromValue
           to == f.toValue
           s == Span(f.fadeCurve, f.setSize)
           p == Progress(f.fadeCurve, i, f.setSize)
<1>1. from \in Int /\ to \in Int
  BY DEF FadeSets
<1>2. s \in Nat \ {0} /\ p \in 0..s
  BY TableEntry
<1> HIDE DEF from, to, s, p
<1>3. from + Floor((to - from) * p, s) \in Int
        /\ Between(from + Floor((to - from) * p, s), from, to)
  BY <1>1, <1>2, PointOfWay
<1>4. to + Floor((from - to) * p, s) \in Int
        /\ Between(to + Floor((from - to) * p, s), to, from)
  BY <1>1, <1>2, PointOfWay
<1>5. to + Ceil((from - to) * p, s) \in Int
        /\ Between(to + Ceil((from - to) * p, s), to, from)
  BY <1>1, <1>2, PointOfWay
<1> QED
  BY <1>3, <1>4, <1>5
     DEF Entry, InEntry, OutEntryFloor, OutEntryCeil, Between, from, to, s, p

\* A longer part of a way, rounded down, is no less of it.
LEMMA LongerPart ==
    ASSUME NEW d \in Int, NEW n \in Nat \ {0}, NEW i \in 0..n, NEW j \in 0..n, i <= j
    PROVE  /\ d >= 0 => Floor(d * i, n) <= Floor(d * j, n)
           /\ d <= 0 => Floor(d * i, n) >= Floor(d * j, n)
<1> DEFINE p == (d * i) \div n
           q == (d * j) \div n
<1>1. /\ d * i \in Int /\ d * j \in Int
      /\ p \in Int /\ n * p <= d * i /\ d * i < n * p + n
      /\ q \in Int /\ n * q <= d * j /\ d * j < n * q + n
  OBVIOUS
<1>2. ASSUME d >= 0 PROVE p <= q
  <2>1. d * i <= d * j
    BY <1>2
  <2> QED  BY <1>1, <2>1
<1>3. ASSUME d <= 0 PROVE p >= q
  <2>1. d * i >= d * j
    BY <1>3
  <2> QED  BY <1>1, <2>1
<1> QED  BY <1>2, <1>3 DEF Floor

\* A further point of the way from a to b, rounded either way, is between the
\* nearer one and b.
LEMMA FurtherPoint ==
    ASSUME NEW a \in Int, NEW b \in Int, NEW n \in Nat \ {0},
           NEW i \in 0..n, NEW j \in 0..n, i <= j
    PROVE  /\ Between(a + Floor((b - a) * j, n), a + Floor((b - a) * i, n), b)
           /\ Between(a + Ceil((b - a) * j, n), a + Ceil((b - a) * i, n), b)
<1> DEFINE d == b - a
           upI == Floor(d * i, n)
           upJ == Floor(d * j, n)
           downI == Floor((-d) * i, n)
           downJ == Floor((-d) * j, n)
<1>1. d \in Int /\ -d \in Int
  OBVIOUS
<1>2. -(d * i) = (-d) * i /\ -(d * j) = (-d) * j
  BY <1>1
<1> HIDE DEF d
<1>3. /\ upI \in Int /\ upJ \in Int
      /\ d >= 0 => upJ \in 0..d /\ upI <= upJ
      /\ d <= 0 => upJ \in d..0 /\ upI >= upJ
  BY <1>1, PartOfWay, LongerPart
<1>4. /\ downI \in Int /\ downJ \in Int
      /\ -d >= 0 => downJ \in 0..(-d) /\ downI <= downJ
      /\ -d <= 0 => downJ \in (-d)..0 /\ downI >= downJ
  BY <1>1, PartOfWay, LongerPart
<1>5. Ceil(d * i, n) = -downI /\ Ceil(d * j, n) = -downJ
  BY <1>2 DEF Ceil, Floor
<1> HIDE DEF upI, upJ, downI, downJ
<1>6. Between(a + upJ, a + upI, b)
  BY <1>1, <1>3 DEF Between, d
<1>7. Between(a + (-downJ), a + (-downI), b)
  BY <1>1, <1>4 DEF Between, d
<1> QED  BY <1>5, <1>6, <1>7 DEF upI, upJ, d

\* The first entry of a table is the value it starts from.
LEMMA FirstEntry ==
    ASSUME NEW f \in FadeSets, f.setSize > 0, ~f.reverseFade
    PROVE  Entry(f, 0) = IF f.currentDirection = "IN" THEN f.fromValue ELSE f.toValue
<1> DEFINE s == Span(f.fadeCurve, f.setSize)
<1>1. f.fromValue \in Int /\ f.toValue \in Int /\ f.fadeCurve \in FadeCurves
      /\ f.setSize \in TableSizes \ {0} /\ 0 < f.setSize
  BY DEF FadeSets, TableSizes
<1>2. s \in Nat \ {0}
  BY <1>1, TableEntry
<1>3. Progress(f.fadeCurve, 0, f.setSize) = 0
  BY <1>1, FadeAssumption DEF Progress
<1> HIDE DEF s
<1>4. \A d \in Int : Floor(d * 0, s) = 0 /\ Ceil(d * 0, s) = 0
  BY <1>2 DEF Floor, Ceil
<1>5. /\ InEntry(f, 0) = f.fromValue /\ OutEntryCeil(f, 0) = f.toValue
  BY <1>1, <1>3, <1>4 DEF InEntry, OutEntryCeil, s
<1> QED  BY <1>5 DEF Entry

\* Each entry of a table is between the one before and where the fade arrives.
LEMMA NextEntryApproaches ==
    ASSUME NEW f \in FadeSets, ~f.reverseFade, f.currentDirection \in Directions,
           NEW i \in Nat \ {0}, i < f.setSize
    PROVE  Between(Entry(f, i), Entry(f, i - 1), Arrival(f))
<1> DEFINE s == Span(f.fadeCurve, f.setSize)
           p == Progress(f.fadeCurve, i - 1, f.setSize)
           q == Progress(f.fadeCurve, i, f.setSize)
           from == f.fromValue
           to == f.toValue
<1>1. /\ from \in Int /\ to \in Int /\ f.fadeCurve \in FadeCurves
      /\ f.setSize \in TableSizes \ {0} /\ f.setSize \in Nat
  BY DEF FadeSets, TableSizes
<1>2. i - 1 \in Nat /\ i - 1 < f.setSize /\ i \in 0..(f.setSize - 1)
  BY <1>1
<1>3. s \in Nat \ {0} /\ p \in 0..s /\ q \in 0..s
  BY <1>2, TableEntry
<1>4. p <= q
  <2>1. CASE f.fadeCurve = 0
    BY <1>1, <1>2, <2>1 DEF Progress
  <2>2. CASE f.fadeCurve # 0
    <3>1. /\ f.fadeCurve \in FadeCurves \ {0} /\ i \in 0..(f.setSize - 1) /\ i > 0
      BY <1>1, <1>2, <2>2
    <3>2. CurveProgress(f.fadeCurve, i - 1, f.setSize) <= CurveProgress(f.fadeCurve, i, f.setSize)
      BY <1>1, <3>1, FadeAssumption
    <3> QED  BY <2>2, <3>2 DEF Progress
  <2> QED  BY <2>1, <2>2
<1> HIDE DEF s, p, q, from, to
<1>5. /\ Between(from + Floor((to - from) * q, s), from + Floor((to - from) * p, s), to)
      /\ Between(to + Ceil((from - to) * q, s), to + Ceil((from - to) * p, s), from)
  BY <1>1, <1>3, <1>4, FurtherPoint
<1> QED  BY <1>5 DEF Entry, InEntry, OutEntryCeil, Arrival, Directions, s, p, q, from, to

\* What a tick samples is an integer, and in range if it is read from the table.
LEMMA SampleInRange ==
    ASSUME NEW f \in FadeSets, NEW g \in Int
    PROVE  /\ Sample(f, g) \in Int
           /\ InTable(f) => Between(Sample(f, g), f.fromValue, f.toValue)
BY EntryInRange DEF Sample, InTable, FadeSets

-----------------------------------------------------------------------------

IndexInTable(f) == f.currentIndex \in 0..f.setSize

\* The value of a fade is 0, before it has run, or in range.
InRange(f) == f.currentValue = 0 \/ Between(f.currentValue, f.fromValue, f.toValue)

\* Remembering a value changes nothing else.
LEMMA SetPrevValueKeeps ==
    ASSUME NEW f \in FadeSets, NEW v \in Int
    PROVE  LET h == SetPrevValue(f, v) IN
           /\ h \in FadeSets
           /\ h.currentIndex = f.currentIndex /\ h.currentValue = f.currentValue
           /\ h.setSize = f.setSize /\ h.fromValue = f.fromValue /\ h.toValue = f.toValue
           /\ h.reverseFade = f.reverseFade /\ h.currentDirection = f.currentDirection
BY DEF SetPrevValue, FadeSets

\* A tick keeps the type, the bounds of the index and, unless the table is read
\* beyond its end, the range.
LEMMA UpdateFadePreserves ==
    ASSUME NEW f \in FadeSets, NEW g \in Int
    PROVE  /\ UpdateFade(f, g) \in FadeSets
           /\ IndexInTable(f) => IndexInTable(UpdateFade(f, g))
           /\ InRange(f) /\ ~StrayRead(f) => InRange(UpdateFade(f, g))
<1>1. CASE ~Running(f)
  BY <1>1 DEF UpdateFade
<1>2. CASE Running(f) /\ AtEnd(f)
  <2>1. UpdateFade(f, g) = Finish(f)
    BY <1>2 DEF UpdateFade
  <2> DEFINE h == ResetPrevValue(f)
  <2>2. /\ h \in FadeSets
        /\ h.currentValue = f.currentValue /\ h.setSize = f.setSize
        /\ h.fromValue = f.fromValue /\ h.toValue = f.toValue
    <3> f.fromValue - 1 \in Int /\ f.toValue + 1 \in Int
      BY DEF FadeSets
    <3> QED  BY SetPrevValueKeeps DEF ResetPrevValue
  <2>3. f.fromValue \in Int /\ f.toValue \in Int /\ Arrival(f) \in {f.fromValue, f.toValue}
    BY DEF FadeSets, Arrival
  <2> HIDE DEF h
  <2> DEFINE fin == Finish(f)
  <2>4. fin = [h EXCEPT !.currentIndex = 0,
                        !.currentValue = IF SilentEnd(f) THEN h.currentValue ELSE Arrival(f),
                        !.fadeActive = FALSE, !.fadeFinished = TRUE, !.reverseFade = FALSE]
    BY DEF Finish, h
  <2> HIDE DEF fin
  <2>5. fin \in FadeSets /\ fin.currentIndex = 0 /\ fin.setSize \in Nat
    BY <2>2, <2>3, <2>4 DEF FadeSets, TableSizes
  <2>6. InRange(f) => InRange(fin)
    BY <2>2, <2>3, <2>4 DEF InRange, Between, FadeSets
  <2> QED  BY <2>1, <2>5, <2>6 DEF IndexInTable, fin
<1>3. CASE Running(f) /\ ~AtEnd(f)
  <2> DEFINE v == Sample(f, g)
  <2>1. UpdateFade(f, g) = Advance(f, v)
    BY <1>3 DEF UpdateFade
  <2>2. v \in Int /\ (~StrayRead(f) => Between(v, f.fromValue, f.toValue))
    BY <1>3, SampleInRange DEF StrayRead
  <2> HIDE DEF v
  <2> DEFINE h == SetPrevValue(f, v)
             adv == Advance(f, v)
  <2>3. /\ h \in FadeSets /\ f.currentIndex \in Nat /\ f.setSize \in Nat
        /\ h.currentIndex = f.currentIndex /\ h.currentValue = f.currentValue
        /\ h.setSize = f.setSize /\ h.fromValue = f.fromValue /\ h.toValue = f.toValue
    BY <2>2, SetPrevValueKeeps DEF FadeSets, TableSizes
  <2> DEFINE j == IF f.reverseFade THEN h.currentIndex - 1 ELSE h.currentIndex + 1
             w == IF PrevValue(f) # v THEN v ELSE h.currentValue
  <2>4. adv = [h EXCEPT !.currentIndex = j, !.currentValue = w]
    BY DEF Advance
  <2> HIDE DEF h
  <2>5. j \in Nat /\ (f.currentIndex <= f.setSize => j <= f.setSize)
    BY <1>3, <2>3 DEF AtEnd
  <2>6. w \in Int /\ w \in {v, h.currentValue}
    BY <2>2, <2>3 DEF FadeSets
  <2> HIDE DEF adv, j, w
  <2>7. adv \in FadeSets
    BY <2>3, <2>4, <2>5, <2>6 DEF FadeSets
  <2>8. IndexInTable(f) => IndexInTable(adv)
    BY <2>3, <2>4, <2>5 DEF FadeSets, IndexInTable
  <2>9. InRange(f) /\ ~StrayRead(f) => InRange(adv)
    BY <2>2, <2>3, <2>4, <2>6 DEF FadeSets, InRange
  <2> QED  BY <2>1, <2>7, <2>8, <2>9 DEF adv
<1> QED  BY <1>1, <1>2, <1>3

=============================================================================
