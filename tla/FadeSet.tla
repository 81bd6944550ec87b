------------------------------- MODULE FadeSet -------------------------------
(***************************************************************************)
(* The FadeSet class of StreamDeckMidiButton.cpp: the look-up tables of a  *)
(* timed CC fade and the small state machine that walks through them, one  *)
(* entry per tick of the timer.  A FadeSet is a record; each method of the *)
(* class is an operator from the old record to the new one.                *)
(*                                                                         *)
(* fadeTime is counted in halves of a sample interval, so that a fade      *)
(* shorter than one interval (setSize = 0) can be told from no fade.       *)
(* The float entries of the tables are kept exact, as fractions.           *)
(***************************************************************************)
EXTENDS Integers

CONSTANTS
    FadeTimes,             \* the fade times a button can be configured with
    FadeCurves,            \* the fade curves, 0 being the straight line
    CurveProgress(_, _, _),\* entry i of n of curve k, in units of ...
    CurveSpan(_, _)        \* ... 1 / CurveSpan(k, n) of the whole way

\* setSize = (int)(fadeTime * (1000 / sampleInterval)), rounded towards 0
SetSize(time) == IF time < 0 THEN -((-time) \div 2) ELSE time \div 2

TableSizes == {SetSize(t) : t \in FadeTimes} \cap Nat

\* The default of both is 0.  A curve goes from 0 towards 1 and never turns back.
ASSUME FadeAssumption ==
    /\ FadeTimes \subseteq Int /\ 0 \in FadeTimes
    /\ FadeCurves \subseteq Int /\ 0 \in FadeCurves
    /\ \A k \in FadeCurves \ {0}, n \in TableSizes \ {0} :
           /\ CurveSpan(k, n) \in Nat \ {0}
           /\ CurveProgress(k, 0, n) = 0
           /\ \A i \in 0..(n - 1) :
                  /\ CurveProgress(k, i, n) \in 0..CurveSpan(k, n)
                  /\ i > 0 => CurveProgress(k, i - 1, n) <= CurveProgress(k, i, n)

Directions == {"IN", "OUT"}

\* What an uninitialised Direction can hold: a direction, or neither.
DirectionValues == Directions \cup {"neither"}

FadeSets == [fadeActive : BOOLEAN, fadeFinished : BOOLEAN,
             currentValue : Int, currentDirection : DirectionValues,
             setSize : TableSizes, fromValue : Int, toValue : Int,
             fadeCurve : FadeCurves,
             currentIndex : Nat, inPrevValue : Int, outPrevValue : Int,
             reverseFade : BOOLEAN]

-----------------------------------------------------------------------------
(* Construction *)

Progress(k, i, n) == IF k = 0 THEN i ELSE CurveProgress(k, i, n)
Span(k, n) == IF k = 0 THEN n ELSE CurveSpan(k, n)

\* The default constructor; nothing initialises currentDirection.
DefaultFadeSet(direction) ==
    [fadeActive |-> FALSE, fadeFinished |-> FALSE, currentValue |-> 0,
     currentDirection |-> direction, setSize |-> 0, fromValue |-> 0,
     toValue |-> 0, fadeCurve |-> 0, currentIndex |-> 0, inPrevValue |-> 0,
     outPrevValue |-> 0, reverseFade |-> FALSE]

\* The constructor that calculates the tables, for a setSize of at least 1.
NewFadeSet(from, to, time, curve, direction) ==
    [DefaultFadeSet(direction) EXCEPT
        !.setSize = SetSize(time), !.fromValue = from, !.toValue = to,
        !.fadeCurve = curve, !.inPrevValue = from - 1, !.outPrevValue = to + 1]

\* What the constructor does with a fade time: the vector of a negative length
\* throws, and the first store into a vector of length 0 is fatal.
LengthError(time) == SetSize(time) < 0
NullStore(time) == SetSize(time) = 0

-----------------------------------------------------------------------------
(* The tables: inSet rises from fromValue to toValue, outSet goes back.     *)

Floor(num, den) == num \div den
Ceil(num, den) == -((-num) \div den)

\* Mutant: the slope is taken from toValue alone.
InEntry_SlopeOfTarget(f, i) ==
    f.fromValue + Floor(f.toValue * Progress(f.fadeCurve, i, f.setSize),
                        Span(f.fadeCurve, f.setSize))

InEntry(f, i) ==
    f.fromValue + Floor((f.toValue - f.fromValue) * Progress(f.fadeCurve, i, f.setSize),
                        Span(f.fadeCurve, f.setSize))

OutEntryFloor(f, i) ==
    f.toValue + Floor((f.fromValue - f.toValue) * Progress(f.fadeCurve, i, f.setSize),
                      Span(f.fadeCurve, f.setSize))

OutEntryCeil(f, i) ==
    f.toValue + Ceil((f.fromValue - f.toValue) * Progress(f.fadeCurve, i, f.setSize),
                     Span(f.fadeCurve, f.setSize))

\* Mutant: both directions read inSet.
Entry_OneTable(f, i) == InEntry(f, i)

\* The entry a running fade reads next, rounded the way its branch rounds it.
Entry(f, i) ==
    IF f.currentDirection = "IN" THEN InEntry(f, i)
    ELSE IF f.reverseFade THEN OutEntryFloor(f, i)
    ELSE OutEntryCeil(f, i)

\* The tables have setSize entries: entry setSize is beyond their end, and
\* reading it gives whatever g the memory there holds.
InTable(f) == f.currentIndex < f.setSize
Sample(f, g) == IF InTable(f) THEN Entry(f, f.currentIndex) ELSE g

-----------------------------------------------------------------------------
(* UpdateFade: one tick of a fade.  It gives the new FadeSet and whether    *)
(* there is an updated value to send.                                       *)

Running(f) == f.fadeActive /\ f.currentDirection \in Directions

\* Mutant: a fade on its way back waits for the far end as well.
AtEnd_IgnoresReverse(f) == f.currentIndex = f.setSize

AtEnd(f) == f.currentIndex = (IF f.reverseFade THEN 0 ELSE f.setSize)

\* A reversed fade IN stops without going to its last value.
SilentEnd(f) == f.currentDirection = "IN" /\ f.reverseFade

PrevValue(f) == IF f.currentDirection = "IN" THEN f.inPrevValue ELSE f.outPrevValue

SetPrevValue(f, v) ==
    IF f.currentDirection = "IN" THEN [f EXCEPT !.inPrevValue = v]
    ELSE [f EXCEPT !.outPrevValue = v]

ResetPrevValue(f) ==
    SetPrevValue(f, IF f.currentDirection = "IN" THEN f.fromValue - 1 ELSE f.toValue + 1)

\* Where a fade arrives: toValue after a fade IN or a reversed fade OUT.
Arrival(f) == IF f.currentDirection = "OUT" /\ ~f.reverseFade THEN f.fromValue ELSE f.toValue

\* Mutant: currentIndex is not reset.
Finish_KeepsIndex(f) ==
    [ResetPrevValue(f) EXCEPT
        !.currentValue = IF SilentEnd(f) THEN @ ELSE Arrival(f),
        !.fadeActive = FALSE, !.fadeFinished = TRUE, !.reverseFade = FALSE]

Finish(f) ==
    [ResetPrevValue(f) EXCEPT
        !.currentIndex = 0,
        !.currentValue = IF SilentEnd(f) THEN @ ELSE Arrival(f),
        !.fadeActive = FALSE, !.fadeFinished = TRUE, !.reverseFade = FALSE]

Advance(f, v) ==
    [SetPrevValue(f, v) EXCEPT
        !.currentIndex = IF f.reverseFade THEN @ - 1 ELSE @ + 1,
        !.currentValue = IF PrevValue(f) # v THEN v ELSE @]

UpdateFade(f, g) ==
    IF ~Running(f) THEN f
    ELSE IF AtEnd(f) THEN Finish(f)
    ELSE Advance(f, Sample(f, g))

\* Mutant: no fade reports the value it ends with.
Updated_SilentEnd(f, g) == Running(f) /\ ~AtEnd(f) /\ PrevValue(f) # Sample(f, g)

\* The Boolean that UpdateFade returns.
Updated(f, g) ==
    /\ Running(f)
    /\ IF AtEnd(f) THEN ~SilentEnd(f) ELSE PrevValue(f) # Sample(f, g)

\* UpdateFade reads the tables beyond their end.
StrayRead(f) == Running(f) /\ ~AtEnd(f) /\ ~InTable(f)

\* v is on the way between a and b, in either direction.
Between(v, a, b) == (a <= v /\ v <= b) \/ (b <= v /\ v <= a)

-----------------------------------------------------------------------------
(* The methods the key handlers call, in the steps in which they read and     *)
(* write the fade.                                                            *)

\* ReverseFade of a fade that is found at rest: it goes back from the far end.
ReverseFromEnd(f) ==
    [f EXCEPT !.currentIndex = f.setSize, !.reverseFade = TRUE, !.fadeActive = TRUE]

\* ReverseFade of a fade that is found running.
SetReverse(f) == [f EXCEPT !.reverseFade = TRUE]

\* FadeButtonPressed writes the opposite of the fadeActive it has read.
SetActive(f, active) == [f EXCEPT !.fadeActive = active]

=============================================================================
