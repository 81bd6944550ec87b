--------------------- MODULE StreamDeckMidiButton_proofs ---------------------
(***************************************************************************)
(* Invariants of the buttons, for any number of buttons, any settings and  *)
(* any look-up tables.                                                     *)
(***************************************************************************)
EXTENDS StreamDeckMidiButton, FadeSet_proofs, SequenceTheorems

-----------------------------------------------------------------------------
(* The entries of the two maps *)

\* An entry of the map of fades; stray tells whether a table was read beyond
\* its end, after which the value of a fade can be anything.
GoodFade(f, stray) == f \in FadeSets /\ IndexInTable(f) /\ (stray \/ InRange(f))
GoodEntry(e, stray) == e = NoEntry \/ GoodFade(e, stray)

LEMMA SettingsStored ==
    ASSUME NEW c \in Contexts, NEW p \in Payloads[c],
           NEW old \in ButtonSettings \cup {NoEntry}
    PROVE  NewSettings(p, old) \in ButtonSettings \cup {NoEntry}
BY PayloadAssumption DEF NewSettings

\* The fade made for settings is a fade, at rest, over their values.
LEMMA FadeMade ==
    ASSUME NEW s \in ButtonSettings, NEW d \in DirectionValues, ~LengthError(s.fadeTime)
    PROVE  LET f == FadeFrom(s, d) IN
           /\ f \in FadeSets
           /\ f.currentIndex = 0 /\ f.currentValue = 0
           /\ f.setSize = SetSize(s.fadeTime) /\ f.setSize \in Nat
           /\ f.fromValue = s.dataByte2 /\ f.toValue = s.dataByte2Alt
           /\ f.fadeCurve = s.fadeCurve
<1> DEFINE n == SetSize(s.fadeTime)
           f == FadeFrom(s, d)
           dir == CASE s.ccMode = 2 -> "IN" [] s.ccMode = 3 -> "OUT" [] OTHER -> d
<1>1. s.fadeTime \in FadeTimes /\ s.fadeTime \in Int /\ s.fadeCurve \in FadeCurves
      /\ s.dataByte2 \in Int /\ s.dataByte2Alt \in Int
  BY FadeAssumption DEF ButtonSettings
<1>2. n \in Int
  BY <1>1 DEF SetSize
<1>3. n \in TableSizes /\ n \in Nat
  BY <1>1, <1>2 DEF TableSizes, LengthError
<1> HIDE DEF n
<1>4. dir \in DirectionValues
  BY DEF DirectionValues, Directions
<1>5. f = NewFadeSet(s.dataByte2, s.dataByte2Alt, s.fadeTime, s.fadeCurve, dir)
  BY DEF FadeFrom
<1> HIDE DEF dir, f
<1>6. f = [fadeActive |-> FALSE, fadeFinished |-> FALSE, currentValue |-> 0,
           currentDirection |-> dir, setSize |-> n, fromValue |-> s.dataByte2,
           toValue |-> s.dataByte2Alt, fadeCurve |-> s.fadeCurve,
           currentIndex |-> 0, inPrevValue |-> s.dataByte2 - 1,
           outPrevValue |-> s.dataByte2Alt + 1, reverseFade |-> FALSE]
  BY <1>5 DEF NewFadeSet, DefaultFadeSet, n
<1>7. s.dataByte2 - 1 \in Int /\ s.dataByte2Alt + 1 \in Int
  BY <1>1
<1>8. f \in FadeSets
  BY <1>1, <1>3, <1>4, <1>6, <1>7 DEF FadeSets
<1> QED  BY <1>3, <1>6, <1>8 DEF f, n

LEMMA FadeStored ==
    ASSUME NEW c \in Contexts, NEW p \in Payloads[c], NEW d \in DirectionValues,
           NEW old, NEW stray \in BOOLEAN, GoodEntry(old, stray)
    PROVE  /\ GoodEntry(NewFade(p, old, d), stray)
           /\ old # NoEntry => NewFade(p, old, d) # NoEntry
<1>1. CASE StoreThrows(p) \/ StoreCrashes(p) \/ ~SettingsFrom(p).toggleFade
  BY <1>1 DEF NewFade
<1>2. CASE ~(StoreThrows(p) \/ StoreCrashes(p) \/ ~SettingsFrom(p).toggleFade)
  <2> DEFINE s == SettingsFrom(p)
             f == FadeFrom(s, d)
  <2>1. ~Malformed(p) /\ ~LengthError(s.fadeTime)
    BY <1>2 DEF StoreThrows
  <2>2. s \in ButtonSettings
    BY <2>1, PayloadAssumption
  <2>3. NewFade(p, old, d) = f
    BY <1>2 DEF NewFade
  <2> HIDE DEF s
  <2>4. f \in FadeSets /\ f.currentIndex = 0 /\ f.currentValue = 0 /\ f.setSize \in Nat
    BY <2>1, <2>2, FadeMade
  <2> HIDE DEF f
  <2>5. GoodFade(f, stray) /\ f # NoEntry
    BY <2>4, ButtonAssumption DEF GoodFade, IndexInTable, InRange
  <2> QED  BY <2>3, <2>5 DEF GoodEntry
<1> QED  BY <1>1, <1>2

LEMMA FadeRead ==
    ASSUME NEW d \in DirectionValues, NEW e, NEW stray \in BOOLEAN, GoodEntry(e, stray)
    PROVE  GoodFade(FadeOf(e, d), stray)
<1>1. CASE e = NoEntry
  <2>1. 0 \in TableSizes /\ 0 \in FadeCurves
    BY FadeAssumption DEF TableSizes, SetSize
  <2>2. DefaultFadeSet(d) \in FadeSets
    BY <2>1 DEF DefaultFadeSet, FadeSets
  <2> QED  BY <1>1, <2>2 DEF FadeOf, GoodFade, IndexInTable, InRange, DefaultFadeSet
<1>2. CASE e # NoEntry
  BY <1>2 DEF GoodEntry, FadeOf
<1> QED  BY <1>1, <1>2

\* What the handlers of the keys, and the end of UpdateTimer, do to a fade.
LEMMA FadePressed ==
    ASSUME NEW f, NEW stray \in BOOLEAN, GoodFade(f, stray), NEW st \in {0, 1},
           NEW active \in BOOLEAN
    PROVE  /\ GoodFade(SetActive(f, active), stray)
           /\ GoodFade(ToggleFade(f, st), stray)
           /\ GoodFade(SetReverse(f), stray)
           /\ GoodFade(ReverseFromEnd(f), stray)
           /\ GoodFade([f EXCEPT !.fadeFinished = ~@], stray)
<1> USE DEF GoodFade, IndexInTable, InRange, FadeSets
<1>1. GoodFade(SetActive(f, active), stray)
  BY DEF SetActive
<1>2. GoodFade(ToggleFade(f, st), stray)
  BY DEF ToggleFade, DirectionValues, Directions
<1>3. GoodFade(SetReverse(f), stray)
  BY DEF SetReverse
<1>4. GoodFade(ReverseFromEnd(f), stray)
  <2> DEFINE n == f.setSize
             h == [f EXCEPT !.currentIndex = n, !.reverseFade = TRUE, !.fadeActive = TRUE]
  <2>1. n \in TableSizes /\ n \in Nat /\ n \in 0..n
    BY DEF TableSizes
  <2>2. ReverseFromEnd(f) = h
    BY DEF ReverseFromEnd
  <2>3. h.setSize = n
    OBVIOUS
  <2> HIDE DEF n
  <2>4. h \in FadeSets
    BY <2>1
  <2>5. h.currentIndex = n /\ h.currentValue = f.currentValue
          /\ h.fromValue = f.fromValue /\ h.toValue = f.toValue
    OBVIOUS
  <2> HIDE DEF h
  <2> QED  BY <2>1, <2>2, <2>3, <2>4, <2>5
<1>5. GoodFade([f EXCEPT !.fadeFinished = ~@], stray)
  OBVIOUS
<1> QED  BY <1>1, <1>2, <1>3, <1>4, <1>5

-----------------------------------------------------------------------------
(* The inductive invariant: the types, what is known of each fade, and that *)
(* UpdateTimer and the calls of a handler are only ever at a button that    *)
(* has a fade.                                                              *)

FadesGood == \A c \in Contexts : GoodEntry(storedFadeSettings[c], strayRead)

TimerAtFade == timer.pc # "idle" => HasFade(timer.it)

CallsAtFades == handler \in Seq([at : Fading, call : Calls])

ButtonInv == TypeOK /\ FadesGood /\ TimerAtFade /\ CallsAtFades

\* The part of the invariant about the fades and the timer.
FadeInv ==
    /\ storedFadeSettings \in [Contexts -> FadeSets \cup {NoEntry}]
    /\ timer \in [pc : {"idle", "update", "send", "ok", "clear"}, it : Contexts]
    /\ strayRead \in BOOLEAN
    /\ FadesGood
    /\ TimerAtFade

\* A step preserves that, and no fade is ever taken out of the map.
FadesKept == FadeInv' /\ Fading \subseteq Fading'

LEMMA OneFadeChanges ==
    ASSUME FadeInv, NEW c \in Contexts, NEW e,
           storedFadeSettings' = [storedFadeSettings EXCEPT ![c] = e],
           GoodEntry(e, strayRead), storedFadeSettings[c] # NoEntry => e # NoEntry,
           UNCHANGED <<timer, strayRead>>
    PROVE  FadesKept
<1>1. e \in FadeSets \cup {NoEntry}
  BY DEF GoodEntry, GoodFade
<1> QED  BY <1>1 DEF FadesKept, Fading, FadeInv, FadesGood, TimerAtFade, HasFade

LEMMA NoFadeChanges ==
    ASSUME FadeInv, UNCHANGED <<storedFadeSettings, timer, strayRead>>
    PROVE  FadesKept
BY DEF FadesKept, Fading, FadeInv, FadesGood, TimerAtFade, HasFade, GoodEntry

\* The iterator of UpdateTimer moves on to a fade or to the end of the map.
LEMMA IteratorMoves ==
    ASSUME FadeInv, MoveOnFrom(timer.it)
    PROVE  /\ timer' \in [pc : {"idle", "update", "send", "ok", "clear"}, it : Contexts]
           /\ timer'.pc # "idle" => storedFadeSettings[timer'.it] # NoEntry
<1>1. CASE timer' = [timer EXCEPT !.pc = "idle"]
  BY <1>1 DEF FadeInv
<1>2. CASE \E d \in Fading : timer' = [pc |-> "update", it |-> d]
  BY <1>2 DEF Fading
<1> QED  BY <1>1, <1>2 DEF MoveOnFrom

LEMMA StoreKeepsFades ==
    ASSUME FadeInv, NEW c \in Contexts, NEW p \in Payloads[c],
           StoreButtonSettings(c, p), UNCHANGED <<timer, strayRead>>
    PROVE  FadesKept
<1>1. PICK d \in DirectionValues :
        storedFadeSettings' = [storedFadeSettings EXCEPT
                                ![c] = NewFade(p, storedFadeSettings[c], d)]
  BY DEF StoreButtonSettings
<1>2. GoodEntry(storedFadeSettings[c], strayRead) /\ strayRead \in BOOLEAN
  BY DEF FadeInv, FadesGood
<1>3. /\ GoodEntry(NewFade(p, storedFadeSettings[c], d), strayRead)
      /\ storedFadeSettings[c] # NoEntry => NewFade(p, storedFadeSettings[c], d) # NoEntry
  BY <1>2, FadeStored
<1> QED  BY <1>1, <1>3, OneFadeChanges

\* The entry KeyDownForAction works on is a good one.
LEMMA FadeAtGood ==
    ASSUME FadeInv, NEW c \in Contexts, saved[c] \in Payloads[c], NEW d \in DirectionValues
    PROVE  /\ GoodEntry(FadeAt(c, d), strayRead)
           /\ storedFadeSettings[c] # NoEntry => FadeAt(c, d) # NoEntry
<1>1. GoodEntry(storedFadeSettings[c], strayRead) /\ strayRead \in BOOLEAN
  BY DEF FadeInv, FadesGood
<1> QED  BY <1>1, FadeStored DEF FadeAt, PressedFade

LEMMA SendKeepsFades ==
    ASSUME FadeInv, NEW c \in Contexts, saved[c] \in Payloads[c], NEW s, NEW messages,
           KeyDownSends(c, s, messages), UNCHANGED <<timer, strayRead>>
    PROVE  FadesKept
<1>1. PICK d \in DirectionValues :
        storedFadeSettings' = [storedFadeSettings EXCEPT ![c] = FadeAt(c, d)]
  BY DEF KeyDownSends
<1>2. /\ GoodEntry(FadeAt(c, d), strayRead)
      /\ storedFadeSettings[c] # NoEntry => FadeAt(c, d) # NoEntry
  BY FadeAtGood
<1> QED  BY <1>1, <1>2, OneFadeChanges

\* A good fade is stored for button c.
LEMMA GoodFadeStored ==
    ASSUME FadeInv, NEW c \in Contexts, NEW f, GoodFade(f, strayRead),
           storedFadeSettings' = [storedFadeSettings EXCEPT ![c] = f],
           UNCHANGED <<timer, strayRead>>
    PROVE  FadesKept
<1>1. GoodEntry(f, strayRead) /\ f # NoEntry
  BY ButtonAssumption DEF GoodEntry, GoodFade
<1> QED  BY <1>1, OneFadeChanges

LEMMA KeyDownKeepsFades ==
    ASSUME TypeOK, FadeInv, NEW c \in Contexts, KeyDown(c)
    PROVE  FadesKept
<1>1. saved[c] \in Payloads[c] /\ strayRead \in BOOLEAN
  BY DEF TypeOK
<1>2. CASE KeyDownUnstored(c)
  <2>1. StoreButtonSettings(c, saved[c]) /\ UNCHANGED <<timer, strayRead>>
    BY <1>2 DEF KeyDownUnstored, KeyIsPressed
  <2> QED  BY <1>1, <2>1, StoreKeepsFades
<1>3. CASE KeyDownNoteOn(c)
  BY <1>1, <1>3, SendKeepsFades DEF KeyDownNoteOn, KeyIsPressed
<1>4. CASE KeyDownCC(c)
  BY <1>1, <1>4, SendKeepsFades DEF KeyDownCC, KeyIsPressed
<1>5. CASE KeyDownProgramChange(c)
  BY <1>1, <1>5, SendKeepsFades DEF KeyDownProgramChange, KeyIsPressed
<1>6. CASE KeyDownMMC(c)
  BY <1>1, <1>6, SendKeepsFades DEF KeyDownMMC, KeyIsPressed
<1>7. ASSUME NEW st \in {0, 1}, KeyDownNoteToggle(c, st) PROVE FadesKept
  BY <1>1, <1>7, SendKeepsFades DEF KeyDownNoteToggle, KeyIsPressed
<1>8. ASSUME NEW st \in {0, 1}, KeyDownCCToggle(c, st) PROVE FadesKept
  BY <1>1, <1>8, SendKeepsFades DEF KeyDownCCToggle, KeyIsPressed
<1>9. ASSUME NEW d \in DirectionValues
      PROVE  GoodFade(FadeOf(FadeAt(c, d), d), strayRead)
  BY <1>1, FadeAtGood, FadeRead
<1>10. CASE KeyDownCCFade(c)
  <2>1. PICK d \in DirectionValues :
          storedFadeSettings' = [storedFadeSettings EXCEPT ![c] = FadeOf(FadeAt(c, d), d)]
    BY <1>10 DEF KeyDownCCFade, KeyDownFades
  <2>2. GoodFade(FadeOf(FadeAt(c, d), d), strayRead)
    BY <1>9
  <2> QED  BY <1>10, <2>1, <2>2, GoodFadeStored DEF KeyDownCCFade, KeyIsPressed
<1>11. ASSUME NEW st \in {0, 1}, KeyDownCCToggleFade(c, st) PROVE FadesKept
  <2>1. PICK d \in DirectionValues :
          storedFadeSettings' = [storedFadeSettings EXCEPT
                                  ![c] = ToggleFade(FadeOf(FadeAt(c, d), d), st)]
    BY <1>11 DEF KeyDownCCToggleFade, KeyDownFades
  <2>2. GoodFade(ToggleFade(FadeOf(FadeAt(c, d), d), st), strayRead)
    BY <1>1, <1>9, FadePressed
  <2> QED  BY <1>11, <2>1, <2>2, GoodFadeStored DEF KeyDownCCToggleFade, KeyIsPressed
<1> QED
  BY <1>2, <1>3, <1>4, <1>5, <1>6, <1>7, <1>8, <1>10, <1>11 DEF KeyDown

LEMMA KeyUpKeepsFades ==
    ASSUME TypeOK, FadeInv, NEW c \in Contexts, KeyUp(c)
    PROVE  FadesKept
<1>1. CASE KeyUpSends(c)
  BY <1>1, NoFadeChanges DEF KeyUpSends, KeyIsReleased
<1>2. CASE KeyUpOther(c)
  BY <1>2, NoFadeChanges DEF KeyUpOther, KeyIsReleased
<1>3. CASE KeyUpCCFade(c)
  <2>1. PICK d \in DirectionValues :
          storedFadeSettings' = [storedFadeSettings EXCEPT
                                  ![c] = SetActive(FadeOf(storedFadeSettings[c], d), TRUE)]
    BY <1>3 DEF KeyUpCCFade
  <2>2. GoodEntry(storedFadeSettings[c], strayRead) /\ strayRead \in BOOLEAN
    BY DEF FadeInv, FadesGood
  <2>3. GoodFade(FadeOf(storedFadeSettings[c], d), strayRead)
    BY <2>2, FadeRead
  <2>4. GoodFade(SetActive(FadeOf(storedFadeSettings[c], d), TRUE), strayRead)
    BY <2>2, <2>3, FadePressed
  <2> QED  BY <1>3, <2>1, <2>4, GoodFadeStored DEF KeyUpCCFade, KeyIsReleased
<1> QED  BY <1>1, <1>2, <1>3 DEF KeyUp

\* The next call of a handler is made on a fade that is there.
LEMMA CallAtFade ==
    ASSUME FadeInv, CallsAtFades, NEW c \in Contexts, NEW call, Calling(c, call)
    PROVE  GoodFade(storedFadeSettings[c], strayRead)
<1>1. Head(handler) \in [at : Fading, call : Calls]
  BY HeadTailProperties DEF CallsAtFades, Calling
<1>2. c \in Fading
  BY <1>1 DEF Calling
<1> QED  BY <1>2 DEF Fading, FadeInv, FadesGood, GoodEntry

LEMMA CallKeepsFades ==
    ASSUME FadeInv, CallsAtFades, NEW c \in Contexts, HandlerStep(c)
    PROVE  FadesKept
<1> DEFINE f == storedFadeSettings[c]
<1>1. ASSUME NEW h, NEW first, Goes(c, h, first), GoodFade(h, strayRead)
      PROVE  FadesKept
  BY <1>1, GoodFadeStored DEF Goes
<1>2. GoodFade(f, strayRead) /\ strayRead \in BOOLEAN
  BY CallAtFade DEF FadeInv, HandlerStep, ReverseFade, FadeButtonPressed, WriteFade
<1>3. /\ GoodFade(SetActive(f, TRUE), strayRead) /\ GoodFade(SetActive(f, FALSE), strayRead)
      /\ GoodFade(SetReverse(f), strayRead) /\ GoodFade(ReverseFromEnd(f), strayRead)
  BY <1>2, FadePressed
<1> HIDE DEF f
<1>4. CASE ReverseFade(c)
  BY <1>1, <1>2, <1>3, <1>4 DEF ReverseFade, f
<1>5. CASE FadeButtonPressed(c)
  BY <1>1, <1>2, <1>5 DEF FadeButtonPressed, f
<1>6. CASE WriteFade(c)
  BY <1>1, <1>3, <1>6 DEF WriteFade, f
<1> QED  BY <1>4, <1>5, <1>6 DEF HandlerStep

LEMMA TimerKeepsFades ==
    ASSUME TypeOK, FadeInv, UpdateTimer
    PROVE  FadesKept
<1> DEFINE it == timer.it
           f == storedFadeSettings[it]
<1>1. it \in Contexts /\ strayRead \in BOOLEAN
  BY DEF FadeInv
<1>2. timer.pc # "idle" => GoodFade(f, strayRead)
  BY <1>1 DEF FadesKept, Fading, FadeInv, FadesGood, TimerAtFade, HasFade, GoodEntry
<1>3. CASE TimerStart
  <2>1. PICK d \in Fading : timer' = [pc |-> "update", it |-> d]
    BY <1>3 DEF TimerStart
  <2> QED  BY <1>3, <2>1 DEF TimerStart, FadesKept, Fading, FadeInv, FadesGood,
                             TimerAtFade, HasFade, plugin, GoodEntry
<1>4. CASE TimerUpdate
  <2>1. PICK g \in Garbage :
          /\ storedFadeSettings' = [storedFadeSettings EXCEPT ![it] = UpdateFade(f, g)]
          /\ timer' = [timer EXCEPT !.pc = IF Updated(f, g) THEN "send" ELSE "ok"]
          /\ strayRead' = (strayRead \/ StrayRead(f))
    BY <1>4 DEF TimerUpdate
  <2>2. GoodFade(f, strayRead)
    BY <1>2, <1>4 DEF TimerUpdate, TimerIs
  <2>3. strayRead' \in BOOLEAN
    BY <1>1, <2>1, <2>2 DEF StrayRead, Running, AtEnd, InTable, GoodFade, FadeSets
  <2>4. GoodFade(UpdateFade(f, g), strayRead')
    <3>1. g \in Int
      BY ButtonAssumption
    <3> QED  BY <2>1, <2>2, <3>1, UpdateFadePreserves DEF GoodFade
  <2>5. UpdateFade(f, g) # NoEntry /\ UpdateFade(f, g) \in FadeSets
    BY <2>4, ButtonAssumption DEF GoodFade
  <2>6. storedFadeSettings' \in [Contexts -> FadeSets \cup {NoEntry}]
    BY <1>1, <2>1, <2>5 DEF FadeInv
  <2>7. /\ timer' \in [pc : {"idle", "update", "send", "ok", "clear"}, it : Contexts]
        /\ timer'.it = it
    BY <2>1 DEF FadeInv
  <2>8. ASSUME NEW c \in Contexts PROVE GoodEntry(storedFadeSettings'[c], strayRead')
    <3>1. CASE c = it
      BY <1>1, <2>1, <2>4, <3>1 DEF GoodEntry, FadeInv
    <3>2. CASE c # it
      BY <2>1, <3>2 DEF GoodEntry, GoodFade, FadeInv, FadesGood
    <3> QED  BY <3>1, <3>2
  <2>9. storedFadeSettings'[timer'.it] # NoEntry
    BY <1>1, <2>1, <2>5, <2>7 DEF FadeInv
  <2>10. Fading \subseteq Fading'
    BY <2>1, <2>5 DEF Fading, FadeInv
  <2> QED
    BY <2>3, <2>6, <2>7, <2>8, <2>9, <2>10
       DEF FadesKept, FadeInv, FadesGood, TimerAtFade, HasFade
<1>5. CASE TimerSend
  <2>1. /\ timer.pc = "send" /\ timer' = [timer EXCEPT !.pc = "ok"]
        /\ UNCHANGED <<storedFadeSettings, strayRead>>
    BY <1>5 DEF TimerSend, TimerIs
  <2> QED  BY <2>1 DEF FadesKept, Fading, FadeInv, FadesGood, TimerAtFade, HasFade, GoodEntry
<1>6. CASE TimerOk
  <2>1. UNCHANGED <<storedFadeSettings, strayRead>>
    BY <1>6 DEF TimerOk, plugin
  <2>2. /\ timer' \in [pc : {"idle", "update", "send", "ok", "clear"}, it : Contexts]
        /\ timer'.pc # "idle" => storedFadeSettings[timer'.it] # NoEntry
    <3>1. CASE f.fadeFinished
      BY <1>2, <1>6, <3>1 DEF TimerOk, TimerIs, FadeInv, TimerAtFade, HasFade
    <3>2. CASE ~f.fadeFinished
      BY <1>6, <3>2, IteratorMoves DEF TimerOk
    <3> QED  BY <3>1, <3>2
  <2> QED  BY <2>1, <2>2 DEF FadesKept, Fading, FadeInv, FadesGood, TimerAtFade, HasFade, GoodEntry
<1>7. CASE TimerClear
  <2> DEFINE h == [f EXCEPT !.fadeFinished = ~@]
  <2>1. /\ timer.pc = "clear" /\ UNCHANGED strayRead /\ MoveOnFrom(it)
        /\ storedFadeSettings' = [storedFadeSettings EXCEPT ![it] = h]
    BY <1>7 DEF TimerClear, TimerIs
  <2>2. GoodFade(h, strayRead)
    BY <1>1, <1>2, <2>1, FadePressed
  <2>3. h \in FadeSets /\ h # NoEntry /\ GoodEntry(h, strayRead)
    BY <2>2, ButtonAssumption DEF GoodFade, GoodEntry
  <2>4. /\ timer' \in [pc : {"idle", "update", "send", "ok", "clear"}, it : Contexts]
        /\ timer'.pc # "idle" => storedFadeSettings[timer'.it] # NoEntry
    BY <2>1, IteratorMoves
  <2> HIDE DEF h
  <2>5. /\ storedFadeSettings' \in [Contexts -> FadeSets \cup {NoEntry}]
        /\ \A c \in Contexts : GoodEntry(storedFadeSettings'[c], strayRead)
        /\ \A c \in Contexts : storedFadeSettings[c] # NoEntry => storedFadeSettings'[c] # NoEntry
    BY <1>1, <2>1, <2>3 DEF FadeInv, FadesGood
  <2>6. GoodEntry(storedFadeSettings'[timer'.it], strayRead)
    BY <2>4, <2>5
  <2> QED
    BY <1>1, <2>1, <2>4, <2>5 DEF FadesKept, Fading, FadeInv, FadesGood, TimerAtFade, HasFade,
                                  GoodEntry, GoodFade
<1> QED  BY <1>3, <1>4, <1>5, <1>6, <1>7 DEF UpdateTimer

LEMMA StepKeepsFades ==
    ASSUME TypeOK, FadeInv, CallsAtFades, Step
    PROVE  FadesKept
<1>1. CASE LockVisibleContexts
  BY <1>1, NoFadeChanges DEF LockVisibleContexts
<1>2. ASSUME NEW c \in Contexts, WillAppear(c) PROVE FadesKept
  BY <1>2, StoreKeepsFades DEF WillAppear, TypeOK
<1>3. ASSUME NEW c \in Contexts, WillDisappear(c) PROVE FadesKept
  BY <1>3, NoFadeChanges DEF WillDisappear
<1>4. ASSUME NEW c \in Contexts, NEW p \in Payloads[c], DidReceiveSettings(c, p)
      PROVE  FadesKept
  BY <1>4, StoreKeepsFades DEF DidReceiveSettings
<1> QED
  BY <1>1, <1>2, <1>3, <1>4, KeyDownKeepsFades, KeyUpKeepsFades,
     CallKeepsFades, TimerKeepsFades DEF Step

-----------------------------------------------------------------------------
(* The calls of the handlers *)

\* What a handler of a key of button c is left to do, in a set S of buttons.
LEMMA CallsToDo ==
    ASSUME NEW S, NEW c \in S, NEW call \in Calls
    PROVE  ToDo(c, call) \in Seq([at : S, call : Calls])
BY DEF ToDo

LEMMA CallsOfPress ==
    ASSUME NEW S, NEW c \in S, NEW f
    PROVE  TogglePresses(c, f) \in Seq([at : S, call : Calls])
<1> DEFINE Todo == Seq([at : S, call : Calls])
<1>1. ToDo(c, "FadeButtonPressed") \in Todo /\ <<>> \in Todo
  BY CallsToDo, EmptySeq DEF Calls
<1> HIDE DEF Todo
<1>2. ASSUME NEW s \in Todo, NEW t \in Todo PROVE s \o t \in Todo
  BY ConcatProperties DEF Todo
<1>3. /\ (IF f.fadeActive THEN ToDo(c, "FadeButtonPressed") ELSE <<>>) \in Todo
      /\ (IF c \in InMultiAction THEN ToDo(c, "FadeButtonPressed") ELSE <<>>) \in Todo
  BY <1>1
<1> QED  BY <1>2, <1>3 DEF TogglePresses, Todo

\* A fade that has been written is in the map.
LEMMA WrittenFade ==
    ASSUME FadeInv, FadesKept, NEW c \in Contexts, NEW f \in FadeSets,
           storedFadeSettings' = [storedFadeSettings EXCEPT ![c] = f]
    PROVE  c \in Fading'
BY ButtonAssumption DEF FadeInv, Fading

LEMMA StepKeepsCalls ==
    ASSUME TypeOK, FadeInv, CallsAtFades, Step
    PROVE  CallsAtFades'
<1> DEFINE Todo == Seq([at : Fading', call : Calls])
<1>1. FadesKept /\ Fading \subseteq Fading'
  BY StepKeepsFades DEF FadesKept
<1>2. handler \in Todo
  BY <1>1, SeqMonotonic DEF CallsAtFades
<1> HIDE DEF Todo
<1> SUFFICES handler' \in Todo
  BY DEF Todo, CallsAtFades
<1>3. ASSUME NEW c \in Contexts, NEW d \in DirectionValues, saved[c] \in Payloads[c]
      PROVE  FadeOf(FadeAt(c, d), d) \in FadeSets
  <2>1. strayRead \in BOOLEAN /\ GoodEntry(FadeAt(c, d), strayRead)
    BY <1>3, FadeAtGood DEF FadeInv
  <2> QED  BY <2>1, FadeRead DEF GoodFade
<1>4. ASSUME NEW c \in Contexts, KeyDownCCFade(c) PROVE handler' \in Todo
  <2>1. PICK d \in DirectionValues :
          /\ storedFadeSettings' = [storedFadeSettings EXCEPT ![c] = FadeOf(FadeAt(c, d), d)]
          /\ handler' = ToDo(c, "FadeButtonPressed")
    BY <1>4 DEF KeyDownCCFade, KeyDownFades
  <2>2. c \in Fading'
    BY <1>1, <1>3, <2>1, WrittenFade DEF TypeOK
  <2> QED  BY <2>1, <2>2, CallsToDo DEF Calls, Todo
<1>5. ASSUME NEW c \in Contexts, NEW st \in {0, 1}, KeyDownCCToggleFade(c, st)
      PROVE  handler' \in Todo
  <2>1. PICK d \in DirectionValues :
          LET f == FadeOf(FadeAt(c, d), d)
          IN  /\ storedFadeSettings' = [storedFadeSettings EXCEPT ![c] = ToggleFade(f, st)]
              /\ handler' = TogglePresses(c, f)
    BY <1>5 DEF KeyDownCCToggleFade, KeyDownFades
  <2>2. ToggleFade(FadeOf(FadeAt(c, d), d), st) \in FadeSets
    <3>1. FadeOf(FadeAt(c, d), d) \in FadeSets
      BY <1>3 DEF TypeOK
    <3> QED  BY <3>1 DEF ToggleFade, FadeSets, DirectionValues, Directions
  <2>3. c \in Fading'
    BY <1>1, <2>1, <2>2, WrittenFade
  <2> QED  BY <2>1, <2>3, CallsOfPress DEF Todo
<1>6. ASSUME NEW c \in Contexts, KeyUpCCFade(c) PROVE handler' \in Todo
  <2>1. PICK d \in DirectionValues :
          LET f == FadeOf(storedFadeSettings[c], d)
          IN  /\ storedFadeSettings' = [storedFadeSettings EXCEPT ![c] = SetActive(f, TRUE)]
              /\ handler' = IF f.fadeActive THEN ToDo(c, "ReverseFade") ELSE <<>>
    BY <1>6 DEF KeyUpCCFade
  <2>2. strayRead \in BOOLEAN /\ GoodEntry(storedFadeSettings[c], strayRead)
    BY DEF FadeInv, FadesGood
  <2>3. FadeOf(storedFadeSettings[c], d) \in FadeSets
    BY <2>2, FadeRead DEF GoodFade
  <2>4. SetActive(FadeOf(storedFadeSettings[c], d), TRUE) \in FadeSets
    BY <2>3 DEF SetActive, FadeSets
  <2>5. c \in Fading'
    BY <1>1, <2>1, <2>4, WrittenFade
  <2>6. ToDo(c, "ReverseFade") \in Todo /\ <<>> \in Todo
    BY <2>5, CallsToDo, EmptySeq DEF Calls, Todo
  <2> QED  BY <2>1, <2>6
<1>7. ASSUME NEW c \in Contexts, HandlerStep(c) PROVE handler' \in Todo
  <2>1. PICK call : Calling(c, call)
    BY <1>7 DEF HandlerStep, ReverseFade, FadeButtonPressed, WriteFade
  <2>2. Tail(handler) \in Todo /\ Head(handler) \in [at : Fading', call : Calls]
    BY <1>2, <2>1, HeadTailProperties DEF Calling, Todo
  <2>3. c \in Fading'
    BY <2>1, <2>2 DEF Calling
  <2>4. /\ <<>> \in Todo /\ ToDo(c, "SetReverse") \in Todo
        /\ ToDo(c, "Activate") \in Todo /\ ToDo(c, "Deactivate") \in Todo
    BY <2>3, CallsToDo, EmptySeq DEF Calls, Todo
  <2>5. ASSUME NEW f, NEW first \in Todo, Goes(c, f, first) PROVE handler' \in Todo
    BY <2>2, <2>5, ConcatProperties DEF Goes, Todo
  <2>6. CASE ReverseFade(c)
    BY <2>4, <2>5, <2>6 DEF ReverseFade
  <2>7. CASE FadeButtonPressed(c)
    BY <2>4, <2>5, <2>7 DEF FadeButtonPressed
  <2>8. CASE WriteFade(c)
    BY <2>4, <2>5, <2>8 DEF WriteFade
  <2> QED  BY <1>7, <2>6, <2>7, <2>8 DEF HandlerStep
<1>8. ASSUME NEW c \in Contexts, KeyDown(c) \/ KeyUp(c) PROVE handler' \in Todo
  <2>1. \/ UNCHANGED handler
        \/ KeyDownCCFade(c) \/ KeyUpCCFade(c)
        \/ \E st \in {0, 1} : KeyDownCCToggleFade(c, st)
    BY <1>8 DEF KeyDown, KeyDownUnstored, KeyDownNoteOn, KeyDownCC, KeyDownProgramChange,
                KeyDownMMC, KeyDownNoteToggle, KeyDownCCToggle, KeyDownSends, KeyUp,
                KeyUpSends, KeyUpOther
  <2> QED  BY <1>2, <1>4, <1>5, <1>6, <2>1
<1>9. ASSUME LockVisibleContexts \/ UpdateTimer PROVE UNCHANGED handler
  BY <1>9 DEF LockVisibleContexts, UpdateTimer, TimerStart, TimerUpdate, TimerSend,
              TimerOk, TimerClear, plugin
<1>10. ASSUME NEW c \in Contexts, \/ WillAppear(c) \/ WillDisappear(c)
                                  \/ \E p \in Payloads[c] : DidReceiveSettings(c, p)
       PROVE  UNCHANGED handler
  BY <1>10 DEF WillAppear, WillDisappear, DidReceiveSettings
<1> QED  BY <1>2, <1>7, <1>8, <1>9, <1>10 DEF Step

-----------------------------------------------------------------------------
(* The other variables *)

SettingsInv == storedButtonSettings \in [Contexts -> ButtonSettings \cup {NoEntry}]

\* The messages on the wire are bytes.
Bytes == Seq(Seq(0..255))

LEMMA MessageIsBytes ==
    ASSUME NEW s \in ButtonSettings, NEW value \in Int
    PROVE  /\ Message(s, value) \in Seq(0..255)
           /\ <<Message(s, value)>> \in Bytes
           /\ <<Byte(s.statusByte), Byte(s.dataByte1)>> \in Seq(0..255)
           /\ <<240, 127, 127, 6, Byte(s.dataByte5), 247>> \in Seq(0..255)
<1>1. /\ Byte(s.statusByte) \in 0..255 /\ Byte(s.dataByte1) \in 0..255
      /\ Byte(s.dataByte5) \in 0..255 /\ Byte(value) \in 0..255
  BY DEF Byte, ButtonSettings
<1> QED  BY <1>1 DEF Message, Bytes

LEMMA DefaultIsSettings == DefaultSettings \in ButtonSettings
BY FadeAssumption DEF DefaultSettings, ButtonSettings

LEMMA SettingsAtHand ==
    ASSUME TypeOK, NEW c \in Contexts
    PROVE  /\ SettingsOf(storedButtonSettings[c]) \in ButtonSettings
           /\ ~StoreFails(c) => SettingsAt(c) \in ButtonSettings
<1>1. saved[c] \in Payloads[c] /\ storedButtonSettings[c] \in ButtonSettings \cup {NoEntry}
  BY DEF TypeOK
<1>2. SettingsOf(storedButtonSettings[c]) \in ButtonSettings
  BY <1>1, DefaultIsSettings DEF SettingsOf
<1>3. ASSUME ~StoreFails(c) PROVE SettingsAt(c) \in ButtonSettings
  <2>1. CASE StoreFirst(c)
    <3>1. ~Malformed(saved[c])
      BY <1>3, <2>1 DEF StoreFails, StoreThrows
    <3>2. SettingsAt(c) = SettingsFrom(saved[c])
      BY <2>1, <3>1 DEF SettingsAt, PressedSettings, NewSettings
    <3> QED  BY <1>1, <3>1, <3>2, PayloadAssumption
  <2>2. CASE ~StoreFirst(c)
    BY <1>1, <2>2 DEF SettingsAt, StoreFirst
  <2> QED  BY <2>1, <2>2
<1> QED  BY <1>2, <1>3

\* The types of everything but the fades, the timer, the calls and the notes.
RestOK ==
    /\ SettingsInv
    /\ mVisibleContexts \subseteq Contexts
    /\ mVisibleContextsMutex \in {"free", "held"}
    /\ deadlocked \in BOOLEAN
    /\ crashed \in BOOLEAN
    /\ saved \in [Contexts -> UNION {Payloads[c] : c \in Contexts}]
    /\ \A c \in Contexts : saved[c] \in Payloads[c]
    /\ keyState \in [Contexts -> {0, 1}]
    /\ held \subseteq Contexts
    /\ wire \in Bytes
    /\ overtaken \in BOOLEAN

LEMMA StoreTyped ==
    ASSUME TypeOK, NEW c \in Contexts, NEW p \in Payloads[c], StoreButtonSettings(c, p)
    PROVE  SettingsInv' /\ crashed' \in BOOLEAN
<1>1. storedButtonSettings' = [storedButtonSettings EXCEPT
                                ![c] = NewSettings(p, storedButtonSettings[c])]
  BY DEF StoreButtonSettings
<1>2. NewSettings(p, storedButtonSettings[c]) \in ButtonSettings \cup {NoEntry}
  BY SettingsStored DEF TypeOK
<1>3. crashed' \in BOOLEAN
  <2>1. CASE Malformed(p)
    BY <2>1 DEF StoreButtonSettings, StoreCrashes
  <2>2. CASE ~Malformed(p)
    <3>1. SettingsFrom(p).toggleFade \in BOOLEAN
      BY <2>2, PayloadAssumption DEF ButtonSettings
    <3> QED  BY <3>1 DEF StoreButtonSettings, StoreCrashes, NullStore
  <2> QED  BY <2>1, <2>2
<1> QED  BY <1>1, <1>2, <1>3 DEF SettingsInv, TypeOK

LEMMA NothingOnWire == <<>> \in Bytes
BY DEF Bytes

LEMMA SendTyped ==
    ASSUME TypeOK, NEW c \in Contexts, NEW s \in ButtonSettings, NEW messages \in Bytes,
           KeyDownSends(c, s, messages)
    PROVE  SettingsInv' /\ crashed' \in BOOLEAN /\ wire' \in Bytes
BY DEF KeyDownSends, SettingsInv, TypeOK

LEMMA KeyDownTyped ==
    ASSUME TypeOK, NEW c \in Contexts, KeyDown(c)
    PROVE  RestOK'
<1> DEFINE Goal == SettingsInv' /\ crashed' \in BOOLEAN /\ wire' \in Bytes
           s == SettingsAt(c)
<1>1. saved[c] \in Payloads[c]
  BY DEF TypeOK
<1>2. KeyIsPressed(c)
  BY DEF KeyDown, KeyDownUnstored, KeyDownNoteOn, KeyDownCC, KeyDownCCFade,
         KeyDownProgramChange, KeyDownMMC, KeyDownNoteToggle, KeyDownCCToggle,
         KeyDownCCToggleFade
<1> SUFFICES Goal
  BY <1>2 DEF KeyIsPressed, RestOK, TypeOK
<1>3. ASSUME ~StoreFails(c) PROVE s \in ButtonSettings
  BY <1>3, SettingsAtHand
<1> HIDE DEF s
<1>v. ASSUME ~StoreFails(c) PROVE s.dataByte2 \in Int /\ s.dataByte2Alt \in Int
  BY <1>v, <1>3 DEF ButtonSettings
<1>m. ASSUME ~StoreFails(c), NEW v \in Int
      PROVE  Message(s, v) \in Seq(0..255) /\ <<Message(s, v)>> \in Bytes
  BY <1>m, <1>3, MessageIsBytes
<1>b. ASSUME ~StoreFails(c)
      PROVE  /\ <<Byte(s.statusByte), Byte(s.dataByte1)>> \in Seq(0..255)
             /\ <<240, 127, 127, 6, Byte(s.dataByte5), 247>> \in Seq(0..255)
  <2> s \in ButtonSettings /\ 0 \in Int
    BY <1>b, <1>3
  <2> QED  BY MessageIsBytes
<1>4. CASE KeyDownUnstored(c)
  BY <1>1, <1>4, StoreTyped, NothingOnWire DEF KeyDownUnstored
<1>5. CASE KeyDownNoteOn(c)
  <2>1. ~StoreFails(c)
    BY <1>5 DEF KeyDownNoteOn
  <2> DEFINE m == Message(s, s.dataByte2)
             n == Message(s, 0)
             sent == IF s.noteOffMode = 1 THEN <<m, n>> ELSE <<m>>
  <2>2. m \in Seq(0..255)
    BY <1>v, <1>m, <2>1
  <2>n. n \in Seq(0..255)
    <3> 0 \in Int
      OBVIOUS
    <3> QED  BY <1>m, <2>1
  <2> HIDE DEF m, n
  <2>3. sent \in Bytes
    <3>1. <<m, n>> \in Bytes /\ <<m>> \in Bytes
      BY <2>2, <2>n DEF Bytes
    <3> QED  BY <3>1
  <2>4. KeyDownSends(c, s, sent)
    BY <1>5 DEF KeyDownNoteOn, m, n, s
  <2> HIDE DEF sent
  <2> QED  BY <1>3, <2>1, <2>3, <2>4, SendTyped
<1>6. CASE KeyDownCC(c)
  <2> DEFINE sent == IF s.ccMode \in {0, 1} THEN <<Message(s, s.dataByte2)>> ELSE <<>>
  <2>1. ~StoreFails(c) /\ KeyDownSends(c, s, sent)
    BY <1>6 DEF KeyDownCC, s
  <2>2. sent \in Bytes
    BY <1>v, <1>m, <2>1, NothingOnWire
  <2> HIDE DEF sent
  <2> QED  BY <1>3, <2>1, <2>2, SendTyped
<1>7. CASE KeyDownProgramChange(c)
  <2> DEFINE m == <<Byte(s.statusByte), Byte(s.dataByte1)>>
  <2>1. ~StoreFails(c) /\ KeyDownSends(c, s, <<m>>)
    BY <1>7 DEF KeyDownProgramChange, s
  <2>2. m \in Seq(0..255)
    BY <1>b, <2>1
  <2> HIDE DEF m
  <2>3. <<m>> \in Bytes
    BY <2>2 DEF Bytes
  <2> QED  BY <1>3, <2>1, <2>3, SendTyped
<1>8. CASE KeyDownMMC(c)
  <2> DEFINE m == <<240, 127, 127, 6, Byte(s.dataByte5), 247>>
  <2>1. ~StoreFails(c) /\ KeyDownSends(c, s, <<m>>)
    BY <1>8 DEF KeyDownMMC, s
  <2>2. m \in Seq(0..255)
    BY <1>b, <2>1
  <2> HIDE DEF m
  <2>3. <<m>> \in Bytes
    BY <2>2 DEF Bytes
  <2> QED  BY <1>3, <2>1, <2>3, SendTyped
<1>9. ASSUME NEW st \in {0, 1}, KeyDownNoteToggle(c, st) PROVE Goal
  <2> DEFINE r == [s EXCEPT !.state = st]
             v == IF st = 0 THEN s.dataByte2 ELSE 0
  <2>1. ~StoreFails(c) /\ KeyDownSends(c, r, <<Message(s, v)>>)
    BY <1>9 DEF KeyDownNoteToggle, s
  <2>2. r \in ButtonSettings /\ v \in Int
    <3>1. v \in Int
      BY <1>v, <2>1
    <3>2. s \in ButtonSettings
      BY <1>3, <2>1
    <3>3. r \in ButtonSettings
      BY <3>2 DEF ButtonSettings
    <3> QED  BY <3>1, <3>3
  <2> HIDE DEF r, v
  <2> QED  BY <1>m, <2>1, <2>2, SendTyped
<1>10. ASSUME NEW st \in {0, 1}, KeyDownCCToggle(c, st) PROVE Goal
  <2> DEFINE r == [s EXCEPT !.state = st]
             v == IF st = 0 THEN s.dataByte2 ELSE s.dataByte2Alt
  <2>1. ~StoreFails(c) /\ KeyDownSends(c, r, <<Message(s, v)>>)
    BY <1>10 DEF KeyDownCCToggle, s
  <2>2. r \in ButtonSettings /\ v \in Int
    <3>1. v \in Int
      BY <1>v, <2>1
    <3>2. s \in ButtonSettings
      BY <1>3, <2>1
    <3>3. r \in ButtonSettings
      BY <3>2 DEF ButtonSettings
    <3> QED  BY <3>1, <3>3
  <2> HIDE DEF r, v
  <2> QED  BY <1>m, <2>1, <2>2, SendTyped
<1>11. ASSUME \/ KeyDownCCFade(c)
              \/ \E st \in {0, 1} : KeyDownCCToggleFade(c, st)
       PROVE  Goal
  <2>1. /\ ~StoreFails(c) /\ wire' = <<>> /\ UNCHANGED crashed
        /\ storedButtonSettings' = [storedButtonSettings EXCEPT ![c] = s]
    BY <1>11 DEF KeyDownCCFade, KeyDownCCToggleFade, KeyDownFades, s
  <2> QED  BY <1>3, <2>1, NothingOnWire DEF SettingsInv, TypeOK
<1>12. Goal
  BY <1>4, <1>5, <1>6, <1>7, <1>8, <1>9, <1>10, <1>11 DEF KeyDown
<1> QED  BY <1>12

LEMMA KeyUpTyped ==
    ASSUME TypeOK, NEW c \in Contexts, KeyUp(c)
    PROVE  RestOK'
<1> DEFINE s == SettingsOf(storedButtonSettings[c])
<1>1. s \in ButtonSettings
  BY SettingsAtHand
<1>2. KeyIsReleased(c)
  BY DEF KeyUp, KeyUpSends, KeyUpCCFade, KeyUpOther
<1> SUFFICES SettingsInv' /\ wire' \in Bytes
  BY <1>2 DEF KeyIsReleased, RestOK, TypeOK
<1>3. ReleaseMessages(ActionOf[c], s) \in Bytes
  <2> HIDE DEF s
  <2>1. s.dataByte2Alt \in Int /\ 0 \in Int
    BY <1>1 DEF ButtonSettings
  <2>2. <<Message(s, 0)>> \in Bytes /\ <<Message(s, s.dataByte2Alt)>> \in Bytes
    BY <1>1, <2>1, MessageIsBytes
  <2> QED  BY <2>2, NothingOnWire DEF ReleaseMessages
<1>4. CASE KeyUpSends(c) \/ KeyUpCCFade(c)
  <2>1. storedButtonSettings' = [storedButtonSettings EXCEPT ![c] = s]
    BY <1>4 DEF KeyUpSends, KeyUpCCFade, KeyUpReadsSettings
  <2>2. wire' \in Bytes
    BY <1>3, <1>4, NothingOnWire DEF KeyUpSends, KeyUpCCFade
  <2> HIDE DEF s
  <2> QED  BY <1>1, <2>1, <2>2 DEF SettingsInv, TypeOK
<1>5. CASE KeyUpOther(c)
  BY <1>5, NothingOnWire DEF KeyUpOther, SettingsInv, TypeOK
<1> QED  BY <1>4, <1>5 DEF KeyUp

LEMMA TimerTyped ==
    ASSUME TypeOK, FadeInv, UpdateTimer
    PROVE  RestOK'
<1>1. CASE TimerStart \/ TimerOk
  <2>1. UNCHANGED <<plugin, environment, strayRead, overtaken>> /\ wire' = <<>>
    BY <1>1 DEF TimerStart, TimerOk
  <2> QED  BY <2>1, NothingOnWire DEF plugin, environment, RestOK, SettingsInv, TypeOK
<1>2. CASE TimerUpdate
  <2>1. timer.it \in Contexts
    BY DEF TypeOK
  <2> QED  BY <1>2, <2>1, NothingOnWire DEF TimerUpdate, environment, RestOK, SettingsInv, TypeOK
<1>3. CASE TimerClear
  BY <1>3, NothingOnWire DEF TimerClear, environment, RestOK, SettingsInv, TypeOK
<1>4. CASE TimerSend
  <2> DEFINE it == timer.it
             s == SettingsOf(storedButtonSettings[it])
             v == storedFadeSettings[it].currentValue
  <2>1. it \in Contexts /\ s \in ButtonSettings
    BY SettingsAtHand DEF TypeOK
  <2>2. v \in Int
    <3>1. timer.pc # "idle"
      BY <1>4 DEF TimerSend, TimerIs
    <3>2. storedFadeSettings[it] \in FadeSets
      BY <2>1, <3>1 DEF FadeInv, TimerAtFade, HasFade
    <3> QED  BY <3>2 DEF FadeSets
  <2>3. /\ wire' = <<Message(s, v)>>
        /\ storedButtonSettings' = [storedButtonSettings EXCEPT ![it] = s]
    BY <1>4 DEF TimerSend
  <2> HIDE DEF s, v, it
  <2>4. wire' \in Bytes
    BY <2>1, <2>2, <2>3, MessageIsBytes
  <2>5. SettingsInv'
    BY <2>1, <2>3 DEF SettingsInv, TypeOK
  <2> QED  BY <1>4, <2>4, <2>5 DEF TimerSend, environment, RestOK, TypeOK
<1> QED  BY <1>1, <1>2, <1>3, <1>4 DEF UpdateTimer

LEMMA StepTyped ==
    ASSUME TypeOK, FadeInv, Step
    PROVE  RestOK'
<1>1. CASE LockVisibleContexts
  BY <1>1, NothingOnWire DEF LockVisibleContexts, environment, RestOK, SettingsInv, TypeOK
<1>2. ASSUME NEW c \in Contexts, WillAppear(c) PROVE RestOK'
  <2>1. SettingsInv' /\ crashed' \in BOOLEAN
    BY <1>2, StoreTyped DEF WillAppear, TypeOK
  <2> QED  BY <1>2, <2>1, NothingOnWire DEF WillAppear, environment, RestOK, TypeOK
<1>3. ASSUME NEW c \in Contexts, WillDisappear(c) PROVE RestOK'
  BY <1>3, NothingOnWire DEF WillDisappear, environment, RestOK, SettingsInv, TypeOK
<1>c. ASSUME NEW c \in Contexts, HandlerStep(c) PROVE RestOK'
  <2>1. PICK f, first : Goes(c, f, first)
    BY <1>c DEF HandlerStep, ReverseFade, FadeButtonPressed, WriteFade
  <2> QED  BY <2>1, NothingOnWire DEF Goes, environment, RestOK, SettingsInv, TypeOK
<1>4. ASSUME NEW c \in Contexts, NEW p \in Payloads[c], DidReceiveSettings(c, p)
      PROVE  RestOK'
  <2>1. SettingsInv' /\ crashed' \in BOOLEAN
    BY <1>4, StoreTyped DEF DidReceiveSettings
  <2>2. /\ saved' \in [Contexts -> UNION {Payloads[d] : d \in Contexts}]
        /\ \A d \in Contexts : saved'[d] \in Payloads[d]
    BY <1>4 DEF DidReceiveSettings, TypeOK
  <2> QED  BY <1>4, <2>1, <2>2, NothingOnWire DEF DidReceiveSettings, RestOK, TypeOK
<1> QED
  BY <1>1, <1>2, <1>3, <1>4, <1>c, KeyDownTyped, KeyUpTyped, TimerTyped DEF Step

LEMMA NoteOfMessage ==
    ASSUME NEW S, NEW m \in Seq(S), Len(m) = 3, m[1] \in NoteOns
    PROVE  <<m[1], m[2]>> \in (144..159) \X S
<1>1. 2 \in 1..Len(m)
  OBVIOUS
<1>2. m[2] \in S
  BY <1>1, ElementOfSeq
<1> QED  BY <1>2 DEF NoteOns

\* The receiver only ever hears notes of a channel.
LEMMA HeardTyped ==
    ASSUME NEW notes, notes \subseteq (144..159) \X (0..255), NEW messages \in Bytes
    PROVE  Heard(notes, messages) \subseteq (144..159) \X (0..255)
<1>1. ASSUME NEW i \in DOMAIN messages, Len(messages[i]) = 3, messages[i][1] \in NoteOns
      PROVE  <<messages[i][1], messages[i][2]>> \in (144..159) \X (0..255)
  <2> DEFINE B == 0..255
             m == messages[i]
  <2>1. m \in Seq(B) /\ Len(m) = 3 /\ m[1] \in NoteOns
    BY <1>1 DEF Bytes
  <2> HIDE DEF B, m
  <2>2. <<m[1], m[2]>> \in (144..159) \X B
    BY <2>1, NoteOfMessage
  <2> QED  BY <2>2 DEF B, m
<1> QED  BY <1>1 DEF Heard

LEMMA MoveOfMessage ==
    ASSUME NEW S, NEW m \in Seq(S), Len(m) = 3, m[1] \in ControlChanges
    PROVE  <<m[1], m[2], m[3]>> \in (176..191) \X S \X S
<1>1. 2 \in 1..Len(m) /\ 3 \in 1..Len(m)
  OBVIOUS
<1>2. m[2] \in S /\ m[3] \in S
  BY <1>1, ElementOfSeq
<1> QED  BY <1>2 DEF ControlChanges

\* The receiver only ever moves controllers of a channel.
LEMMA TurnedTyped ==
    ASSUME NEW positions, positions \subseteq (176..191) \X (0..255) \X (0..255),
           NEW messages \in Bytes
    PROVE  Turned(positions, messages) \subseteq (176..191) \X (0..255) \X (0..255)
<1>1. ASSUME NEW i \in DOMAIN messages, Len(messages[i]) = 3, messages[i][1] \in ControlChanges
      PROVE  <<messages[i][1], messages[i][2], messages[i][3]>>
                 \in (176..191) \X (0..255) \X (0..255)
  <2> DEFINE B == 0..255
             m == messages[i]
  <2>1. m \in Seq(B) /\ Len(m) = 3 /\ m[1] \in ControlChanges
    BY <1>1 DEF Bytes
  <2> HIDE DEF B, m
  <2>2. <<m[1], m[2], m[3]>> \in (176..191) \X B \X B
    BY <2>1, MoveOfMessage
  <2> QED  BY <2>2 DEF B, m
<1> QED  BY <1>1 DEF Turned

-----------------------------------------------------------------------------

\* What the receiver of the messages can be made to hold.
ReceiverOK ==
    /\ sounding \subseteq (144..159) \X (0..255)
    /\ controllers \subseteq (176..191) \X (0..255) \X (0..255)

LEMMA InvParts == ButtonInv <=> /\ RestOK /\ FadeInv /\ CallsAtFades
                                /\ ReceiverOK
<1>1. CallsAtFades => handler \in Seq([at : Contexts, call : Calls])
  <2>1. [at : Fading, call : Calls] \subseteq [at : Contexts, call : Calls]
    BY DEF Fading
  <2> QED  BY <2>1, SeqMonotonic DEF CallsAtFades
<1> QED  BY <1>1 DEF ButtonInv, TypeOK, RestOK, ReceiverOK, FadeInv, SettingsInv, Bytes

\* Every step of the plugin preserves the invariant.
THEOREM ButtonInvariant == Spec => []ButtonInv
<1>1. Init => ButtonInv
  <2> SUFFICES ASSUME Init PROVE ButtonInv
    OBVIOUS
  <2>1. TypeOK
    BY PayloadAssumption, NothingOnWire, EmptySeq DEF Init, TypeOK, Bytes
  <2>2. FadesGood /\ TimerAtFade
    BY DEF Init, FadesGood, TimerAtFade, GoodEntry
  <2>3. CallsAtFades
    BY EmptySeq DEF Init, CallsAtFades
  <2> QED  BY <2>1, <2>2, <2>3 DEF ButtonInv
<1>2. ButtonInv /\ [Next]_vars => ButtonInv'
  <2> SUFFICES ASSUME ButtonInv, [Next]_vars PROVE ButtonInv'
    OBVIOUS
  <2>1. TypeOK /\ FadeInv /\ CallsAtFades
    BY InvParts DEF ButtonInv
  <2>2. RestOK' /\ FadeInv' /\ CallsAtFades' /\ ReceiverOK'
    <3>1. CASE Next
      <4>1. RestOK' /\ FadeInv' /\ CallsAtFades'
        BY <2>1, <3>1, StepTyped, StepKeepsFades, StepKeepsCalls DEF Next, FadesKept
      <4>2. sounding' = Heard(sounding, wire') /\ controllers' = Turned(controllers, wire')
        BY <3>1 DEF Next, Arrives
      <4>3. /\ sounding \subseteq (144..159) \X (0..255)
            /\ controllers \subseteq (176..191) \X (0..255) \X (0..255)
            /\ wire' \in Bytes
        BY <2>1, <4>1 DEF TypeOK, RestOK
      <4> QED  BY <4>1, <4>2, <4>3, HeardTyped, TurnedTyped DEF ReceiverOK
    <3>2. CASE UNCHANGED vars
      BY <2>1, <3>2, InvParts DEF vars, plugin, environment, RestOK, ReceiverOK, SettingsInv, FadeInv,
         FadesGood, TimerAtFade, HasFade, GoodEntry, CallsAtFades, Fading
    <3> QED  BY <3>1, <3>2
  <2>3. handler' \in Seq([at : Contexts, call : Calls])
    <3>1. [at : Fading', call : Calls] \subseteq [at : Contexts, call : Calls]
      BY DEF Fading
    <3> QED  BY <2>2, <3>1, SeqMonotonic DEF CallsAtFades
  <2> QED  BY <2>2, <2>3 DEF ButtonInv, TypeOK, RestOK, ReceiverOK, FadeInv, SettingsInv, Bytes
<1> QED  BY <1>1, <1>2, PTL DEF Spec

\* Whatever the handlers and the timer thread do to the maps, the mutex and the
\* messages, in any order, every value keeps its type; a message is made of bytes.
THEOREM TypeCorrect == Spec => []TypeOK
<1>1. ButtonInv => TypeOK
  BY DEF ButtonInv
<1> QED  BY <1>1, ButtonInvariant, PTL

\* UpdateFade compares currentIndex with the ends of the table for equality; no
\* order of key presses, settings and ticks takes it past either of them.
THEOREM IndexSafe == Spec => []IndexInBounds
<1>1. ButtonInv => IndexInBounds
  BY DEF ButtonInv, FadesGood, GoodEntry, GoodFade, IndexInTable, IndexInBounds, Fading
<1> QED  BY <1>1, ButtonInvariant, PTL

\* As long as UpdateFade reads entries of its tables only, the value of every fade
\* stays between the two values of the button, for every fade curve.
THEOREM RangeSafe == Spec => []ValueInRange
<1>1. ButtonInv => ValueInRange
  BY DEF ButtonInv, FadesGood, GoodEntry, GoodFade, InRange, ValueInRange, Fading
<1> QED  BY <1>1, ButtonInvariant, PTL

=============================================================================
