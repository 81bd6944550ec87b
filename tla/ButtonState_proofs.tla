-------------------------- MODULE ButtonState_proofs --------------------------
(***************************************************************************)
(* The fade that the plugin keeps for a button agrees with the settings it *)
(* is configured with, for any number of buttons and any settings.         *)
(***************************************************************************)
EXTENDS StreamDeckMidiButton_proofs

-----------------------------------------------------------------------------
(* The settings and the fade of a button *)

\* Fade f is the one that settings s ask for, if they ask for one.
Matches(s, f) ==
    s # NoEntry /\ s.toggleFade /\ s.fadeTime > 0 =>
        /\ f # NoEntry
        /\ f.fromValue = s.dataByte2 /\ f.toValue = s.dataByte2Alt
        /\ f.setSize = SetSize(s.fadeTime) /\ f.fadeCurve = s.fadeCurve

FadesMatch == \A c \in Contexts : Matches(storedButtonSettings[c], storedFadeSettings[c])

\* g is fade f at another point of its table.
SameTable(f, g) ==
    /\ g # NoEntry
    /\ g.fromValue = f.fromValue /\ g.toValue = f.toValue
    /\ g.setSize = f.setSize /\ g.fadeCurve = f.fadeCurve

\* A positive fade time gives a table, of which only the store beyond an empty
\* one can stop the making.
LEMMA PositiveTime ==
    ASSUME NEW time \in Int, time > 0
    PROVE  ~LengthError(time)
BY DEF LengthError, SetSize

LEMMA StoreMatches ==
    ASSUME NEW c \in Contexts, NEW p \in Payloads[c], NEW d \in DirectionValues,
           NEW s, NEW f, Matches(s, f), ~StoreCrashes(p)
    PROVE  Matches(NewSettings(p, s), NewFade(p, f, d))
<1>1. CASE Malformed(p)
  BY <1>1 DEF NewSettings, NewFade, StoreThrows
<1>2. CASE ~Malformed(p)
  <2> DEFINE r == SettingsFrom(p)
  <2>1. r \in ButtonSettings /\ NewSettings(p, s) = r
    BY <1>2, PayloadAssumption DEF NewSettings
  <2> SUFFICES ASSUME r.toggleFade, r.fadeTime > 0
               PROVE  Matches(r, NewFade(p, f, d))
    BY <2>1 DEF Matches
  <2>2. ~LengthError(r.fadeTime)
    BY <2>1, PositiveTime, FadeAssumption DEF ButtonSettings
  <2>3. NewFade(p, f, d) = FadeFrom(r, d)
    BY <1>2, <2>2 DEF NewFade, StoreThrows
  <2> HIDE DEF r
  <2>4. FadeFrom(r, d) # NoEntry
    BY <2>1, <2>2, FadeMade, ButtonAssumption
  <2> QED  BY <2>1, <2>2, <2>3, <2>4, FadeMade DEF Matches
<1> QED  BY <1>1, <1>2

\* Nothing but the storing of settings moves a fade to another table.
LEMMA MovesInTable ==
    ASSUME NEW s, NEW f, NEW g, Matches(s, f), f # NoEntry => SameTable(f, g)
    PROVE  Matches(s, g)
BY DEF Matches, SameTable

LEMMA PressedInTable ==
    ASSUME NEW f \in FadeSets, NEW st \in {0, 1}, NEW active \in BOOLEAN
    PROVE  /\ SameTable(f, SetActive(f, active)) /\ SameTable(f, ToggleFade(f, st))
           /\ SameTable(f, SetReverse(f)) /\ SameTable(f, ReverseFromEnd(f))
           /\ SameTable(f, [f EXCEPT !.fadeFinished = ~@])
<1>1. ASSUME NEW g \in FadeSets PROVE g # NoEntry
  BY ButtonAssumption
<1>2. /\ SetActive(f, active) \in FadeSets /\ SetReverse(f) \in FadeSets
      /\ [f EXCEPT !.fadeFinished = ~@] \in FadeSets
  BY DEF SetActive, SetReverse, FadeSets
<1>3. ToggleFade(f, st) \in FadeSets
  BY DEF ToggleFade, FadeSets, DirectionValues, Directions
<1>4. ReverseFromEnd(f) \in FadeSets
  BY DEF ReverseFromEnd, FadeSets, TableSizes
<1> QED  BY <1>1, <1>2, <1>3, <1>4
         DEF SameTable, SetActive, SetReverse, ToggleFade, ReverseFromEnd, FadeSets

LEMMA UpdatedInTable ==
    ASSUME NEW f \in FadeSets, NEW g \in Int
    PROVE  SameTable(f, UpdateFade(f, g))
<1>1. UpdateFade(f, g) # NoEntry
  BY UpdateFadePreserves, ButtonAssumption
<1>2. /\ UpdateFade(f, g).fromValue = f.fromValue /\ UpdateFade(f, g).toValue = f.toValue
      /\ UpdateFade(f, g).setSize = f.setSize /\ UpdateFade(f, g).fadeCurve = f.fadeCurve
  BY DEF UpdateFade, Finish, Advance, ResetPrevValue, SetPrevValue, FadeSets
<1> QED  BY <1>1, <1>2 DEF SameTable

\* Inserting the default settings and recording a state ask for no other fade.
LEMMA AsksForSame ==
    ASSUME NEW s \in ButtonSettings \cup {NoEntry}, NEW f, Matches(s, f), NEW st
    PROVE  /\ Matches(SettingsOf(s), f)
           /\ s # NoEntry => Matches([s EXCEPT !.state = st], f)
           /\ s = NoEntry => \A g : Matches(s, g)
<1>1. ButtonSettings = [statusByte : Int, dataByte1 : Int, dataByte2 : Int, dataByte2Alt : Int,
         dataByte5 : Int, noteOffMode : Int, state : {0, 1}, ccMode : Int,
         toggleFade : BOOLEAN, fadeTime : FadeTimes, fadeCurve : FadeCurves]
  BY DEF ButtonSettings
<1> QED  BY <1>1 DEF Matches, SettingsOf, DefaultSettings

\* A fade that was inserted by operator[] is not asked for.
LEMMA InsertedMatches ==
    ASSUME NEW s, NEW f, NEW d \in DirectionValues, Matches(s, f)
    PROVE  Matches(s, FadeOf(f, d))
BY DEF Matches, FadeOf

-----------------------------------------------------------------------------
(* The steps *)

\* One button has new entries.
LEMMA OneEntryMatches ==
    ASSUME TypeOK, FadesMatch, NEW c \in Contexts, NEW s, NEW f, Matches(s, f),
           storedButtonSettings' = [storedButtonSettings EXCEPT ![c] = s],
           storedFadeSettings' = [storedFadeSettings EXCEPT ![c] = f]
    PROVE  FadesMatch'
BY DEF FadesMatch, TypeOK, Matches

LEMMA StoreKeepsMatch ==
    ASSUME TypeOK, FadesMatch, NEW c \in Contexts, NEW p \in Payloads[c],
           StoreButtonSettings(c, p)
    PROVE  crashed' \/ FadesMatch'
<1>1. PICK d \in DirectionValues :
        storedFadeSettings' =
            [storedFadeSettings EXCEPT ![c] = NewFade(p, storedFadeSettings[c], d)]
  BY DEF StoreButtonSettings
<1>2. storedButtonSettings' =
        [storedButtonSettings EXCEPT ![c] = NewSettings(p, storedButtonSettings[c])]
  BY DEF StoreButtonSettings
<1>3. ASSUME ~StoreCrashes(p) PROVE FadesMatch'
  <2>1. Matches(NewSettings(p, storedButtonSettings[c]), NewFade(p, storedFadeSettings[c], d))
    BY <1>3, StoreMatches DEF FadesMatch
  <2> QED  BY <1>1, <1>2, <2>1, OneEntryMatches
<1> QED  BY <1>3 DEF StoreButtonSettings

\* The entries a key press works on match.
LEMMA EntriesAtPress ==
    ASSUME TypeOK, FadesMatch, NEW c \in Contexts, ~StoreFails(c), NEW d \in DirectionValues
    PROVE  Matches(SettingsAt(c), FadeAt(c, d))
<1>1. saved[c] \in Payloads[c] /\ Matches(storedButtonSettings[c], storedFadeSettings[c])
  BY DEF TypeOK, FadesMatch
<1>2. CASE StoreFirst(c)
  BY <1>1, <1>2, StoreMatches DEF StoreFails, SettingsAt, FadeAt, PressedSettings, PressedFade
<1>3. CASE ~StoreFirst(c)
  BY <1>1, <1>3 DEF SettingsAt, FadeAt
<1> QED  BY <1>2, <1>3

LEMMA KeyDownKeepsMatch ==
    ASSUME TypeOK, FadeInv, FadesMatch, NEW c \in Contexts, KeyDown(c)
    PROVE  crashed' \/ FadesMatch'
<1> DEFINE s == SettingsAt(c)
<1>1. saved[c] \in Payloads[c]
  BY DEF TypeOK
<1>2. ASSUME ~StoreFails(c) PROVE s \in ButtonSettings /\ s # NoEntry
  BY <1>2, SettingsAtHand, ButtonAssumption
<1>3. ASSUME ~StoreFails(c), NEW d \in DirectionValues PROVE Matches(s, FadeAt(c, d))
  BY <1>3, EntriesAtPress
<1>f. ASSUME NEW d \in DirectionValues PROVE FadeOf(FadeAt(c, d), d) \in FadeSets
  <2>1. GoodEntry(FadeAt(c, d), strayRead) /\ strayRead \in BOOLEAN
    BY <1>1, FadeAtGood DEF FadeInv
  <2> QED  BY <2>1, FadeRead DEF GoodFade
<1> HIDE DEF s
<1>4. ASSUME ~StoreFails(c), NEW messages, KeyDownSends(c, s, messages) PROVE FadesMatch'
  BY <1>3, <1>4, OneEntryMatches DEF KeyDownSends
<1>5. ASSUME ~StoreFails(c), NEW st, NEW messages,
             KeyDownSends(c, [s EXCEPT !.state = st], messages)
      PROVE  FadesMatch'
  <2>1. PICK d \in DirectionValues :
          storedFadeSettings' = [storedFadeSettings EXCEPT ![c] = FadeAt(c, d)]
    BY <1>5 DEF KeyDownSends
  <2>2. Matches([s EXCEPT !.state = st], FadeAt(c, d))
    BY <1>2, <1>3, <1>5, AsksForSame
  <2> QED  BY <1>5, <2>1, <2>2, OneEntryMatches DEF KeyDownSends
<1>6. CASE KeyDownUnstored(c)
  BY <1>1, <1>6, StoreKeepsMatch DEF KeyDownUnstored
<1>7. CASE KeyDownNoteOn(c) \/ KeyDownCC(c) \/ KeyDownProgramChange(c) \/ KeyDownMMC(c)
  BY <1>4, <1>7 DEF KeyDownNoteOn, KeyDownCC, KeyDownProgramChange, KeyDownMMC, s
<1>8. ASSUME NEW st \in {0, 1}, KeyDownNoteToggle(c, st) \/ KeyDownCCToggle(c, st)
      PROVE  FadesMatch'
  BY <1>5, <1>8 DEF KeyDownNoteToggle, KeyDownCCToggle, s
<1>9. ASSUME ~StoreFails(c), NEW d \in DirectionValues, NEW g, NEW calls,
             SameTable(FadeOf(FadeAt(c, d), d), g), KeyDownFades(c, g, calls)
      PROVE  FadesMatch'
  <2>1. Matches(s, FadeOf(FadeAt(c, d), d))
    BY <1>3, <1>9, InsertedMatches
  <2>2. Matches(s, g)
    BY <1>9, <2>1, MovesInTable
  <2> QED  BY <1>9, <2>2, OneEntryMatches DEF KeyDownFades, s
<1>10. CASE KeyDownCCFade(c)
  <2>1. PICK d \in DirectionValues :
          KeyDownFades(c, FadeOf(FadeAt(c, d), d), ToDo(c, "FadeButtonPressed"))
    BY <1>10 DEF KeyDownCCFade
  <2>2. SameTable(FadeOf(FadeAt(c, d), d), FadeOf(FadeAt(c, d), d))
    BY <1>f, ButtonAssumption DEF SameTable
  <2> QED  BY <1>9, <1>10, <2>1, <2>2 DEF KeyDownCCFade
<1>11. ASSUME NEW st \in {0, 1}, KeyDownCCToggleFade(c, st) PROVE FadesMatch'
  <2>1. PICK d \in DirectionValues :
          KeyDownFades(c, ToggleFade(FadeOf(FadeAt(c, d), d), st),
                       TogglePresses(c, FadeOf(FadeAt(c, d), d)))
    BY <1>11 DEF KeyDownCCToggleFade
  <2>2. SameTable(FadeOf(FadeAt(c, d), d), ToggleFade(FadeOf(FadeAt(c, d), d), st))
    BY <1>f, PressedInTable
  <2> QED  BY <1>9, <1>11, <2>1, <2>2 DEF KeyDownCCToggleFade
<1> QED  BY <1>6, <1>7, <1>8, <1>10, <1>11 DEF KeyDown

LEMMA KeyUpKeepsMatch ==
    ASSUME TypeOK, FadeInv, FadesMatch, NEW c \in Contexts, KeyUp(c)
    PROVE  FadesMatch'
<1> DEFINE s == storedButtonSettings[c]
           f == storedFadeSettings[c]
<1>1. /\ s \in ButtonSettings \cup {NoEntry} /\ Matches(s, f)
      /\ strayRead \in BOOLEAN /\ GoodEntry(f, strayRead)
  BY DEF TypeOK, FadesMatch, FadeInv, FadesGood
<1>2. Matches(SettingsOf(s), f)
  BY <1>1, AsksForSame
<1>3. CASE KeyUpSends(c)
  BY <1>2, <1>3 DEF KeyUpSends, KeyUpReadsSettings, FadesMatch, TypeOK, Matches
<1>4. CASE KeyUpCCFade(c)
  <2>1. PICK d \in DirectionValues :
          storedFadeSettings' = [storedFadeSettings EXCEPT ![c] = SetActive(FadeOf(f, d), TRUE)]
    BY <1>4 DEF KeyUpCCFade
  <2>2. FadeOf(f, d) \in FadeSets
    BY <1>1, FadeRead DEF GoodFade
  <2>3. Matches(SettingsOf(s), FadeOf(f, d))
    BY <1>2, InsertedMatches
  <2>4. SameTable(FadeOf(f, d), SetActive(FadeOf(f, d), TRUE))
    BY <2>2, PressedInTable
  <2>5. Matches(SettingsOf(s), SetActive(FadeOf(f, d), TRUE))
    BY <2>3, <2>4, MovesInTable
  <2> QED  BY <1>4, <2>1, <2>5, OneEntryMatches DEF KeyUpCCFade, KeyUpReadsSettings
<1>5. CASE KeyUpOther(c)
  BY <1>5 DEF KeyUpOther, FadesMatch, Matches
<1> QED  BY <1>3, <1>4, <1>5 DEF KeyUp

\* A fade moves in its table, the settings stay.
LEMMA OneMoveMatches ==
    ASSUME TypeOK, FadesMatch, NEW c \in Contexts, NEW g,
           storedFadeSettings[c] # NoEntry => SameTable(storedFadeSettings[c], g),
           UNCHANGED storedButtonSettings,
           storedFadeSettings' = [storedFadeSettings EXCEPT ![c] = g]
    PROVE  FadesMatch'
<1>1. Matches(storedButtonSettings[c], g)
  BY MovesInTable DEF FadesMatch
<1> QED  BY <1>1 DEF FadesMatch, TypeOK, Matches

LEMMA CallKeepsMatch ==
    ASSUME TypeOK, FadeInv, CallsAtFades, FadesMatch, NEW c \in Contexts, HandlerStep(c)
    PROVE  FadesMatch'
<1> DEFINE f == storedFadeSettings[c]
<1>1. f \in FadeSets
  BY CallAtFade DEF GoodFade, HandlerStep, ReverseFade, FadeButtonPressed, WriteFade
<1>2. SameTable(f, f)
  BY <1>1, ButtonAssumption DEF SameTable
<1>3. /\ SameTable(f, SetActive(f, TRUE)) /\ SameTable(f, SetActive(f, FALSE))
      /\ SameTable(f, SetReverse(f)) /\ SameTable(f, ReverseFromEnd(f))
  BY <1>1, PressedInTable
<1>4. ASSUME NEW g, NEW first, Goes(c, g, first), SameTable(f, g) PROVE FadesMatch'
  BY <1>4, OneMoveMatches DEF Goes
<1> HIDE DEF f
<1>5. CASE ReverseFade(c)
  BY <1>2, <1>3, <1>4, <1>5 DEF ReverseFade, f
<1>6. CASE FadeButtonPressed(c)
  BY <1>2, <1>4, <1>6 DEF FadeButtonPressed, f
<1>7. CASE WriteFade(c)
  BY <1>3, <1>4, <1>7 DEF WriteFade, f
<1> QED  BY <1>5, <1>6, <1>7 DEF HandlerStep

LEMMA TimerKeepsMatch ==
    ASSUME TypeOK, FadeInv, FadesMatch, UpdateTimer
    PROVE  FadesMatch'
<1> DEFINE it == timer.it
           f == storedFadeSettings[it]
<1>1. it \in Contexts
  BY DEF TypeOK
<1>2. timer.pc # "idle" => f \in FadeSets
  BY <1>1 DEF FadeInv, TimerAtFade, HasFade
<1>3. CASE TimerStart \/ TimerOk
  BY <1>3 DEF TimerStart, TimerOk, plugin, FadesMatch, Matches
<1>4. CASE TimerUpdate
  <2>1. PICK g \in Garbage :
          storedFadeSettings' = [storedFadeSettings EXCEPT ![it] = UpdateFade(f, g)]
    BY <1>4 DEF TimerUpdate
  <2>2. SameTable(f, UpdateFade(f, g))
    BY <1>2, <1>4, UpdatedInTable, ButtonAssumption DEF TimerUpdate, TimerIs
  <2> QED  BY <1>1, <1>4, <2>1, <2>2, OneMoveMatches DEF TimerUpdate
<1>5. CASE TimerSend
  <2>1. Matches(SettingsOf(storedButtonSettings[it]), f)
    BY <1>1, AsksForSame DEF TypeOK, FadesMatch
  <2> QED  BY <1>1, <1>5, <2>1 DEF TimerSend, FadesMatch, TypeOK, Matches
<1>6. CASE TimerClear
  <2>1. SameTable(f, [f EXCEPT !.fadeFinished = ~@])
    BY <1>2, <1>6, PressedInTable DEF TimerClear, TimerIs
  <2>2. storedFadeSettings' = [storedFadeSettings EXCEPT ![it] = [f EXCEPT !.fadeFinished = ~@]]
    BY <1>6 DEF TimerClear
  <2> QED  BY <1>1, <1>6, <2>1, <2>2, OneMoveMatches DEF TimerClear
<1> QED  BY <1>3, <1>4, <1>5, <1>6 DEF UpdateTimer

\* Once the process has crashed nothing happens any more.
LEMMA NothingAfterCrash == ASSUME Step PROVE ~crashed
<1>1. ASSUME NEW c \in Contexts, KeyDown(c) \/ KeyUp(c) PROVE ~crashed
  BY <1>1 DEF KeyDown, KeyDownUnstored, KeyDownNoteOn, KeyDownCC, KeyDownCCFade,
         KeyDownProgramChange, KeyDownMMC, KeyDownNoteToggle, KeyDownCCToggle,
         KeyDownCCToggleFade, KeyIsPressed, KeyUp, KeyUpSends, KeyUpCCFade, KeyUpOther,
         KeyIsReleased, Listening
<1>2. ASSUME NEW c \in Contexts, HandlerStep(c) PROVE ~crashed
  BY <1>2 DEF HandlerStep, ReverseFade, FadeButtonPressed, WriteFade, Calling
<1>3. ASSUME UpdateTimer PROVE ~crashed
  BY <1>3 DEF UpdateTimer, TimerStart, TimerUpdate, TimerSend, TimerOk, TimerClear, TimerIs
<1> QED  BY <1>1, <1>2, <1>3 DEF Step, LockVisibleContexts, WillAppear, WillDisappear,
                                 DidReceiveSettings, Listening

LEMMA StepKeepsMatch ==
    ASSUME TypeOK, FadeInv, CallsAtFades, crashed \/ FadesMatch, Step
    PROVE  crashed' \/ FadesMatch'
<1>1. FadesMatch
  BY NothingAfterCrash
<1>2. CASE LockVisibleContexts
  BY <1>1, <1>2 DEF LockVisibleContexts, FadesMatch, Matches
<1>3. ASSUME NEW c \in Contexts, WillAppear(c) PROVE crashed' \/ FadesMatch'
  BY <1>1, <1>3, StoreKeepsMatch DEF WillAppear, TypeOK
<1>4. ASSUME NEW c \in Contexts, WillDisappear(c) PROVE FadesMatch'
  BY <1>1, <1>4 DEF WillDisappear, FadesMatch, Matches
<1>5. ASSUME NEW c \in Contexts, NEW p \in Payloads[c], DidReceiveSettings(c, p)
      PROVE  crashed' \/ FadesMatch'
  BY <1>1, <1>5, StoreKeepsMatch DEF DidReceiveSettings
<1> QED
  BY <1>1, <1>2, <1>3, <1>4, <1>5, KeyDownKeepsMatch, KeyUpKeepsMatch, CallKeepsMatch,
     TimerKeepsMatch DEF Step

\* The settings and the fade of a button are stored by different functions, some
\* of which throw half way, and inserted by others that only meant to read; a button
\* that is set to fade always has the fade it is set to.
THEOREM FadesConfigured == Spec => []FadeIsConfigured
<1>1. Init => crashed \/ FadesMatch
  BY DEF Init, FadesMatch, Matches
<1>2. ButtonInv /\ (crashed \/ FadesMatch) /\ [Next]_vars => (crashed \/ FadesMatch)'
  <2> SUFFICES ASSUME ButtonInv, crashed \/ FadesMatch, [Next]_vars
               PROVE  crashed' \/ FadesMatch'
    OBVIOUS
  <2>1. TypeOK /\ FadeInv /\ CallsAtFades
    BY InvParts DEF ButtonInv
  <2>2. CASE Next
    BY <2>1, <2>2, StepKeepsMatch DEF Next
  <2>3. CASE UNCHANGED vars
    BY <2>3 DEF vars, plugin, FadesMatch, Matches
  <2> QED  BY <2>2, <2>3
<1>3. (crashed \/ FadesMatch) => FadeIsConfigured
  BY DEF FadesMatch, Matches, FadeIsConfigured, Stored, HasFade
<1> QED  BY <1>1, <1>2, <1>3, ButtonInvariant, PTL DEF Spec

=============================================================================
