--------------------------- MODULE ButtonKeys_proofs ---------------------------
(***************************************************************************)
(* What the keys do to the fades, the notes and the controllers, for any   *)
(* number of buttons, any settings and any look-up tables: a fade is       *)
(* turned and resumed only the way its button asks for, whenever the timer *)
(* thread comes between the steps of a handler; a button ends the note it  *)
(* has started; and a controller is where the fade that moves it is.       *)
(*                                                                         *)
(* Every step of the plugin is first seen from one button c: what it does  *)
(* to the settings, the fade, the key and the task of c (AtButton).  The   *)
(* invariants then need one case for each of these, and not one for each   *)
(* action of each button.                                                  *)
(***************************************************************************)
EXTENDS ButtonState_proofs

-----------------------------------------------------------------------------
(* The task of a handler *)

\* The call the handler makes next on the fade of button c, if any.
Task(c) == IF Settled(c) THEN "None" ELSE Head(handler).call

\* A handler has one call to make; a press of a toggle in a multi-action can have two.
HandlerShape ==
    handler # <<>> => \E c \in Contexts : \E call \in Calls :
        \/ handler = ToDo(c, call)
        \/ /\ c \in InMultiAction /\ ActionOf[c] = "CC_TOGGLE"
           /\ handler = ToDo(c, call) \o ToDo(c, "FadeButtonPressed")

LEMMA ShortSequences ==
    ASSUME NEW x, NEW y
    PROVE  /\ <<x>> # <<>> /\ Head(<<x>>) = x /\ Tail(<<x>>) = <<>>
           /\ <<>> \o <<>> = <<>> /\ <<x>> \o <<>> = <<x>> /\ <<>> \o <<y>> = <<y>>
           /\ <<x>> \o <<y>> # <<>> /\ Head(<<x>> \o <<y>>) = x /\ Tail(<<x>> \o <<y>>) = <<y>>
<1> DEFINE S == {x, y}
           p == <<x>>
           q == <<y>>
           r == p \o q
<1>1. /\ p # <<>> /\ Head(p) = x /\ Tail(p) = <<>>
      /\ <<>> \o <<>> = <<>> /\ p \o <<>> = p /\ <<>> \o q = q
      /\ r # <<>> /\ Head(r) = x
  OBVIOUS
<1>2. p \in Seq(S) /\ q \in Seq(S) /\ Len(p) = 1 /\ Len(q) = 1 /\ q[1] = y
  OBVIOUS
<1> HIDE DEF S, p, q
<1>3. r \in Seq(S) /\ Len(r) = 2 /\ r[2] = y
  BY <1>2, ConcatProperties
<1> HIDE DEF r
<1>4. Tail(r) \in Seq(S) /\ Len(Tail(r)) = 1 /\ Tail(r)[1] = y
  <2>1. /\ Tail(r) \in Seq(S) /\ Len(Tail(r)) = Len(r) - 1
        /\ \A i \in 1 .. Len(Tail(r)) : Tail(r)[i] = r[i + 1]
    BY <1>1, <1>3, HeadTailProperties
  <2> DEFINE t == Tail(r)
  <2> HIDE DEF t
  <2>2. /\ t \in Seq(S) /\ Len(t) = Len(r) - 1
        /\ \A i \in 1 .. Len(t) : t[i] = r[i + 1]
    BY <2>1 DEF t
  <2>3. t \in Seq(S) /\ Len(t) = 1 /\ t[1] = y
    BY <1>3, <2>2
  <2> QED  BY <2>3 DEF t
<1> DEFINE t == Tail(r)
<1> HIDE DEF t
<1>5. t \in Seq(S) /\ Len(t) = 1 /\ t[1] = y
  BY <1>4 DEF t
<1>6. \A i \in 1 .. Len(t) : t[i] = q[i]
  BY <1>2, <1>5
<1>7. t = q
  BY <1>2, <1>5, <1>6, SeqEqual
<1> QED  BY <1>1, <1>7 DEF p, q, r, t

\* What is left to do after the next call.
LEMMA RestOfHandler ==
    ASSUME HandlerShape, NEW c \in Contexts, NEW call, Calling(c, call)
    PROVE  /\ call \in Calls
           /\ \/ Tail(handler) = <<>>
              \/ /\ c \in InMultiAction /\ ActionOf[c] = "CC_TOGGLE"
                 /\ Tail(handler) = ToDo(c, "FadeButtonPressed")
<1>1. handler # <<>> /\ Head(handler) = [at |-> c, call |-> call]
  BY DEF Calling
<1>2. PICK d \in Contexts, k \in Calls :
        \/ handler = ToDo(d, k)
        \/ /\ d \in InMultiAction /\ ActionOf[d] = "CC_TOGGLE"
           /\ handler = ToDo(d, k) \o ToDo(d, "FadeButtonPressed")
  BY <1>1 DEF HandlerShape
<1>3. Head(handler) = [at |-> d, call |-> k]
  BY <1>2, ShortSequences DEF ToDo
<1> DEFINE x == [at |-> c, call |-> call]
           y == [at |-> d, call |-> k]
<1>4. c = d /\ call = k
  <2>1. x = y
    BY <1>1, <1>3
  <2>2. x.at = c /\ x.call = call /\ y.at = d /\ y.call = k
    OBVIOUS
  <2> HIDE DEF x, y
  <2> QED  BY <2>1, <2>2
<1> HIDE DEF x, y
<1>5. /\ Tail(ToDo(c, call)) = <<>>
      /\ Tail(ToDo(c, call) \o ToDo(c, "FadeButtonPressed")) = ToDo(c, "FadeButtonPressed")
  BY ShortSequences DEF ToDo
<1> QED  BY <1>2, <1>4, <1>5

-----------------------------------------------------------------------------
(* A step, seen from one button *)

AsksFade(s) == s.toggleFade /\ s.fadeTime > 0

\* A fade that has just been made.
Fresh(f) ==
    /\ f \in FadeSets
    /\ ~f.fadeActive /\ ~f.reverseFade /\ f.currentIndex = 0 /\ f.currentValue = 0
    /\ f.inPrevValue = f.fromValue - 1 /\ f.outPrevValue = f.toValue + 1

\* s and f are the entries of button c, or what settings make of them.
Renewed(c, s, f) ==
    \/ s = storedButtonSettings[c] /\ f = storedFadeSettings[c]
    \/ /\ s # NoEntry /\ s \in ConfiguredFor[c]
       /\ f = storedFadeSettings[c] \/ Fresh(f)
       /\ AsksFade(s) => Fresh(f)

Entries(c, s, f) == storedButtonSettings'[c] = s /\ storedFadeSettings'[c] = f
KeyStays(c) == (c \in held' <=> c \in held) /\ keyState'[c] = keyState[c]
KeyGoesDown(c) == c \notin held /\ c \in held' /\ keyState'[c] = keyState[c]
KeyGoesUp(c) ==
    /\ c \in held /\ c \notin held'
    /\ keyState'[c] = IF ActionOf[c] \in Toggles /\ c \notin InMultiAction THEN 1 - keyState[c]
                      ELSE keyState[c]

\* Nothing but the report of the end of its fade, or the insertion of default settings.
LeftAlone(c) ==
    /\ KeyStays(c) /\ Task(c)' = Task(c)
    /\ \E s \in {storedButtonSettings[c], SettingsOf(storedButtonSettings[c])} :
           \/ Entries(c, s, storedFadeSettings[c])
           \/ /\ storedFadeSettings[c] \in FadeSets
              /\ Entries(c, s, [storedFadeSettings[c] EXCEPT !.fadeFinished = ~@])

\* Settings are stored, or could not be stored at a press.
Configured(c) ==
    /\ Task(c) = "None" /\ Task(c)' = "None"
    /\ KeyStays(c) \/ storedButtonSettings[c] = NoEntry
    /\ \E s, f : Renewed(c, s, f) /\ Entries(c, s, f)

PressSends(c) ==
    /\ Task(c) = "None" /\ Task(c)' = "None" /\ KeyGoesDown(c)
    /\ \E s, f : /\ Renewed(c, s, f) /\ s \in ButtonSettings
                 /\ ActionOf[c] = "CC" => s.ccMode \notin FadeModes
                 /\ ActionOf[c] = "CC_TOGGLE" => ~s.toggleFade
                 /\ Entries(c, s, f) \/ \E st \in {0, 1} : Entries(c, [s EXCEPT !.state = st], f)

PressFades(c) ==
    /\ Task(c) = "None" /\ KeyGoesDown(c)
    /\ \E s, f : \E d \in DirectionValues :
           /\ Renewed(c, s, f) /\ s \in ButtonSettings /\ FadeOf(f, d) \in FadeSets
           /\ ActionOf[c] = "CC" /\ s.ccMode \in FadeModes
           /\ Entries(c, s, FadeOf(f, d))
           /\ Task(c)' = "FadeButtonPressed"

PressToggles(c) ==
    /\ Task(c) = "None" /\ KeyGoesDown(c)
    /\ \E s, f : \E d \in DirectionValues : \E st \in {0, 1} :
           /\ Renewed(c, s, f) /\ s \in ButtonSettings /\ FadeOf(f, d) \in FadeSets
           /\ ActionOf[c] = "CC_TOGGLE" /\ s.toggleFade /\ ActsOn(c, st)
           /\ Entries(c, s, ToggleFade(FadeOf(f, d), st))
           /\ Task(c)' = IF FadeOf(f, d).fadeActive \/ c \in InMultiAction
                         THEN "FadeButtonPressed" ELSE "None"

ReleaseSends(c) ==
    /\ Task(c) = "None" /\ Task(c)' = "None" /\ KeyGoesUp(c)
    /\ \E s \in {storedButtonSettings[c], SettingsOf(storedButtonSettings[c])} :
           /\ ActionOf[c] = "CC" => s.ccMode \notin FadeModes
           /\ Entries(c, s, storedFadeSettings[c])

ReleaseFades(c) ==
    /\ Task(c) = "None" /\ KeyGoesUp(c) /\ ActionOf[c] = "CC"
    /\ \E d \in DirectionValues :
           LET f == FadeOf(storedFadeSettings[c], d)
           IN  /\ f \in FadeSets
               /\ Entries(c, SettingsOf(storedButtonSettings[c]), SetActive(f, TRUE))
               /\ Task(c)' = IF f.fadeActive THEN "ReverseFade" ELSE "None"
    /\ SettingsOf(storedButtonSettings[c]).ccMode \in FadeModes

\* The handler has made its last call; in a multi-action it may press once more.
Done(c) ==
    \/ Task(c)' = "None"
    \/ c \in InMultiAction /\ ActionOf[c] = "CC_TOGGLE" /\ Task(c)' = "FadeButtonPressed"

CallGoes(c) ==
    LET f == storedFadeSettings[c]
        Leaves(g) == Entries(c, storedButtonSettings[c], g)
    IN  /\ KeyStays(c) /\ f \in FadeSets
        /\ \/ /\ Task(c) = "ReverseFade" /\ f.fadeActive
              /\ Leaves(f) /\ Task(c)' = "SetReverse"
           \/ /\ Task(c) = "ReverseFade" /\ ~f.fadeActive
              /\ Leaves(ReverseFromEnd(f)) /\ Done(c)
           \/ /\ Task(c) = "FadeButtonPressed" /\ Leaves(f)
              /\ Task(c)' = IF f.fadeActive THEN "Deactivate" ELSE "Activate"
           \/ Task(c) = "SetReverse" /\ Leaves(SetReverse(f)) /\ Done(c)
           \/ Task(c) = "Activate" /\ Leaves(SetActive(f, TRUE)) /\ Done(c)
           \/ Task(c) = "Deactivate" /\ Leaves(SetActive(f, FALSE)) /\ Done(c)

\* UpdateTimer is about to send the value of the button's fade.
AboutToSend(c) == timer.pc = "send" /\ timer.it = c

Ticks(c) ==
    LET f == storedFadeSettings[c]
    IN  /\ KeyStays(c) /\ Task(c)' = Task(c) /\ f \in FadeSets
        /\ \E g \in Garbage : /\ Entries(c, storedButtonSettings[c], UpdateFade(f, g))
                              /\ Updated(f, g) => AboutToSend(c)'
        /\ Running(f) /\ AtEnd(f) /\ Task(c) # "None" => overtaken'

AtButton(c) ==
    \/ LeftAlone(c) \/ Configured(c)
    \/ PressSends(c) \/ PressFades(c) \/ PressToggles(c)
    \/ ReleaseSends(c) \/ ReleaseFades(c)
    \/ CallGoes(c) \/ Ticks(c)

-----------------------------------------------------------------------------
(* Every step is one of these *)

LEMMA FreshMade ==
    ASSUME NEW s \in ButtonSettings, NEW d \in DirectionValues, ~LengthError(s.fadeTime)
    PROVE  Fresh(FadeFrom(s, d))
<1> DEFINE f == FadeFrom(s, d)
           dir == CASE s.ccMode = 2 -> "IN" [] s.ccMode = 3 -> "OUT" [] OTHER -> d
<1>1. f \in FadeSets
  BY FadeMade
<1>2. f = NewFadeSet(s.dataByte2, s.dataByte2Alt, s.fadeTime, s.fadeCurve, dir)
  BY DEF FadeFrom
<1> HIDE DEF f, dir
<1>3. f = [fadeActive |-> FALSE, fadeFinished |-> FALSE, currentValue |-> 0,
           currentDirection |-> dir, setSize |-> SetSize(s.fadeTime),
           fromValue |-> s.dataByte2, toValue |-> s.dataByte2Alt, fadeCurve |-> s.fadeCurve,
           currentIndex |-> 0, inPrevValue |-> s.dataByte2 - 1,
           outPrevValue |-> s.dataByte2Alt + 1, reverseFade |-> FALSE]
  BY <1>2 DEF NewFadeSet, DefaultFadeSet
<1>4. Fresh(f)
  BY <1>1, <1>3 DEF Fresh
<1> QED  BY <1>4 DEF f

LEMMA NewIsRenewed ==
    ASSUME NEW c \in Contexts, NEW p \in Payloads[c], NEW d \in DirectionValues,
           ~StoreCrashes(p)
    PROVE  Renewed(c, NewSettings(p, storedButtonSettings[c]),
                   NewFade(p, storedFadeSettings[c], d))
<1> DEFINE f == storedFadeSettings[c]
           r == SettingsFrom(p)
<1>1. CASE Malformed(p)
  BY <1>1 DEF NewSettings, NewFade, StoreThrows, Renewed
<1>2. CASE ~Malformed(p)
  <2>1. r \in ButtonSettings /\ NewSettings(p, storedButtonSettings[c]) = r
    BY <1>2, PayloadAssumption DEF NewSettings
  <2>2. ~LengthError(r.fadeTime) => Fresh(FadeFrom(r, d))
    BY <2>1, FreshMade
  <2>3. r.fadeTime > 0 => ~LengthError(r.fadeTime)
    BY <2>1, PositiveTime, FadeAssumption DEF ButtonSettings
  <2>4. NewFade(p, f, d) = IF LengthError(r.fadeTime) \/ ~r.toggleFade THEN f
                           ELSE FadeFrom(r, d)
    BY <1>2, <2>1 DEF NewFade, StoreThrows, ButtonSettings
  <2>5. r # NoEntry /\ r \in ConfiguredFor[c]
    BY <1>2, <2>1, ButtonAssumption DEF ConfiguredFor
  <2> HIDE DEF r, f
  <2>6. NewFade(p, f, d) = f \/ Fresh(NewFade(p, f, d))
    BY <2>2, <2>4
  <2>7. AsksFade(r) => Fresh(NewFade(p, f, d))
    BY <2>2, <2>3, <2>4 DEF AsksFade
  <2> QED  BY <2>1, <2>5, <2>6, <2>7 DEF Renewed, f
<1> QED  BY <1>1, <1>2

LEMMA PressRenews ==
    ASSUME TypeOK, NEW c \in Contexts, ~StoreFails(c), NEW d \in DirectionValues
    PROVE  /\ Renewed(c, SettingsAt(c), FadeAt(c, d))
           /\ SettingsAt(c) \in ButtonSettings
<1>1. saved[c] \in Payloads[c]
  BY DEF TypeOK
<1>2. CASE StoreFirst(c)
  BY <1>1, <1>2, NewIsRenewed, SettingsAtHand
     DEF StoreFails, SettingsAt, FadeAt, PressedSettings, PressedFade
<1>3. CASE ~StoreFirst(c)
  BY <1>3, SettingsAtHand DEF SettingsAt, FadeAt, Renewed
<1> QED  BY <1>2, <1>3

\* A step that is about another button.
LEMMA Elsewhere ==
    ASSUME NEW c \in Contexts, KeyStays(c),
           storedButtonSettings'[c] = storedButtonSettings[c],
           storedFadeSettings'[c] = storedFadeSettings[c],
           handler = <<>> \/ Head(handler).at # c, handler' = <<>> \/ Head(handler').at # c
    PROVE  AtButton(c)
<1>1. Task(c) = "None" /\ Task(c)' = "None"
  BY DEF Task, Settled
<1> QED  BY <1>1 DEF AtButton, LeftAlone, Entries

\* A handler that has something to do is at work on one button.
LEMMA AtWorkOn ==
    ASSUME NEW c, NEW call
    PROVE  ToDo(c, call) # <<>> /\ Head(ToDo(c, call)) = [at |-> c, call |-> call]
BY ShortSequences DEF ToDo

LEMMA TaskToDo ==
    ASSUME NEW c, NEW call, handler' = ToDo(c, call)
    PROVE  Task(c)' = call /\ handler' # <<>> /\ Head(handler').at = c
BY AtWorkOn DEF Task, Settled

LEMMA NoTask ==
    ASSUME NEW c
    PROVE  /\ handler = <<>> => Task(c) = "None"
           /\ handler' = <<>> => Task(c)' = "None"
BY DEF Task, Settled

LEMMA StoreAtButton ==
    ASSUME TypeOK, NEW b \in Contexts, NEW p \in Payloads[b], StoreButtonSettings(b, p),
           ~crashed', handler = <<>>, UNCHANGED <<handler, held, keyState>>,
           NEW c \in Contexts
    PROVE  AtButton(c)
<1>1. PICK d \in DirectionValues :
        /\ storedButtonSettings' = [storedButtonSettings EXCEPT
                                      ![b] = NewSettings(p, storedButtonSettings[b])]
        /\ storedFadeSettings' = [storedFadeSettings EXCEPT
                                      ![b] = NewFade(p, storedFadeSettings[b], d)]
        /\ ~StoreCrashes(p)
  BY DEF StoreButtonSettings
<1>2. KeyStays(c)
  BY DEF KeyStays
<1>3. CASE c # b
  BY <1>1, <1>2, <1>3, Elsewhere DEF TypeOK
<1>4. CASE c = b
  <2>1. Entries(c, NewSettings(p, storedButtonSettings[c]), NewFade(p, storedFadeSettings[c], d))
    BY <1>1, <1>4 DEF Entries, TypeOK
  <2>2. Renewed(c, NewSettings(p, storedButtonSettings[c]), NewFade(p, storedFadeSettings[c], d))
    BY <1>1, <1>4, NewIsRenewed
  <2> QED  BY <1>2, <2>1, <2>2, NoTask DEF AtButton, Configured
<1> QED  BY <1>3, <1>4

LEMMA KeyDownAtButton ==
    ASSUME TypeOK, FadeInv, NEW b \in Contexts, KeyDown(b), ~crashed', NEW c \in Contexts
    PROVE  AtButton(c)
<1> DEFINE s == SettingsAt(b)
<1>1. KeyIsPressed(b)
  BY DEF KeyDown, KeyDownUnstored, KeyDownNoteOn, KeyDownCC, KeyDownCCFade,
         KeyDownProgramChange, KeyDownMMC, KeyDownNoteToggle, KeyDownCCToggle,
         KeyDownCCToggleFade
<1>2. handler = <<>> /\ KeyGoesDown(b) /\ (c # b => KeyStays(c))
  BY <1>1 DEF KeyIsPressed, Listening, KeyGoesDown, KeyStays
<1>3. Task(b) = "None" /\ Task(c) = "None"
  BY <1>2, NoTask
<1>4. ASSUME NEW d \in DirectionValues, ~StoreFails(b)
      PROVE  Renewed(b, s, FadeAt(b, d)) /\ s \in ButtonSettings
  BY <1>4, PressRenews
<1>5. ASSUME NEW d \in DirectionValues PROVE FadeOf(FadeAt(b, d), d) \in FadeSets
  <2>1. GoodEntry(FadeAt(b, d), strayRead) /\ strayRead \in BOOLEAN
    BY FadeAtGood DEF FadeInv, TypeOK
  <2> QED  BY <2>1, FadeRead DEF GoodFade
<1> HIDE DEF s
<1>6. ASSUME c # b, NEW r, NEW f, NEW calls,
             storedButtonSettings' = [storedButtonSettings EXCEPT ![b] = r],
             storedFadeSettings' = [storedFadeSettings EXCEPT ![b] = f],
             handler' = <<>> \/ Head(handler').at = b
      PROVE  AtButton(c)
  BY <1>2, <1>6, Elsewhere DEF TypeOK
<1>7. CASE KeyDownUnstored(b)
  <2>1. PICK d \in DirectionValues :
          /\ storedButtonSettings' = [storedButtonSettings EXCEPT
                                        ![b] = NewSettings(saved[b], storedButtonSettings[b])]
          /\ storedFadeSettings' = [storedFadeSettings EXCEPT
                                        ![b] = NewFade(saved[b], storedFadeSettings[b], d)]
          /\ ~StoreCrashes(saved[b])
    BY <1>7 DEF KeyDownUnstored, StoreButtonSettings
  <2>2. handler' = <<>> /\ storedButtonSettings[b] = NoEntry
    BY <1>2, <1>7 DEF KeyDownUnstored, StoreFails, StoreFirst
  <2>3. CASE c = b
    <3>1. Entries(b, NewSettings(saved[b], storedButtonSettings[b]),
                  NewFade(saved[b], storedFadeSettings[b], d))
      BY <2>1 DEF Entries, TypeOK
    <3>2. Renewed(b, NewSettings(saved[b], storedButtonSettings[b]),
                  NewFade(saved[b], storedFadeSettings[b], d))
      BY <2>1, NewIsRenewed DEF TypeOK
    <3> QED  BY <1>3, <2>2, <2>3, <3>1, <3>2, NoTask DEF AtButton, Configured
  <2> QED  BY <1>6, <2>1, <2>2, <2>3
<1>8. ASSUME ~StoreFails(b), NEW r, NEW messages, KeyDownSends(b, r, messages),
             r = s \/ \E st \in {0, 1} : r = [s EXCEPT !.state = st],
             ActionOf[b] = "CC" => s.ccMode \notin FadeModes,
             ActionOf[b] = "CC_TOGGLE" => ~s.toggleFade
      PROVE  AtButton(c)
  <2>1. PICK d \in DirectionValues :
          /\ storedButtonSettings' = [storedButtonSettings EXCEPT ![b] = r]
          /\ storedFadeSettings' = [storedFadeSettings EXCEPT ![b] = FadeAt(b, d)]
          /\ handler' = <<>>
    BY <1>2, <1>8 DEF KeyDownSends
  <2>2. CASE c = b
    <3>1. Entries(b, r, FadeAt(b, d))
      BY <2>1 DEF Entries, TypeOK
    <3>2. Renewed(b, s, FadeAt(b, d)) /\ s \in ButtonSettings
      BY <1>4, <1>8
    <3>3. PressSends(b)
      BY <1>2, <1>3, <1>8, <2>1, <3>1, <3>2, NoTask DEF PressSends
    <3> QED  BY <2>2, <3>3 DEF AtButton
  <2> QED  BY <1>6, <2>1, <2>2
<1>9. CASE KeyDownNoteOn(b) \/ KeyDownProgramChange(b) \/ KeyDownMMC(b)
  BY <1>8, <1>9 DEF KeyDownNoteOn, KeyDownProgramChange, KeyDownMMC, s
<1>10. CASE KeyDownCC(b)
  BY <1>8, <1>10 DEF KeyDownCC, FadeModes, s
<1>11. ASSUME NEW st \in {0, 1}, KeyDownNoteToggle(b, st) \/ KeyDownCCToggle(b, st)
       PROVE  AtButton(c)
  BY <1>8, <1>11 DEF KeyDownNoteToggle, KeyDownCCToggle, s
<1>12. CASE KeyDownCCFade(b)
  <2>1. PICK d \in DirectionValues :
          KeyDownFades(b, FadeOf(FadeAt(b, d), d), ToDo(b, "FadeButtonPressed"))
    BY <1>12 DEF KeyDownCCFade
  <2> DEFINE f == FadeOf(FadeAt(b, d), d)
  <2>2. /\ storedButtonSettings' = [storedButtonSettings EXCEPT ![b] = s]
        /\ storedFadeSettings' = [storedFadeSettings EXCEPT ![b] = f]
        /\ handler' = ToDo(b, "FadeButtonPressed")
        /\ ~StoreFails(b) /\ ActionOf[b] = "CC" /\ s.ccMode \in FadeModes
    BY <1>12, <2>1 DEF KeyDownFades, KeyDownCCFade, s
  <2>3. Task(b)' = "FadeButtonPressed" /\ handler' # <<>> /\ Head(handler').at = b
    BY <2>2, TaskToDo
  <2>4. CASE c = b
    <3>1. Entries(b, s, f)
      BY <2>2 DEF Entries, TypeOK
    <3>2. PressFades(b)
      BY <1>2, <1>3, <1>4, <1>5, <2>2, <2>3, <3>1 DEF PressFades
    <3> QED  BY <2>4, <3>2 DEF AtButton
  <2> QED  BY <1>6, <2>2, <2>3, <2>4
<1>13. ASSUME NEW st \in {0, 1}, KeyDownCCToggleFade(b, st) PROVE AtButton(c)
  <2>1. PICK d \in DirectionValues :
          KeyDownFades(b, ToggleFade(FadeOf(FadeAt(b, d), d), st),
                       TogglePresses(b, FadeOf(FadeAt(b, d), d)))
    BY <1>13 DEF KeyDownCCToggleFade
  <2> DEFINE f == FadeOf(FadeAt(b, d), d)
             g == ToggleFade(f, st)
  <2>2. /\ storedButtonSettings' = [storedButtonSettings EXCEPT ![b] = s]
        /\ storedFadeSettings' = [storedFadeSettings EXCEPT ![b] = g]
        /\ handler' = TogglePresses(b, f)
        /\ ~StoreFails(b) /\ ActionOf[b] = "CC_TOGGLE" /\ s.toggleFade /\ ActsOn(b, st)
    BY <1>13, <2>1 DEF KeyDownFades, KeyDownCCToggleFade, s
  <2>3. /\ Task(b)' = IF f.fadeActive \/ b \in InMultiAction
                      THEN "FadeButtonPressed" ELSE "None"
        /\ handler' = <<>> \/ Head(handler').at = b
    <3> DEFINE once == [at |-> b, call |-> "FadeButtonPressed"]
    <3>1. \/ /\ f.fadeActive \/ b \in InMultiAction
             /\ handler' = <<once>> \/ handler' = <<once>> \o <<once>>
          \/ ~(f.fadeActive \/ b \in InMultiAction) /\ handler' = <<>>
      BY <2>2, ShortSequences DEF TogglePresses, ToDo
    <3>2. ASSUME handler' = <<once>> \/ handler' = <<once>> \o <<once>>
          PROVE  Task(b)' = "FadeButtonPressed" /\ Head(handler').at = b
      <4>1. handler' # <<>> /\ Head(handler') = once
        BY <3>2, ShortSequences
      <4> QED  BY <4>1 DEF Task, Settled
    <3> HIDE DEF once, f
    <3> QED  BY <3>1, <3>2, NoTask
  <2>4. CASE c = b
    <3>1. Entries(b, s, g)
      BY <2>2 DEF Entries, TypeOK
    <3>2. PressToggles(b)
      BY <1>2, <1>3, <1>4, <1>5, <2>2, <2>3, <3>1 DEF PressToggles
    <3> QED  BY <2>4, <3>2 DEF AtButton
  <2> QED  BY <1>6, <2>2, <2>3, <2>4
<1> QED  BY <1>7, <1>9, <1>10, <1>11, <1>12, <1>13 DEF KeyDown

LEMMA KeyUpAtButton ==
    ASSUME TypeOK, FadeInv, NEW b \in Contexts, KeyUp(b), NEW c \in Contexts
    PROVE  AtButton(c)
<1> DEFINE s == storedButtonSettings[b]
           f == storedFadeSettings[b]
<1>1. KeyIsReleased(b)
  BY DEF KeyUp, KeyUpSends, KeyUpCCFade, KeyUpOther
<1>2. handler = <<>> /\ KeyGoesUp(b) /\ (c # b => KeyStays(c))
  BY <1>1 DEF KeyIsReleased, Listening, KeyGoesUp, KeyStays, TypeOK
<1>3. Task(b) = "None" /\ Task(c) = "None"
  BY <1>2, NoTask
<1>4. ASSUME NEW r \in {s, SettingsOf(s)}, ActionOf[b] = "CC" => r.ccMode \notin FadeModes,
             storedButtonSettings' = [storedButtonSettings EXCEPT ![b] = r],
             UNCHANGED <<storedFadeSettings, handler>>
      PROVE  AtButton(c)
  <2>1. CASE c = b
    <3>1. Entries(b, r, f)
      BY <1>4 DEF Entries, TypeOK
    <3>2. ReleaseSends(b)
      BY <1>2, <1>3, <1>4, <3>1, NoTask DEF ReleaseSends
    <3> QED  BY <2>1, <3>2 DEF AtButton
  <2>2. CASE c # b
    BY <1>2, <1>4, <2>2, Elsewhere DEF TypeOK
  <2> QED  BY <2>1, <2>2
<1>5. CASE KeyUpSends(b)
  BY <1>4, <1>5 DEF KeyUpSends, KeyUpReadsSettings
<1>6. CASE KeyUpOther(b)
  <2>1. storedButtonSettings' = [storedButtonSettings EXCEPT ![b] = s]
    BY <1>6 DEF KeyUpOther, TypeOK
  <2> QED  BY <1>4, <1>6, <2>1 DEF KeyUpOther
<1>7. CASE KeyUpCCFade(b)
  <2>1. PICK d \in DirectionValues :
          /\ storedFadeSettings' = [storedFadeSettings EXCEPT ![b] = SetActive(FadeOf(f, d), TRUE)]
          /\ handler' = IF FadeOf(f, d).fadeActive THEN ToDo(b, "ReverseFade") ELSE <<>>
    BY <1>7 DEF KeyUpCCFade
  <2> DEFINE g == FadeOf(f, d)
  <2>2. g \in FadeSets
    <3>1. GoodEntry(f, strayRead) /\ strayRead \in BOOLEAN
      BY DEF FadeInv, FadesGood
    <3> QED  BY <3>1, FadeRead DEF GoodFade
  <2>3. /\ storedButtonSettings' = [storedButtonSettings EXCEPT ![b] = SettingsOf(s)]
        /\ ActionOf[b] = "CC" /\ SettingsOf(s).ccMode \in FadeModes
    BY <1>7 DEF KeyUpCCFade, KeyUpReadsSettings
  <2>4. /\ Task(b)' = IF g.fadeActive THEN "ReverseFade" ELSE "None"
        /\ handler' = <<>> \/ Head(handler').at = b
    BY <2>1, NoTask, TaskToDo
  <2>5. CASE c = b
    <3>1. Entries(b, SettingsOf(s), SetActive(g, TRUE))
      BY <2>1, <2>3 DEF Entries, TypeOK
    <3>2. ReleaseFades(b)
      BY <1>2, <1>3, <2>2, <2>3, <2>4, <3>1 DEF ReleaseFades
    <3> QED  BY <2>5, <3>2 DEF AtButton
  <2>6. CASE c # b
    BY <1>2, <2>1, <2>3, <2>4, <2>6, Elsewhere DEF TypeOK
  <2> QED  BY <2>5, <2>6
<1> QED  BY <1>5, <1>6, <1>7 DEF KeyUp

LEMMA CallAtButton ==
    ASSUME TypeOK, FadeInv, CallsAtFades, HandlerShape, NEW b \in Contexts, HandlerStep(b),
           NEW c \in Contexts
    PROVE  AtButton(c)
<1> DEFINE f == storedFadeSettings[b]
<1>1. f \in FadeSets
  BY CallAtFade DEF GoodFade, HandlerStep, ReverseFade, FadeButtonPressed, WriteFade
<1>2. PICK call, g, first :
        /\ call \in Calls /\ Calling(b, call) /\ Goes(b, g, first)
        /\ \/ call = "ReverseFade" /\ f.fadeActive /\ g = f /\ first = ToDo(b, "SetReverse")
           \/ call = "ReverseFade" /\ ~f.fadeActive /\ g = ReverseFromEnd(f) /\ first = <<>>
           \/ /\ call = "FadeButtonPressed" /\ g = f
              /\ first = ToDo(b, IF f.fadeActive THEN "Deactivate" ELSE "Activate")
           \/ call = "SetReverse" /\ g = SetReverse(f) /\ first = <<>>
           \/ call = "Activate" /\ g = SetActive(f, TRUE) /\ first = <<>>
           \/ call = "Deactivate" /\ g = SetActive(f, FALSE) /\ first = <<>>
  <2>1. CASE ReverseFade(b)
    BY <2>1 DEF ReverseFade, Calls
  <2>2. CASE FadeButtonPressed(b)
    BY <2>2 DEF FadeButtonPressed, Calls
  <2>3. CASE WriteFade(b)
    BY <2>3 DEF WriteFade, Calls
  <2> QED  BY <2>1, <2>2, <2>3 DEF HandlerStep
<1> HIDE DEF f
<1>3. handler # <<>> /\ Head(handler) = [at |-> b, call |-> call]
  BY <1>2 DEF Calling
<1>4. Task(b) = call /\ Head(handler).at = b
  BY <1>3 DEF Task, Settled
<1>5. KeyStays(c) /\ KeyStays(b)
  BY <1>2 DEF Goes, environment, KeyStays
<1>6. /\ handler' = first \o Tail(handler)
      /\ storedFadeSettings' = [storedFadeSettings EXCEPT ![b] = g]
      /\ UNCHANGED storedButtonSettings
  BY <1>2 DEF Goes
<1>7. \/ Tail(handler) = <<>>
      \/ /\ b \in InMultiAction /\ ActionOf[b] = "CC_TOGGLE"
         /\ Tail(handler) = ToDo(b, "FadeButtonPressed")
  BY <1>2, RestOfHandler
<1>8. ASSUME NEW k, first = ToDo(b, k)
      PROVE  Task(b)' = k /\ handler' # <<>> /\ Head(handler').at = b
  <2>1. handler' # <<>> /\ Head(handler') = [at |-> b, call |-> k]
    BY <1>6, <1>7, <1>8, ShortSequences DEF ToDo
  <2> QED  BY <2>1 DEF Task, Settled
<1>9. ASSUME first = <<>>
      PROVE  Done(b) /\ (handler' = <<>> \/ Head(handler').at = b)
  <2>1. \/ handler' = <<>>
        \/ /\ b \in InMultiAction /\ ActionOf[b] = "CC_TOGGLE"
           /\ handler' = ToDo(b, "FadeButtonPressed")
    BY <1>6, <1>7, <1>9, ShortSequences DEF ToDo
  <2> QED  BY <2>1, NoTask, TaskToDo DEF Done
<1>10. CASE c = b
  <2>1. Entries(b, storedButtonSettings[b], g)
    BY <1>6 DEF Entries, TypeOK
  <2>2. CallGoes(b)
    BY <1>1, <1>2, <1>4, <1>5, <1>8, <1>9, <2>1 DEF CallGoes, f
  <2> QED  BY <1>10, <2>2 DEF AtButton
<1>11. CASE c # b
  <2>1. handler' = <<>> \/ Head(handler').at = b
    BY <1>2, <1>8, <1>9
  <2>2. storedFadeSettings'[c] = storedFadeSettings[c]
    BY <1>6, <1>11 DEF TypeOK
  <2> QED  BY <1>4, <1>5, <1>6, <1>11, <2>1, <2>2, Elsewhere
<1> QED  BY <1>10, <1>11

LEMMA TimerAtButton ==
    ASSUME TypeOK, FadeInv, UpdateTimer, NEW c \in Contexts
    PROVE  AtButton(c)
<1> DEFINE it == timer.it
           s == storedButtonSettings[c]
           f == storedFadeSettings[c]
<1>1. UNCHANGED <<handler, held, keyState>>
  BY DEF UpdateTimer, TimerStart, TimerUpdate, TimerSend, TimerOk, TimerClear, plugin, environment
<1>2. KeyStays(c) /\ Task(c)' = Task(c)
  BY <1>1 DEF KeyStays, Task, Settled
<1>3. it \in Contexts /\ (timer.pc # "idle" => storedFadeSettings[it] \in FadeSets)
  BY DEF FadeInv, TimerAtFade, HasFade
<1>4. ASSUME NEW r \in {s, SettingsOf(s)}, Entries(c, r, f) PROVE AtButton(c)
  BY <1>2, <1>4 DEF LeftAlone, AtButton
<1>5. CASE TimerStart \/ TimerOk
  BY <1>4, <1>5 DEF TimerStart, TimerOk, plugin, Entries
<1>6. CASE TimerUpdate
  <2>1. PICK g \in Garbage :
          /\ storedFadeSettings' = [storedFadeSettings EXCEPT ![it] = UpdateFade(storedFadeSettings[it], g)]
          /\ overtaken' = (overtaken \/ (Running(storedFadeSettings[it]) /\ AtEnd(storedFadeSettings[it])
                                           /\ ~Settled(it)))
          /\ timer' = [timer EXCEPT !.pc = IF Updated(storedFadeSettings[it], g) THEN "send" ELSE "ok"]
          /\ UNCHANGED storedButtonSettings
    BY <1>6 DEF TimerUpdate
  <2>2. CASE c = it
    <3>1. Entries(c, s, UpdateFade(f, g)) /\ f \in FadeSets
      BY <1>3, <1>6, <2>1, <2>2 DEF Entries, TypeOK, TimerUpdate, TimerIs
    <3>2. Running(f) /\ AtEnd(f) /\ Task(c) # "None" => overtaken'
      BY <2>1, <2>2 DEF Task
    <3>3. Updated(f, g) => AboutToSend(c)'
      BY <2>1, <2>2 DEF AboutToSend, TypeOK
    <3> QED  BY <1>2, <3>1, <3>2, <3>3 DEF Ticks, AtButton
  <2>3. CASE c # it
    <3>1. Entries(c, s, f)
      BY <2>1, <2>3 DEF Entries, TypeOK
    <3> QED  BY <1>4, <3>1
  <2> QED  BY <2>2, <2>3
<1>7. CASE TimerSend
  <2>1. \E r \in {s, SettingsOf(s)} : Entries(c, r, f)
    BY <1>7 DEF TimerSend, Entries, TypeOK
  <2> QED  BY <1>4, <2>1
<1>8. CASE TimerClear
  <2>1. /\ storedFadeSettings' = [storedFadeSettings EXCEPT
              ![it] = [storedFadeSettings[it] EXCEPT !.fadeFinished = ~@]]
        /\ UNCHANGED storedButtonSettings
    BY <1>8 DEF TimerClear
  <2>2. CASE c = it
    <3>1. Entries(c, s, [f EXCEPT !.fadeFinished = ~@]) /\ f \in FadeSets
      BY <1>3, <1>8, <2>1, <2>2 DEF Entries, TypeOK, TimerClear, TimerIs
    <3> QED  BY <1>2, <3>1 DEF LeftAlone, AtButton
  <2>3. CASE c # it
    <3>1. Entries(c, s, f)
      BY <2>1, <2>3 DEF Entries, TypeOK
    <3> QED  BY <1>4, <3>1
  <2> QED  BY <2>2, <2>3
<1> QED  BY <1>5, <1>6, <1>7, <1>8 DEF UpdateTimer

\* Whatever step the plugin takes, and at whichever button, this is what it is to
\* button c; and what has been overtaken stays so.
LEMMA StepAtButton ==
    ASSUME TypeOK, FadeInv, CallsAtFades, HandlerShape, Step, ~crashed', NEW c \in Contexts
    PROVE  AtButton(c) /\ (overtaken => overtaken')
<1>1. ASSUME LockVisibleContexts PROVE AtButton(c) /\ UNCHANGED overtaken
  <2>1. /\ UNCHANGED <<storedButtonSettings, storedFadeSettings, handler, held, keyState>>
        /\ handler = <<>>
    BY <1>1 DEF LockVisibleContexts, environment, Listening
  <2> QED  BY <1>1, <2>1, Elsewhere DEF KeyStays, LockVisibleContexts
<1>2. ASSUME NEW b \in Contexts, WillAppear(b) PROVE AtButton(c) /\ UNCHANGED overtaken
  BY <1>2, StoreAtButton DEF WillAppear, environment, Listening, TypeOK
<1>3. ASSUME NEW b \in Contexts, WillDisappear(b) PROVE AtButton(c) /\ UNCHANGED overtaken
  <2>1. /\ UNCHANGED <<storedButtonSettings, storedFadeSettings, handler, held, keyState>>
        /\ handler = <<>>
    BY <1>3 DEF WillDisappear, environment, Listening
  <2> QED  BY <1>3, <2>1, Elsewhere DEF KeyStays, WillDisappear
<1>4. ASSUME NEW b \in Contexts, NEW p \in Payloads[b], DidReceiveSettings(b, p)
      PROVE  AtButton(c) /\ UNCHANGED overtaken
  BY <1>4, StoreAtButton DEF DidReceiveSettings, Listening
<1>5. ASSUME NEW b \in Contexts, KeyDown(b) PROVE AtButton(c) /\ UNCHANGED overtaken
  BY <1>5, KeyDownAtButton
     DEF KeyDown, KeyDownUnstored, KeyDownNoteOn, KeyDownCC, KeyDownCCFade,
         KeyDownProgramChange, KeyDownMMC, KeyDownNoteToggle, KeyDownCCToggle,
         KeyDownCCToggleFade, KeyIsPressed
<1>6. ASSUME NEW b \in Contexts, KeyUp(b) PROVE AtButton(c) /\ UNCHANGED overtaken
  BY <1>6, KeyUpAtButton DEF KeyUp, KeyUpSends, KeyUpCCFade, KeyUpOther, KeyIsReleased
<1>7. ASSUME NEW b \in Contexts, HandlerStep(b) PROVE AtButton(c) /\ UNCHANGED overtaken
  BY <1>7, CallAtButton DEF HandlerStep, ReverseFade, FadeButtonPressed, WriteFade, Goes
<1>8. ASSUME UpdateTimer PROVE AtButton(c) /\ (overtaken => overtaken')
  <2>1. \/ UNCHANGED overtaken
        \/ \E ended \in BOOLEAN : overtaken' = (overtaken \/ ended)
    BY <1>8 DEF UpdateTimer, TimerStart, TimerUpdate, TimerSend, TimerOk, TimerClear
  <2>2. overtaken => overtaken'
    BY <2>1, Zenon
  <2> QED  BY <1>8, <2>2, TimerAtButton
<1>9. \/ AtButton(c) /\ UNCHANGED overtaken
      \/ AtButton(c) /\ (overtaken => overtaken')
  BY <1>1, <1>2, <1>3, <1>4, <1>5, <1>6, <1>7, <1>8 DEF Step
<1> QED  BY <1>9

LEMMA StepKeepsShape ==
    ASSUME HandlerShape, Step
    PROVE  HandlerShape'
<1>1. ASSUME UNCHANGED handler PROVE HandlerShape'
  BY <1>1 DEF HandlerShape
<1>2. ASSUME NEW c \in Contexts, NEW call \in Calls, handler' = ToDo(c, call)
      PROVE  HandlerShape'
  BY <1>2 DEF HandlerShape
<1>3. ASSUME handler' = <<>> PROVE HandlerShape'
  BY <1>3 DEF HandlerShape
<1>4. ASSUME NEW c \in Contexts, NEW st \in {0, 1}, KeyDownCCToggleFade(c, st)
      PROVE  HandlerShape'
  <2>1. PICK f : handler' = TogglePresses(c, f) /\ ActionOf[c] = "CC_TOGGLE"
    BY <1>4 DEF KeyDownCCToggleFade, KeyDownFades
  <2> DEFINE once == ToDo(c, "FadeButtonPressed")
  <2>2. \/ handler' = <<>> \/ handler' = once
        \/ c \in InMultiAction /\ handler' = once \o once
    BY <2>1, ShortSequences DEF TogglePresses, ToDo
  <2>3. "FadeButtonPressed" \in Calls
    BY DEF Calls
  <2> QED  BY <1>2, <1>3, <2>1, <2>2, <2>3 DEF HandlerShape
<1>5. ASSUME NEW c \in Contexts, KeyDown(c) PROVE HandlerShape'
  <2>1. \/ UNCHANGED handler \/ handler' = ToDo(c, "FadeButtonPressed")
        \/ \E st \in {0, 1} : KeyDownCCToggleFade(c, st)
    BY <1>5 DEF KeyDown, KeyDownUnstored, KeyDownNoteOn, KeyDownCC, KeyDownCCFade, KeyDownFades,
         KeyDownProgramChange, KeyDownMMC, KeyDownNoteToggle, KeyDownCCToggle, KeyDownSends
  <2> QED  BY <1>1, <1>2, <1>4, <2>1 DEF Calls
<1>6. ASSUME NEW c \in Contexts, KeyUp(c) PROVE HandlerShape'
  <2>1. UNCHANGED handler \/ handler' = <<>> \/ handler' = ToDo(c, "ReverseFade")
    BY <1>6 DEF KeyUp, KeyUpSends, KeyUpCCFade, KeyUpOther
  <2> QED  BY <1>1, <1>2, <1>3, <2>1 DEF Calls
<1>7. ASSUME NEW c \in Contexts, HandlerStep(c) PROVE HandlerShape'
  <2>1. PICK call, f, first :
          /\ Calling(c, call) /\ Goes(c, f, first)
          /\ \/ first = <<>>
             \/ \E k \in {"SetReverse", "Activate", "Deactivate"} :
                    /\ first = ToDo(c, k)
    BY <1>7 DEF HandlerStep, ReverseFade, FadeButtonPressed, WriteFade
  <2>2. \/ Tail(handler) = <<>>
        \/ /\ c \in InMultiAction /\ ActionOf[c] = "CC_TOGGLE"
           /\ Tail(handler) = ToDo(c, "FadeButtonPressed")
    BY <2>1, RestOfHandler
  <2>3. handler' = first \o Tail(handler)
    BY <2>1 DEF Goes
  <2>4. {"SetReverse", "Activate", "Deactivate", "FadeButtonPressed"} \subseteq Calls
    BY DEF Calls
  <2>5. CASE first = <<>>
    <3>1. handler' = <<>> \/ handler' = ToDo(c, "FadeButtonPressed")
      BY <2>2, <2>3, <2>5, ShortSequences DEF ToDo
    <3> QED  BY <1>2, <1>3, <2>4, <3>1
  <2>6. CASE \E k \in {"SetReverse", "Activate", "Deactivate"} : first = ToDo(c, k)
    <3>1. PICK k \in Calls : first = ToDo(c, k)
      BY <2>4, <2>6
    <3>2. \/ handler' = ToDo(c, k)
          \/ /\ c \in InMultiAction /\ ActionOf[c] = "CC_TOGGLE"
             /\ handler' = ToDo(c, k) \o ToDo(c, "FadeButtonPressed")
      BY <2>2, <2>3, <3>1, ShortSequences DEF ToDo
    <3> QED  BY <3>2 DEF HandlerShape
  <2> QED  BY <2>1, <2>5, <2>6
<1>8. ASSUME NEW c \in Contexts,
             \/ WillAppear(c) \/ WillDisappear(c)
             \/ \E p \in Payloads[c] : DidReceiveSettings(c, p)
      PROVE  UNCHANGED handler
  BY <1>8 DEF WillAppear, WillDisappear, DidReceiveSettings
<1>9. ASSUME LockVisibleContexts \/ UpdateTimer PROVE UNCHANGED handler
  BY <1>9 DEF LockVisibleContexts, UpdateTimer, TimerStart, TimerUpdate, TimerSend,
              TimerOk, TimerClear, plugin
<1> QED  BY <1>1, <1>5, <1>6, <1>7, <1>8, <1>9 DEF Step

-----------------------------------------------------------------------------
(* What the steps do to the fields of a fade *)

\* g is fade f at the same point of its table, in the same direction.
SamePlace(f, g) ==
    /\ g.currentDirection = f.currentDirection /\ g.currentIndex = f.currentIndex
    /\ g.currentValue = f.currentValue
    /\ g.inPrevValue = f.inPrevValue /\ g.outPrevValue = f.outPrevValue
    /\ g.fromValue = f.fromValue /\ g.toValue = f.toValue
    /\ g.setSize = f.setSize /\ g.fadeCurve = f.fadeCurve

LEMMA ActiveFields ==
    ASSUME NEW f \in FadeSets, NEW active \in BOOLEAN
    PROVE  /\ SetActive(f, active) \in FadeSets /\ SamePlace(f, SetActive(f, active))
           /\ SetActive(f, active).reverseFade = f.reverseFade
           /\ SetActive(f, active).fadeActive = active
BY DEF SetActive, SamePlace, FadeSets

LEMMA ReverseFields ==
    ASSUME NEW f \in FadeSets
    PROVE  /\ SetReverse(f) \in FadeSets /\ SamePlace(f, SetReverse(f))
           /\ SetReverse(f).reverseFade = TRUE /\ SetReverse(f).fadeActive = f.fadeActive
BY DEF SetReverse, SamePlace, FadeSets

\* The end of UpdateTimer takes back the report of the end of a fade, if at all.
Reported(f, g) ==
    \/ g = f
    \/ /\ f \in FadeSets /\ g \in FadeSets /\ SamePlace(f, g)
       /\ g.reverseFade = f.reverseFade /\ g.fadeActive = f.fadeActive

LEMMA ReportFields ==
    ASSUME NEW f \in FadeSets
    PROVE  Reported(f, [f EXCEPT !.fadeFinished = ~@])
BY DEF Reported, SamePlace, FadeSets

LEMMA TurnedFields ==
    ASSUME NEW f \in FadeSets
    PROVE  LET g == ReverseFromEnd(f) IN
           /\ g.reverseFade = TRUE /\ g.fadeActive = TRUE /\ g.currentValue = f.currentValue
           /\ g.currentDirection = f.currentDirection
           /\ g.inPrevValue = f.inPrevValue /\ g.outPrevValue = f.outPrevValue
           /\ g.fromValue = f.fromValue /\ g.toValue = f.toValue /\ g.setSize = f.setSize
BY DEF ReverseFromEnd, FadeSets

LEMMA ToggledFields ==
    ASSUME NEW f \in FadeSets, NEW st \in {0, 1}
    PROVE  LET g == ToggleFade(f, st) IN
           /\ g \in FadeSets /\ g.reverseFade = f.reverseFade /\ g.fadeActive = TRUE
           /\ f.fadeActive => g = f
           /\ ~f.fadeActive => SamePlace([f EXCEPT !.currentDirection = DirectionFor(st)], g)
BY DEF ToggleFade, SamePlace, FadeSets, DirectionFor, DirectionValues, Directions

\* A tick leaves the fade alone, finishes it or takes it one entry further.
TickEnds(f, h) ==
    /\ Running(f) /\ AtEnd(f)
    /\ ~h.fadeActive /\ ~h.reverseFade /\ h.currentIndex = 0
    /\ h.currentDirection = f.currentDirection
    /\ h.fromValue = f.fromValue /\ h.toValue = f.toValue /\ h.setSize = f.setSize
    /\ h.currentValue = (IF SilentEnd(f) THEN f.currentValue ELSE Arrival(f))
    /\ IF f.currentDirection = "IN"
       THEN h.inPrevValue = f.fromValue - 1 /\ h.outPrevValue = f.outPrevValue
       ELSE h.outPrevValue = f.toValue + 1 /\ h.inPrevValue = f.inPrevValue

TickMoves(f, g, h) ==
    /\ Running(f) /\ ~AtEnd(f)
    /\ h.fadeActive = f.fadeActive /\ h.reverseFade = f.reverseFade
    /\ h.currentIndex = (IF f.reverseFade THEN f.currentIndex - 1 ELSE f.currentIndex + 1)
    /\ h.currentDirection = f.currentDirection /\ h.fadeCurve = f.fadeCurve
    /\ h.fromValue = f.fromValue /\ h.toValue = f.toValue /\ h.setSize = f.setSize
    /\ h.currentValue = (IF PrevValue(f) # Sample(f, g) THEN Sample(f, g) ELSE f.currentValue)
    /\ IF f.currentDirection = "IN"
       THEN h.inPrevValue = Sample(f, g) /\ h.outPrevValue = f.outPrevValue
       ELSE h.outPrevValue = Sample(f, g) /\ h.inPrevValue = f.inPrevValue

LEMMA TickFields ==
    ASSUME NEW f \in FadeSets, NEW g \in Int
    PROVE  LET h == UpdateFade(f, g) IN
           /\ h \in FadeSets
           /\ (~Running(f) /\ h = f) \/ TickEnds(f, h) \/ TickMoves(f, g, h)
<1> DEFINE h == UpdateFade(f, g)
           v == Sample(f, g)
           dir == f.currentDirection
<1>1. h \in FadeSets
  BY UpdateFadePreserves
<1>2. CASE ~Running(f)
  BY <1>1, <1>2 DEF UpdateFade
<1>3. CASE Running(f) /\ AtEnd(f)
  <2>1. h = Finish(f)
    BY <1>3 DEF UpdateFade
  <2>2. TickEnds(f, Finish(f))
    BY <1>3 DEF TickEnds, Finish, ResetPrevValue, SetPrevValue, FadeSets
  <2> QED  BY <1>1, <2>1, <2>2
<1>4. CASE Running(f) /\ ~AtEnd(f)
  <2>1. h = Advance(f, v)
    BY <1>4 DEF UpdateFade
  <2> HIDE DEF v
  <2>2. TickMoves(f, g, Advance(f, v)) \/ v # Sample(f, g)
    BY <1>4 DEF TickMoves, Advance, SetPrevValue, FadeSets
  <2> QED  BY <1>1, <2>1, <2>2 DEF v
<1> QED  BY <1>2, <1>3, <1>4

-----------------------------------------------------------------------------
(* A toggle's fade is never turned back *)

NeverTurned(c) ==
    ActionOf[c] = "CC_TOGGLE" =>
        /\ Task(c) \in {"None", "FadeButtonPressed", "Activate", "Deactivate"}
        /\ HasFade(c) => ~storedFadeSettings[c].reverseFade

\* The entries of a button, as far as the fade is theirs.
LEMMA RenewedFade ==
    ASSUME TypeOK, NEW c \in Contexts, NEW s, NEW f, Renewed(c, s, f), f # NoEntry
    PROVE  /\ f \in FadeSets
           /\ (f = storedFadeSettings[c] /\ HasFade(c)) \/ Fresh(f)
BY DEF Renewed, Fresh, TypeOK, HasFade

LEMMA InsertedFade ==
    ASSUME NEW f, NEW d \in DirectionValues
    PROVE  /\ f # NoEntry => FadeOf(f, d) = f
           /\ f = NoEntry => LET g == FadeOf(f, d) IN
                 /\ ~g.fadeActive /\ ~g.reverseFade /\ g.currentIndex = 0
                 /\ g.setSize = 0
BY DEF FadeOf, DefaultFadeSet

LEMMA StepNeverTurns ==
    ASSUME TypeOK, NEW c \in Contexts, AtButton(c), NeverTurned(c)
    PROVE  NeverTurned(c)'
<1> DEFINE f == storedFadeSettings[c]
           h == storedFadeSettings'[c]
<1> SUFFICES ASSUME ActionOf[c] = "CC_TOGGLE"
             PROVE  /\ Task(c)' \in {"None", "FadeButtonPressed", "Activate", "Deactivate"}
                    /\ h # NoEntry => ~h.reverseFade
  BY DEF NeverTurned, HasFade
<1>1. /\ Task(c) \in {"None", "FadeButtonPressed", "Activate", "Deactivate"}
      /\ f # NoEntry => ~f.reverseFade
  BY DEF NeverTurned, HasFade
<1>2. CASE LeftAlone(c)
  <2>1. Reported(f, h)
    BY <1>2, ReportFields DEF LeftAlone, Entries, Reported
  <2>2. f \in FadeSets => f # NoEntry
    BY ButtonAssumption
  <2> QED  BY <1>1, <1>2, <2>1, <2>2 DEF LeftAlone, Reported
<1>3. CASE Configured(c) \/ PressSends(c)
  <2>1. PICK s, g : Renewed(c, s, g) /\ h = g /\ Task(c)' = "None"
    BY <1>3 DEF Configured, PressSends, Entries
  <2> QED  BY <1>1, <2>1, RenewedFade DEF Fresh
<1>4. CASE PressToggles(c)
  <2>0. PICK s, g : \E d \in DirectionValues : \E st \in {0, 1} :
          /\ Renewed(c, s, g) /\ FadeOf(g, d) \in FadeSets
          /\ h = ToggleFade(FadeOf(g, d), st)
          /\ Task(c)' = "None" \/ Task(c)' = "FadeButtonPressed"
    BY <1>4 DEF PressToggles, Entries
  <2>1. PICK d \in DirectionValues, st \in {0, 1} :
          /\ Renewed(c, s, g) /\ FadeOf(g, d) \in FadeSets
          /\ h = ToggleFade(FadeOf(g, d), st)
          /\ Task(c)' = "None" \/ Task(c)' = "FadeButtonPressed"
    BY <2>0
  <2>2. ~FadeOf(g, d).reverseFade
    BY <1>1, <2>1, RenewedFade, InsertedFade DEF Fresh
  <2>3. ~ToggleFade(FadeOf(g, d), st).reverseFade
    BY <2>1, <2>2, ToggledFields
  <2> QED  BY <2>1, <2>3
<1>5. CASE PressFades(c) \/ ReleaseFades(c)
  BY <1>5 DEF PressFades, ReleaseFades
<1>6. CASE ReleaseSends(c)
  BY <1>1, <1>6 DEF ReleaseSends, Entries
<1>7. CASE CallGoes(c)
  <2>1. f \in FadeSets /\ ~f.reverseFade
    BY <1>1, <1>7, ButtonAssumption DEF CallGoes
  <2>2. /\ h = f \/ \E active \in BOOLEAN : h = SetActive(f, active)
        /\ Task(c)' \in {"None", "FadeButtonPressed", "Activate", "Deactivate"}
    BY <1>1, <1>7 DEF CallGoes, Done, Entries
  <2>3. ASSUME NEW active \in BOOLEAN PROVE ~SetActive(f, active).reverseFade
    <3>1. SetActive(f, active).reverseFade = f.reverseFade
      BY <2>1, ActiveFields
    <3> QED  BY <2>1, <3>1
  <2> HIDE DEF f, h
  <2> QED  BY <2>1, <2>2, <2>3
<1>8. CASE Ticks(c)
  <2>1. PICK g \in Int : f \in FadeSets /\ h = UpdateFade(f, g) /\ Task(c)' = Task(c)
    BY <1>8, ButtonAssumption DEF Ticks, Entries
  <2>2. ~f.reverseFade
    BY <1>1, <2>1, ButtonAssumption
  <2> QED  BY <1>1, <2>1, <2>2, TickFields DEF TickEnds, TickMoves
<1> QED  BY <1>2, <1>3, <1>4, <1>5, <1>6, <1>7, <1>8 DEF AtButton

-----------------------------------------------------------------------------
(* A toggle's fade goes the way its presses say *)

\* While a handler is at work, the key has gone down but the press has not been
\* carried out yet: a press finds the fade running and is to pause it.
Resumes(task, next, f) ==
    /\ f.fadeActive => f.currentDirection = DirectionFor(IF task = "None" THEN 1 - next ELSE next)
    /\ ~f.fadeActive => task = "None"
    /\ ~f.fadeActive /\ f.currentIndex > 0 => f.currentDirection = DirectionFor(next)
    /\ task \in {"None", "FadeButtonPressed", "Deactivate"}

InItsDirection(c) ==
    FadesByToggle(c) /\ ~overtaken => Resumes(Task(c), NextState(c), storedFadeSettings[c])

\* The task of a handler is one of the calls.
LEMMA TaskIsCall ==
    ASSUME TypeOK, NEW c \in Contexts
    PROVE  Settled(c) <=> Task(c) = "None"
<1>1. handler # <<>> => Head(handler) \in [at : Contexts, call : Calls]
  BY HeadTailProperties DEF TypeOK
<1> QED  BY <1>1 DEF Task, Settled, Calls

\* A button that asks for a fade has one.
LEMMA FadeAskedFor ==
    ASSUME TypeOK, FadesMatch, NEW c \in Contexts, Stored(c), AsksFade(storedButtonSettings[c])
    PROVE  HasFade(c) /\ storedFadeSettings[c] \in FadeSets
BY DEF FadesMatch, Matches, Stored, HasFade, AsksFade, TypeOK

\* The settings that operator[] inserts, and the state a press records, ask for
\* the fade that was asked for.
LEMMA AsksAsBefore ==
    ASSUME NEW s \in ButtonSettings \cup {NoEntry}, NEW st \in {0, 1}
    PROVE  /\ AsksFade(SettingsOf(s)) => s # NoEntry /\ SettingsOf(s) = s
           /\ s # NoEntry => LET r == [s EXCEPT !.state = st] IN
                 r.toggleFade = s.toggleFade /\ r.fadeTime = s.fadeTime /\ r.ccMode = s.ccMode
BY DEF AsksFade, SettingsOf, DefaultSettings, ButtonSettings

\* A press of a fading toggle finds the fade at rest, or running.
LEMMA PressResumes ==
    ASSUME NEW f \in FadeSets, NEW st \in {0, 1}, NEW next, st = next,
           Resumes("None", next, f) \/ Fresh(f)
    PROVE  LET g == ToggleFade(f, st) IN
           Resumes(IF f.fadeActive THEN "FadeButtonPressed" ELSE "None", 1 - next, g)
<1> DEFINE g == ToggleFade(f, st)
<1>1. 1 - (1 - st) = st
  OBVIOUS
<1>2. CASE f.fadeActive
  <2>1. g = f /\ f.currentDirection = DirectionFor(1 - next)
    BY <1>2, ToggledFields DEF Resumes, Fresh
  <2> QED  BY <1>2, <2>1 DEF Resumes
<1>3. CASE ~f.fadeActive
  <2>1. g.fadeActive = TRUE /\ g.currentDirection = DirectionFor(st)
    BY <1>3 DEF ToggleFade, FadeSets, DirectionFor
  <2> QED  BY <1>1, <1>3, <2>1 DEF Resumes
<1> QED  BY <1>2, <1>3

LEMMA FreshResumes ==
    ASSUME NEW f, Fresh(f), NEW next
    PROVE  Resumes("None", next, f)
BY DEF Fresh, Resumes

LEMMA StepKeepsDirection ==
    ASSUME TypeOK, FadesMatch, NEW c \in Contexts, AtButton(c), overtaken => overtaken',
           InItsDirection(c)
    PROVE  InItsDirection(c)'
<1> DEFINE s == storedButtonSettings[c]
           f == storedFadeSettings[c]
           r == storedButtonSettings'[c]
           h == storedFadeSettings'[c]
           next == NextState(c)
           next1 == NextState(c)'
<1> SUFFICES ASSUME ActionOf[c] = "CC_TOGGLE", c \notin InMultiAction, r # NoEntry,
                    AsksFade(r), ~overtaken'
             PROVE  Resumes(Task(c)', next1, h)
  BY DEF InItsDirection, FadesByToggle, Stored, AsksFade
<1>1. ASSUME s # NoEntry, AsksFade(s)
      PROVE  Resumes(Task(c), next, f) /\ f \in FadeSets /\ f # NoEntry
  BY <1>1, FadeAskedFor DEF InItsDirection, FadesByToggle, Stored, AsksFade, HasFade
<1>2. s \in ButtonSettings \cup {NoEntry} /\ next \in {0, 1} /\ keyState[c] \in {0, 1}
  BY DEF TypeOK, NextState
<1>3. KeyStays(c) => next1 = next
  BY DEF KeyStays, NextState
<1>4. KeyGoesDown(c) => next = keyState[c] /\ next1 = 1 - next
  BY DEF KeyGoesDown, NextState
<1>5. KeyGoesUp(c) => next1 = next
  BY DEF KeyGoesUp, NextState, Toggles
<1>6. ASSUME NEW p, NEW g, Renewed(c, p, g), p # NoEntry, AsksFade(p)
      PROVE  /\ g \in FadeSets /\ g # NoEntry
             /\ Fresh(g) \/ (p = s /\ g = f /\ Resumes(Task(c), next, g))
  <2>1. CASE p = s /\ g = f
    BY <1>1, <1>6, <2>1
  <2>2. CASE Fresh(g)
    BY <2>2, ButtonAssumption DEF Fresh
  <2> QED  BY <1>6, <2>1, <2>2 DEF Renewed
<1>7. CASE LeftAlone(c)
  <2>1. PICK p \in {s, SettingsOf(s)} : r = p /\ Reported(f, h)
    BY <1>7, <1>1, ReportFields DEF LeftAlone, Entries, Reported
  <2>2. r = s
    BY <1>2, <2>1, AsksAsBefore
  <2>3. Resumes(Task(c), next, f)
    BY <1>1, <2>2
  <2> QED  BY <1>3, <1>7, <2>1, <2>3 DEF LeftAlone, Reported, SamePlace, Resumes
<1>8. CASE Configured(c)
  <2>1. PICK p, g : Renewed(c, p, g) /\ r = p /\ h = g
    BY <1>8 DEF Configured, Entries
  <2>2. Fresh(h) \/ (r = s /\ Resumes(Task(c), next, h))
    BY <1>6, <2>1
  <2>3. Task(c)' = "None" /\ Task(c) = "None" /\ (r = s => next1 = next)
    BY <1>3, <1>8 DEF Configured
  <2> QED  BY <2>2, <2>3, FreshResumes
<1>9. CASE PressSends(c)
  <2>1. PICK p, g : /\ p \in ButtonSettings /\ ~p.toggleFade
                    /\ r = p \/ \E st \in {0, 1} : r = [p EXCEPT !.state = st]
    BY <1>9 DEF PressSends, Entries
  <2>2. r.toggleFade = p.toggleFade
    BY <2>1 DEF ButtonSettings
  <2> QED  BY <2>1, <2>2 DEF AsksFade
<1>10. CASE PressToggles(c)
  <2>0. PICK p, g : \E d \in DirectionValues : \E st \in {0, 1} :
          /\ Renewed(c, p, g) /\ r = p /\ h = ToggleFade(FadeOf(g, d), st)
          /\ ActsOn(c, st)
          /\ Task(c)' = IF FadeOf(g, d).fadeActive THEN "FadeButtonPressed" ELSE "None"
    BY <1>10 DEF PressToggles, Entries
  <2>1. PICK d \in DirectionValues, st \in {0, 1} :
          /\ Renewed(c, p, g) /\ r = p /\ h = ToggleFade(FadeOf(g, d), st)
          /\ ActsOn(c, st)
          /\ Task(c)' = IF FadeOf(g, d).fadeActive THEN "FadeButtonPressed" ELSE "None"
    BY <2>0
  <2>2. /\ g \in FadeSets /\ FadeOf(g, d) = g
        /\ Fresh(g) \/ Resumes("None", next, g)
    BY <1>6, <1>10, <2>1, InsertedFade DEF PressToggles
  <2>3. st = next /\ next1 = 1 - next
    BY <1>4, <1>10, <2>1 DEF PressToggles, ActsOn
  <2> QED  BY <2>1, <2>2, <2>3, PressResumes
<1>11. CASE PressFades(c) \/ ReleaseFades(c)
  BY <1>11 DEF PressFades, ReleaseFades
<1>12. CASE ReleaseSends(c)
  <2>1. PICK p \in {s, SettingsOf(s)} : r = p /\ h = f
    BY <1>12 DEF ReleaseSends, Entries
  <2>2. r = s
    BY <1>2, <2>1, AsksAsBefore
  <2>3. Resumes(Task(c), next, f) /\ Task(c)' = Task(c) /\ next1 = next
    BY <1>1, <1>5, <1>12, <2>2 DEF ReleaseSends
  <2> QED  BY <2>1, <2>3
<1>13. CASE CallGoes(c)
  <2>1. r = s /\ next1 = next /\ f \in FadeSets
    BY <1>3, <1>13 DEF CallGoes, Entries
  <2>2. Resumes(Task(c), next, f)
    BY <1>1, <2>1
  <2>3. \/ /\ Task(c) = "FadeButtonPressed" /\ h = f
           /\ Task(c)' = IF f.fadeActive THEN "Deactivate" ELSE "Activate"
        \/ Task(c) = "Deactivate" /\ h = SetActive(f, FALSE) /\ Task(c)' = "None"
    BY <1>13, <2>2 DEF CallGoes, Entries, Done, Resumes
  <2>4. SamePlace(f, SetActive(f, FALSE)) /\ SetActive(f, FALSE).fadeActive = FALSE
    BY <2>1, ActiveFields
  <2>5. f.fadeActive => f.currentDirection = DirectionFor(next) \/ Task(c) = "None"
    BY <2>2 DEF Resumes
  <2>6. f.fadeActive \/ Task(c) = "None"
    BY <2>2 DEF Resumes
  <2>7. CASE h = f /\ Task(c) = "FadeButtonPressed" /\ Task(c)' = "Deactivate"
    BY <2>1, <2>2, <2>7 DEF Resumes
  <2>8. CASE h = SetActive(f, FALSE) /\ Task(c) = "Deactivate" /\ Task(c)' = "None"
    BY <2>1, <2>4, <2>5, <2>6, <2>8 DEF Resumes, SamePlace
  <2> QED  BY <2>3, <2>6, <2>7, <2>8
<1>14. CASE Ticks(c)
  <2>1. PICK g \in Int : /\ f \in FadeSets /\ h = UpdateFade(f, g)
                         /\ r = s /\ Task(c)' = Task(c) /\ next1 = next
    BY <1>3, <1>14, ButtonAssumption DEF Ticks, Entries
  <2>2. Resumes(Task(c), next, f)
    BY <1>1, <2>1
  <2>3. Running(f) /\ AtEnd(f) => Task(c) = "None"
    BY <1>14 DEF Ticks
  <2>4. (~Running(f) /\ h = f) \/ TickEnds(f, h) \/ TickMoves(f, g, h)
    BY <2>1, TickFields
  <2>5. CASE h = f
    BY <2>1, <2>2, <2>5
  <2>6. CASE TickEnds(f, h)
    BY <2>1, <2>2, <2>3, <2>6 DEF TickEnds, Resumes
  <2>7. CASE TickMoves(f, g, h)
    BY <2>1, <2>2, <2>7 DEF TickMoves, Resumes, Running
  <2> QED  BY <2>4, <2>5, <2>6, <2>7
<1> QED  BY <1>7, <1>8, <1>9, <1>10, <1>11, <1>12, <1>13, <1>14 DEF AtButton

-----------------------------------------------------------------------------
(* A momentary fade goes forward while its key is down *)

Forward(f) == ~f.reverseFade \/ f.currentIndex = 0

\* A fade that rests while its key is up, or runs while it is down, is not on its
\* way back; the calls of a handler take it from one to the other.
Follows(task, down, s, f) ==
    /\ s.ccMode \notin FadeModes => task = "None" /\ ~f.fadeActive /\ f.currentIndex = 0
    /\ task = "None" /\ (f.fadeActive <=> down) => Forward(f)
    /\ task = "FadeButtonPressed" => down /\ (f.fadeActive \/ Forward(f))
    /\ task = "Activate" => down /\ Forward(f)
    /\ task = "Deactivate" => down
    /\ task = "ReverseFade" => ~down
    /\ task = "SetReverse" => ~down /\ (f.fadeActive \/ f.currentIndex = 0)

FollowsItsKey(c) ==
    FadesByKey(c) =>
        Follows(Task(c), c \in held, storedButtonSettings[c], storedFadeSettings[c])

LEMMA FreshFollows ==
    ASSUME NEW f, Fresh(f), NEW s, NEW down
    PROVE  Follows("None", down, s, f)
BY DEF Fresh, Follows, Forward

LEMMA StepFollowsKey ==
    ASSUME TypeOK, FadesMatch, NEW c \in Contexts, AtButton(c), FollowsItsKey(c)
    PROVE  FollowsItsKey(c)'
<1> DEFINE s == storedButtonSettings[c]
           f == storedFadeSettings[c]
           r == storedButtonSettings'[c]
           h == storedFadeSettings'[c]
           down == c \in held
           down1 == c \in held'
<1> SUFFICES ASSUME ActionOf[c] = "CC", r # NoEntry, AsksFade(r)
             PROVE  Follows(Task(c)', down1, r, h)
  BY DEF FollowsItsKey, FadesByKey, Stored, AsksFade
<1>1. ASSUME s # NoEntry, AsksFade(s)
      PROVE  Follows(Task(c), down, s, f) /\ f \in FadeSets /\ f # NoEntry
  BY <1>1, FadeAskedFor DEF FollowsItsKey, FadesByKey, Stored, AsksFade, HasFade
<1>2. s \in ButtonSettings \cup {NoEntry}
  BY DEF TypeOK
<1>3. /\ KeyStays(c) => (down1 <=> down)
      /\ KeyGoesDown(c) => ~down /\ down1
      /\ KeyGoesUp(c) => down /\ ~down1
  BY DEF KeyStays, KeyGoesDown, KeyGoesUp
<1>4. ASSUME NEW p, NEW g, Renewed(c, p, g), p # NoEntry, AsksFade(p)
      PROVE  /\ g \in FadeSets /\ g # NoEntry
             /\ Fresh(g) \/ (p = s /\ g = f /\ Follows(Task(c), down, p, g))
  <2>1. CASE p = s /\ g = f
    BY <1>1, <1>4, <2>1
  <2>2. CASE Fresh(g)
    BY <2>2, ButtonAssumption DEF Fresh
  <2> QED  BY <1>4, <2>1, <2>2 DEF Renewed
<1> HIDE DEF down, down1
<1>5. CASE LeftAlone(c)
  <2>1. PICK p \in {s, SettingsOf(s)} : r = p /\ Reported(f, h)
    BY <1>5, <1>1, ReportFields DEF LeftAlone, Entries, Reported
  <2>2. r = s
    BY <1>2, <2>1, AsksAsBefore
  <2>3. Follows(Task(c), down, r, f)
    BY <1>1, <2>2
  <2> QED  BY <1>3, <1>5, <2>1, <2>3 DEF LeftAlone, Reported, SamePlace, Follows, Forward
<1>6. CASE Configured(c)
  <2>1. PICK p, g : Renewed(c, p, g) /\ r = p /\ h = g
    BY <1>6 DEF Configured, Entries
  <2>2. Fresh(h) \/ (r = s /\ Follows(Task(c), down, r, h))
    BY <1>4, <2>1
  <2>3. Task(c)' = "None" /\ Task(c) = "None" /\ (r = s => (down1 <=> down))
    BY <1>3, <1>6 DEF Configured
  <2>4. CASE r = s /\ Follows(Task(c), down, r, h)
    BY <2>3, <2>4 DEF Follows
  <2> QED  BY <2>2, <2>3, <2>4, FreshFollows
<1>7. CASE PressSends(c)
  <2>1. PICK p, g : /\ Renewed(c, p, g) /\ p \in ButtonSettings /\ p.ccMode \notin FadeModes
                    /\ r = p \/ \E st \in {0, 1} : r = [p EXCEPT !.state = st]
                    /\ h = g
    BY <1>7 DEF PressSends, Entries
  <2>2. p # NoEntry
    BY <2>1, ButtonAssumption
  <2>3. r.toggleFade = p.toggleFade /\ r.fadeTime = p.fadeTime /\ r.ccMode = p.ccMode
    BY <2>1 DEF ButtonSettings
  <2>4. Fresh(g) \/ Follows(Task(c), down, p, g)
    BY <1>4, <2>1, <2>2, <2>3 DEF AsksFade
  <2>5. ~g.fadeActive /\ g.currentIndex = 0
    BY <2>1, <2>4 DEF Fresh, Follows
  <2>6. Task(c)' = "None"
    BY <1>7 DEF PressSends
  <2> QED  BY <2>1, <2>5, <2>6 DEF Follows, Forward
<1>8. CASE PressFades(c)
  <2>0. PICK p, g : \E d \in DirectionValues :
          /\ Renewed(c, p, g) /\ p.ccMode \in FadeModes /\ r = p /\ h = FadeOf(g, d)
    BY <1>8 DEF PressFades, Entries
  <2>1. PICK d \in DirectionValues :
          /\ Renewed(c, p, g) /\ p.ccMode \in FadeModes /\ r = p /\ h = FadeOf(g, d)
    BY <2>0
  <2>2. h = g /\ (Fresh(g) \/ Follows("None", down, p, g))
    BY <1>4, <1>8, <2>1, InsertedFade DEF PressFades
  <2>3. Task(c)' = "FadeButtonPressed" /\ ~down /\ down1
    BY <1>3, <1>8 DEF PressFades
  <2>4. g.fadeActive \/ Forward(g)
    BY <2>2, <2>3 DEF Follows, Fresh, Forward
  <2> QED  BY <2>1, <2>2, <2>3, <2>4 DEF Follows
<1>9. CASE PressToggles(c)
  BY <1>9 DEF PressToggles
<1>10. CASE ReleaseSends(c)
  <2>1. PICK p \in {s, SettingsOf(s)} : r = p /\ h = f /\ p.ccMode \notin FadeModes
    BY <1>10 DEF ReleaseSends, Entries
  <2>2. r = s
    BY <1>2, <2>1, AsksAsBefore
  <2>3. Follows(Task(c), down, r, f) /\ Task(c)' = "None"
    BY <1>1, <1>10, <2>2 DEF ReleaseSends
  <2> QED  BY <2>1, <2>3 DEF Follows, Forward
<1>11. CASE ReleaseFades(c)
  <2>1. PICK d \in DirectionValues :
          /\ r = SettingsOf(s) /\ h = SetActive(FadeOf(f, d), TRUE)
          /\ Task(c)' = IF FadeOf(f, d).fadeActive THEN "ReverseFade" ELSE "None"
    BY <1>11 DEF ReleaseFades, Entries
  <2>2. r = s
    BY <1>2, <2>1, AsksAsBefore
  <2>3. FadeOf(f, d) = f /\ f \in FadeSets
    BY <1>1, <2>2, InsertedFade
  <2>4. h.fadeActive = TRUE
    BY <2>1, <2>3, ActiveFields
  <2>5. ~down1 /\ r.ccMode \in FadeModes
    BY <1>3, <1>11, <2>1 DEF ReleaseFades
  <2> QED  BY <2>1, <2>4, <2>5 DEF Follows
<1>12. CASE CallGoes(c)
  <2>1. r = s /\ (down1 <=> down) /\ f \in FadeSets
    BY <1>3, <1>12 DEF CallGoes, Entries
  <2>2. Follows(Task(c), down, r, f)
    BY <1>1, <2>1
  <2>3. Task(c) # "None" /\ (Done(c) => Task(c)' = "None")
    BY <1>12 DEF CallGoes, Done
  <2>4. r.ccMode \in FadeModes
    BY <2>2, <2>3 DEF Follows
  <2>5. CASE Task(c) = "ReverseFade" /\ f.fadeActive /\ h = f /\ Task(c)' = "SetReverse"
    BY <2>1, <2>2, <2>4, <2>5 DEF Follows
  <2>6. CASE Task(c) = "ReverseFade" /\ h = ReverseFromEnd(f) /\ Task(c)' = "None"
    BY <2>1, <2>2, <2>4, <2>6, TurnedFields DEF Follows
  <2>7. CASE /\ Task(c) = "FadeButtonPressed" /\ h = f
             /\ Task(c)' = IF f.fadeActive THEN "Deactivate" ELSE "Activate"
    BY <2>1, <2>2, <2>4, <2>7 DEF Follows
  <2>8. CASE Task(c) = "SetReverse" /\ h = SetReverse(f) /\ Task(c)' = "None"
    <3>1. h.fadeActive = f.fadeActive /\ h.currentIndex = f.currentIndex
      BY <2>1, <2>8, ReverseFields DEF SamePlace
    <3>2. f.fadeActive \/ f.currentIndex = 0
      BY <2>2, <2>8 DEF Follows
    <3>3. ~down1
      BY <2>1, <2>2, <2>8 DEF Follows
    <3> QED  BY <2>4, <2>8, <3>1, <3>2, <3>3 DEF Follows, Forward
  <2>9. CASE Task(c) = "Activate" /\ h = SetActive(f, TRUE) /\ Task(c)' = "None"
    <3>1. h = SetActive(f, TRUE) /\ TRUE \in BOOLEAN
      BY <2>9
    <3> HIDE DEF f, h
    <3>2. h.reverseFade = f.reverseFade /\ h.currentIndex = f.currentIndex /\ h.fadeActive = TRUE
      BY <2>1, <3>1, ActiveFields DEF SamePlace
    <3>3. down1 /\ Forward(f)
      BY <2>1, <2>2, <2>9 DEF Follows
    <3> QED  BY <2>4, <2>9, <3>2, <3>3 DEF Follows, Forward
  <2>10. CASE Task(c) = "Deactivate" /\ h = SetActive(f, FALSE) /\ Task(c)' = "None"
    BY <2>1, <2>2, <2>4, <2>10, ActiveFields DEF Follows
  <2> QED  BY <1>12, <2>3, <2>5, <2>6, <2>7, <2>8, <2>9, <2>10 DEF CallGoes, Entries
<1>13. CASE Ticks(c)
  <2>1. PICK g \in Int : /\ f \in FadeSets /\ h = UpdateFade(f, g)
                         /\ r = s /\ Task(c)' = Task(c) /\ (down1 <=> down)
    BY <1>3, <1>13, ButtonAssumption DEF Ticks, Entries
  <2>2. Follows(Task(c), down, r, f)
    BY <1>1, <2>1
  <2>3. h = f \/ TickEnds(f, h) \/ TickMoves(f, g, h)
    BY <2>1, TickFields
  <2>4. CASE h = f
    BY <2>1, <2>2, <2>4 DEF Follows
  <2>5. CASE TickEnds(f, h)
    BY <2>1, <2>2, <2>5 DEF TickEnds, Follows, Forward
  <2>6. CASE TickMoves(f, g, h)
    <3>1. f.fadeActive /\ h.fadeActive /\ (f.reverseFade => f.currentIndex # 0)
      BY <2>6 DEF TickMoves, Running, AtEnd
    <3>2. Forward(f) => Forward(h)
      BY <2>6, <3>1 DEF TickMoves, Forward
    <3> QED  BY <2>1, <2>2, <3>1, <3>2 DEF Follows
  <2> QED  BY <2>3, <2>4, <2>5, <2>6
<1> QED  BY <1>5, <1>6, <1>7, <1>8, <1>9, <1>10, <1>11, <1>12, <1>13 DEF AtButton

-----------------------------------------------------------------------------
(* A fade that goes forward remembers the entry before the next one *)

\* The mark of the direction that a fade is not in, and of a fade that is about to
\* start, is beyond the values of the table.
Marks(f) ==
    f.setSize > 0 =>
        /\ f.currentDirection = "IN" => f.outPrevValue = f.toValue + 1
        /\ f.currentDirection # "IN" => f.inPrevValue = f.fromValue - 1
        /\ ~f.reverseFade /\ f.currentIndex = 0 =>
               f.inPrevValue = f.fromValue - 1 /\ f.outPrevValue = f.toValue + 1
        /\ ~f.reverseFade /\ f.currentIndex # 0 =>
               /\ f.currentDirection \in Directions
               /\ f.currentValue = Entry(f, f.currentIndex - 1)
               /\ PrevValue(f) = f.currentValue

KeepsMarks(c) == HasFade(c) /\ InStep(c) => Marks(storedFadeSettings[c])

LEMMA SamePlaceMarks ==
    ASSUME NEW f, NEW g, SamePlace(f, g), Marks(f), g.reverseFade = f.reverseFade \/ g.reverseFade
    PROVE  Marks(g)
<1>1. CASE g.reverseFade
  BY <1>1 DEF SamePlace, Marks
<1>2. CASE ~g.reverseFade /\ g.reverseFade = f.reverseFade
  <2>1. Entry(g, g.currentIndex - 1) = Entry(f, f.currentIndex - 1)
    BY <1>2 DEF SamePlace, Entry, InEntry, OutEntryFloor, OutEntryCeil
  <2> QED  BY <1>2, <2>1 DEF SamePlace, Marks, PrevValue
<1> QED  BY <1>1, <1>2

LEMMA TickMarks ==
    ASSUME NEW f \in FadeSets, NEW g \in Int, Marks(f), f.currentIndex \in 0..f.setSize
    PROVE  Marks(UpdateFade(f, g))
<1> DEFINE h == UpdateFade(f, g)
<1>1. h = f \/ TickEnds(f, h) \/ TickMoves(f, g, h)
  BY TickFields
<1>2. h \in FadeSets
  BY TickFields
<1> HIDE DEF h
<1> SUFFICES ASSUME h.setSize > 0 PROVE Marks(h)
  BY DEF Marks, h
<1>3. CASE TickEnds(f, h)
  <2>1. f.setSize > 0 /\ h.setSize = f.setSize /\ ~h.reverseFade /\ h.currentIndex = 0
    BY <1>3 DEF TickEnds
  <2>2. h.inPrevValue = h.fromValue - 1 /\ h.outPrevValue = h.toValue + 1
    BY <1>3, <2>1 DEF TickEnds, Marks
  <2> QED  BY <2>1, <2>2 DEF Marks
<1>4. CASE TickMoves(f, g, h)
  <2>1. f.setSize \in Nat /\ f.currentIndex \in Nat /\ f.fromValue \in Int /\ f.toValue \in Int
    BY DEF FadeSets, TableSizes
  <2> f.setSize > 0
    BY <1>4 DEF TickMoves
  <2>2. /\ h.currentDirection = "IN" => h.outPrevValue = h.toValue + 1
        /\ h.currentDirection # "IN" => h.inPrevValue = h.fromValue - 1
    BY <1>4 DEF TickMoves, Marks
  <2>3. CASE f.reverseFade
    BY <1>4, <2>2, <2>3 DEF TickMoves, Marks
  <2>4. CASE ~f.reverseFade
    <3> DEFINE i == f.currentIndex
               v == Entry(f, i)
    <3>1. i < f.setSize /\ h.currentIndex = i + 1 /\ ~h.reverseFade
      BY <1>4, <2>1, <2>4 DEF TickMoves, AtEnd
    <3>2. Sample(f, g) = v
      BY <3>1 DEF Sample, InTable
    <3>3. Entry(h, i) = v
      BY <1>4 DEF TickMoves, Entry, InEntry, OutEntryFloor, OutEntryCeil
    <3>4. h.currentDirection \in Directions /\ PrevValue(h) = v
      BY <1>4, <3>2 DEF TickMoves, Running, PrevValue, Directions
    <3>5. h.currentValue = v
      <4>1. CASE PrevValue(f) # v
        BY <1>4, <3>2, <4>1 DEF TickMoves
      <4>2. CASE PrevValue(f) = v /\ i # 0
        BY <1>4, <2>4, <3>2, <4>2 DEF TickMoves, Marks
      <4>3. CASE PrevValue(f) = v /\ i = 0
        <5>1. v = IF f.currentDirection = "IN" THEN f.fromValue ELSE f.toValue
          BY <2>4, <4>3, FirstEntry
        <5>2. PrevValue(f) = IF f.currentDirection = "IN" THEN f.fromValue - 1
                             ELSE f.toValue + 1
          BY <2>4, <4>3 DEF Marks, PrevValue
        <5> QED  BY <2>1, <4>3, <5>1, <5>2
      <4> QED  BY <4>1, <4>2, <4>3
    <3>6. h.currentIndex - 1 = i /\ h.currentIndex # 0
      BY <2>1, <3>1
    <3> HIDE DEF i, v
    <3> QED  BY <2>2, <3>3, <3>4, <3>5, <3>6 DEF Marks
  <2> QED  BY <2>3, <2>4
<1> QED  BY <1>1, <1>3, <1>4

\* A press of a toggle in step turns a fade that is about to start only.
LEMMA PressMarks ==
    ASSUME NEW f \in FadeSets, NEW st \in {0, 1}, Marks(f), ~f.reverseFade,
           ~f.fadeActive /\ f.currentIndex > 0 => f.currentDirection = DirectionFor(st)
    PROVE  Marks(ToggleFade(f, st))
<1> DEFINE g == ToggleFade(f, st)
           t == [f EXCEPT !.currentDirection = DirectionFor(st)]
<1>1. g.reverseFade = f.reverseFade /\ (f.fadeActive => g = f) /\ (~f.fadeActive => SamePlace(t, g))
  BY ToggledFields
<1>2. f.currentIndex \in Nat
  BY DEF FadeSets
<1> HIDE DEF g
<1>3. CASE ~f.fadeActive /\ f.currentIndex = 0
  <2>1. /\ t.currentIndex = f.currentIndex /\ t.setSize = f.setSize
        /\ t.fromValue = f.fromValue /\ t.toValue = f.toValue
        /\ t.inPrevValue = f.inPrevValue /\ t.outPrevValue = f.outPrevValue
    BY DEF FadeSets
  <2> HIDE DEF t
  <2>2. g.inPrevValue = f.inPrevValue /\ g.outPrevValue = f.outPrevValue
        /\ g.fromValue = f.fromValue /\ g.toValue = f.toValue /\ g.setSize = f.setSize
        /\ g.currentIndex = 0 /\ ~g.reverseFade
    BY <1>1, <1>3, <2>1 DEF SamePlace
  <2>3. f.setSize > 0 => f.inPrevValue = f.fromValue - 1 /\ f.outPrevValue = f.toValue + 1
    BY <1>3 DEF Marks
  <2>4. Marks(g)
    BY <2>2, <2>3 DEF Marks
  <2> QED  BY <2>4 DEF g
<1>4. CASE ~f.fadeActive /\ f.currentIndex > 0
  <2>1. t = f
    BY <1>4 DEF FadeSets
  <2> HIDE DEF t
  <2>2. SamePlace(f, g) /\ g.reverseFade = f.reverseFade
    BY <1>1, <1>4, <2>1
  <2>3. Marks(g)
    BY <2>2, SamePlaceMarks
  <2> QED  BY <2>3 DEF g
<1> QED  BY <1>1, <1>2, <1>3, <1>4 DEF g

LEMMA StepKeepsMarks ==
    ASSUME TypeOK, FadeInv, FadesMatch, NEW c \in Contexts, AtButton(c),
           overtaken => overtaken', NeverTurned(c), InItsDirection(c), KeepsMarks(c)
    PROVE  KeepsMarks(c)'
<1> DEFINE s == storedButtonSettings[c]
           f == storedFadeSettings[c]
           r == storedButtonSettings'[c]
           h == storedFadeSettings'[c]
           Asks(p) == ActionOf[c] # "CC_TOGGLE" \/ (c \notin InMultiAction /\ p # NoEntry /\ AsksFade(p))
<1> SUFFICES ASSUME h # NoEntry, ActionOf[c] = "CC_TOGGLE" => ~overtaken, Asks(r)
             PROVE  Marks(h)
  BY DEF KeepsMarks, HasFade, InStep, FadesByToggle, Stored, AsksFade
<1>1. ASSUME f # NoEntry, Asks(s) PROVE Marks(f) /\ f \in FadeSets
  BY <1>1 DEF KeepsMarks, HasFade, InStep, FadesByToggle, Stored, AsksFade, TypeOK
<1>2. s \in ButtonSettings \cup {NoEntry} /\ f \in FadeSets \cup {NoEntry}
  BY DEF TypeOK
<1>3. ASSUME NEW g, Fresh(g) PROVE Marks(g)
  BY <1>3 DEF Fresh, Marks
<1>4. ASSUME NEW d \in DirectionValues, f = NoEntry PROVE Marks(FadeOf(f, d))
  BY <1>4, InsertedFade DEF Marks
<1>5. ASSUME NEW p, NEW g, Renewed(c, p, g), Asks(p), g # NoEntry
      PROVE  g \in FadeSets /\ Marks(g)
  <2>1. CASE Fresh(g)
    BY <1>3, <2>1 DEF Fresh
  <2>2. CASE p = s /\ g = f
    BY <1>1, <1>5, <2>2
  <2>3. CASE g = f /\ p # NoEntry /\ ~AsksFade(p)
    BY <1>1, <1>5, <2>3
  <2> QED  BY <1>5, <2>1, <2>2, <2>3 DEF Renewed
<1>6. Asks(SettingsOf(s)) => Asks(s)
  BY <1>2, AsksAsBefore
<1>7. f \in FadeSets => f # NoEntry
  BY ButtonAssumption
<1>8. CASE LeftAlone(c)
  <2>1. Reported(f, h) /\ (r = s \/ r = SettingsOf(s))
    BY <1>8, ReportFields DEF LeftAlone, Entries, Reported
  <2>2. Marks(f) /\ f \in FadeSets
    BY <1>1, <1>6, <1>7, <2>1 DEF Reported
  <2> QED  BY <2>1, <2>2, SamePlaceMarks DEF Reported
<1>9. CASE Configured(c)
  BY <1>5, <1>9 DEF Configured, Entries
<1>10. CASE PressSends(c)
  <2>1. PICK p, g : /\ Renewed(c, p, g) /\ p \in ButtonSettings /\ h = g
                    /\ r = p \/ \E st \in {0, 1} : r = [p EXCEPT !.state = st]
    BY <1>10 DEF PressSends, Entries
  <2>2. p # NoEntry /\ r.toggleFade = p.toggleFade /\ r.fadeTime = p.fadeTime
    BY <2>1, ButtonAssumption DEF ButtonSettings
  <2> QED  BY <1>5, <2>1, <2>2 DEF AsksFade
<1>11. CASE PressFades(c)
  <2>0. PICK p, g : \E d \in DirectionValues : Renewed(c, p, g) /\ r = p /\ h = FadeOf(g, d)
    BY <1>11 DEF PressFades, Entries
  <2>1. PICK d \in DirectionValues : Renewed(c, p, g) /\ r = p /\ h = FadeOf(g, d)
    BY <2>0
  <2>2. CASE g # NoEntry
    BY <1>5, <2>1, <2>2, InsertedFade
  <2>3. CASE g = NoEntry
    BY <2>1, <2>3, InsertedFade DEF Marks
  <2> QED  BY <2>2, <2>3
<1>12. CASE PressToggles(c)
  <2>0. PICK p, g : \E d \in DirectionValues : \E st \in {0, 1} :
          /\ Renewed(c, p, g) /\ r = p /\ h = ToggleFade(FadeOf(g, d), st) /\ ActsOn(c, st)
    BY <1>12 DEF PressToggles, Entries
  <2>1. PICK d \in DirectionValues, st \in {0, 1} :
          /\ Renewed(c, p, g) /\ r = p /\ h = ToggleFade(FadeOf(g, d), st) /\ ActsOn(c, st)
    BY <2>0
  <2>2. /\ ActionOf[c] = "CC_TOGGLE" /\ c \notin InMultiAction /\ AsksFade(p) /\ p # NoEntry
        /\ Task(c) = "None" /\ KeyGoesDown(c)
    BY <1>12, <2>1 DEF PressToggles
  <2>3. st = NextState(c)
    BY <2>1, <2>2 DEF ActsOn, NextState, KeyGoesDown
  <2>4. CASE Fresh(g)
    <3>1. g \in FadeSets /\ g # NoEntry
      BY <2>4, ButtonAssumption DEF Fresh
    <3> QED  BY <1>3, <2>1, <2>4, <3>1, InsertedFade, PressMarks DEF Fresh
  <2>5. CASE p = s /\ g = f
    <3>1. f \in FadeSets /\ f # NoEntry
      BY <2>2, <2>5, FadeAskedFor DEF Stored, HasFade
    <3>2. FadeOf(g, d) = f /\ Marks(f)
      BY <1>1, <2>1, <2>5, <3>1, InsertedFade
    <3>3. ~f.reverseFade
      BY <2>2, <3>1 DEF NeverTurned, HasFade
    <3>4. Resumes("None", st, f)
      BY <2>2, <2>3, <2>5 DEF InItsDirection, FadesByToggle, Stored, AsksFade
    <3> QED  BY <2>1, <3>1, <3>2, <3>3, <3>4, PressMarks DEF Resumes
  <2> QED  BY <2>1, <2>2, <2>4, <2>5 DEF Renewed
<1>13. CASE ReleaseSends(c)
  BY <1>1, <1>6, <1>13 DEF ReleaseSends, Entries
<1>14. CASE ReleaseFades(c)
  <2>1. PICK d \in DirectionValues :
          r = SettingsOf(s) /\ h = SetActive(FadeOf(f, d), TRUE) /\ FadeOf(f, d) \in FadeSets
    BY <1>14 DEF ReleaseFades, Entries
  <2>2. Marks(FadeOf(f, d))
    BY <1>1, <1>4, <1>6, <2>1, InsertedFade
  <2>3. SamePlace(FadeOf(f, d), h) /\ h.reverseFade = FadeOf(f, d).reverseFade
    BY <2>1, ActiveFields
  <2> QED  BY <2>2, <2>3, SamePlaceMarks
<1>15. CASE CallGoes(c)
  <2>1. r = s /\ f \in FadeSets /\ Marks(f)
    BY <1>1, <1>7, <1>15 DEF CallGoes, Entries
  <2>2. \/ h = f \/ h = SetReverse(f) \/ h = ReverseFromEnd(f)
        \/ \E active \in BOOLEAN : h = SetActive(f, active)
    BY <1>15 DEF CallGoes, Entries
  <2>3. CASE h = SetReverse(f)
    BY <2>1, <2>3, ReverseFields, SamePlaceMarks
  <2>4. CASE h = ReverseFromEnd(f)
    BY <2>1, <2>4, TurnedFields DEF Marks
  <2>5. ASSUME NEW active \in BOOLEAN, h = SetActive(f, active) PROVE Marks(h)
    BY <2>1, <2>5, ActiveFields, SamePlaceMarks
  <2> QED  BY <2>1, <2>2, <2>3, <2>4, <2>5
<1>16. CASE Ticks(c)
  <2>1. PICK g \in Int : r = s /\ f \in FadeSets /\ h = UpdateFade(f, g)
    BY <1>16, ButtonAssumption DEF Ticks, Entries
  <2>2. Marks(f)
    BY <1>1, <1>7, <2>1
  <2>3. f.currentIndex \in 0..f.setSize
    BY <1>7, <2>1 DEF FadeInv, FadesGood, GoodEntry, GoodFade, IndexInTable
  <2> QED  BY <2>1, <2>2, <2>3, TickMarks
<1> QED  BY <1>8, <1>9, <1>10, <1>11, <1>12, <1>13, <1>14, <1>15, <1>16 DEF AtButton

-----------------------------------------------------------------------------
(* The theorems *)

FadesKeep(c) == NeverTurned(c) /\ InItsDirection(c) /\ FollowsItsKey(c) /\ KeepsMarks(c)

\* Once the process has crashed, nothing is claimed of what it held.
KeysInv == HandlerShape /\ (crashed \/ (FadesMatch /\ \A c \in Contexts : FadesKeep(c)))

LEMMA StepKeepsFadesInHand ==
    ASSUME TypeOK, FadeInv, CallsAtFades, KeysInv, Step
    PROVE  KeysInv'
<1>1. HandlerShape'
  BY StepKeepsShape DEF KeysInv
<1>2. ~crashed /\ FadesMatch /\ \A c \in Contexts : FadesKeep(c)
  BY NothingAfterCrash DEF KeysInv
<1>3. CASE crashed'
  BY <1>1, <1>3 DEF KeysInv
<1>4. CASE ~crashed'
  <2>1. FadesMatch'
    BY <1>2, <1>4, StepKeepsMatch
  <2>2. ASSUME NEW c \in Contexts PROVE FadesKeep(c)'
    <3>1. AtButton(c) /\ (overtaken => overtaken')
      BY <1>4, StepAtButton DEF KeysInv
    <3>2. NeverTurned(c)' /\ InItsDirection(c)' /\ FollowsItsKey(c)' /\ KeepsMarks(c)'
      BY <1>2, <3>1, StepNeverTurns, StepKeepsDirection, StepFollowsKey, StepKeepsMarks
         DEF FadesKeep
    <3> QED  BY <3>2 DEF FadesKeep
  <2> QED  BY <1>1, <2>1, <2>2 DEF KeysInv
<1> QED  BY <1>3, <1>4

\* In whatever order keys are pressed, settings are stored and the timer thread
\* comes between the steps of a handler, a fade is at a place of its table that its
\* key, its direction and what was sent last agree on.
THEOREM KeysInvariant == Spec => []KeysInv
<1>1. Init => KeysInv
  <2> SUFFICES ASSUME Init PROVE KeysInv
    OBVIOUS
  <2>1. /\ handler = <<>>
        /\ \A c \in Contexts : storedButtonSettings[c] = NoEntry /\ storedFadeSettings[c] = NoEntry
    BY DEF Init
  <2>2. HandlerShape /\ FadesMatch
    BY <2>1 DEF HandlerShape, FadesMatch, Matches
  <2>3. ASSUME NEW c \in Contexts PROVE FadesKeep(c)
    BY <2>1, NoTask DEF FadesKeep, NeverTurned, InItsDirection, FollowsItsKey, KeepsMarks,
                        HasFade, FadesByToggle, FadesByKey, Stored
  <2> QED  BY <2>2, <2>3 DEF KeysInv
<1>2. ButtonInv /\ KeysInv /\ [Next]_vars => KeysInv'
  <2> SUFFICES ASSUME ButtonInv, KeysInv, [Next]_vars PROVE KeysInv'
    OBVIOUS
  <2>1. CASE Next
    <3>1. TypeOK /\ FadeInv /\ CallsAtFades
      BY InvParts DEF ButtonInv
    <3> QED  BY <2>1, <3>1, StepKeepsFadesInHand DEF Next
  <2>2. CASE UNCHANGED vars
    BY <2>2 DEF vars, plugin, environment, KeysInv, HandlerShape, FadesMatch, FadesKeep,
       NeverTurned, InItsDirection, FollowsItsKey, KeepsMarks, Task, Settled, NextState,
       HasFade, Stored, FadesByToggle, FadesByKey, InStep
  <2> QED  BY <2>1, <2>2
<1> QED  BY <1>1, <1>2, ButtonInvariant, PTL DEF Spec

\* The direction of a toggle's fade comes from the state the application shows at
\* each press, and currentIndex counts along the table of that direction: the press
\* that resumes a fade resumes it in the direction it was counting in.
THEOREM ResumesSafe == Spec => []ResumesInItsDirection
<1>1. ButtonInv /\ KeysInv => ResumesInItsDirection
  <2> SUFFICES ASSUME ButtonInv, KeysInv, ~crashed, NEW c \in Contexts,
                      FadesByToggle(c), Settled(c), InStep(c)
               PROVE  LET f == storedFadeSettings[c] IN
                      /\ f.fadeActive => f.currentDirection = DirectionFor(1 - NextState(c))
                      /\ ~f.fadeActive /\ f.currentIndex > 0
                            => f.currentDirection = DirectionFor(NextState(c))
    BY DEF ResumesInItsDirection
  <2>1. Task(c) = "None"
    BY DEF Task
  <2>2. Resumes("None", NextState(c), storedFadeSettings[c])
    BY <2>1 DEF KeysInv, FadesKeep, InItsDirection, InStep, FadesByToggle
  <2> QED  BY <2>2 DEF Resumes
<1> QED  BY <1>1, ButtonInvariant, KeysInvariant, PTL

\* ReverseFade is called by the release of a momentary button only, and the timer
\* thread may finish the fade before or after it is turned: when the key goes down
\* the next time, no fade is left on its way back.
THEOREM HeldForward == Spec => []HeldFadesForward
<1>1. ButtonInv /\ KeysInv => HeldFadesForward
  <2> SUFFICES ASSUME KeysInv, ~crashed, NEW c \in Contexts, c \in held,
                      FadesByKey(c), Settled(c), storedFadeSettings[c].fadeActive
               PROVE  Forward(storedFadeSettings[c])
    BY DEF HeldFadesForward, Forward, ButtonInv, TypeOK
  <2>1. Task(c) = "None"
    BY DEF Task
  <2>2. Follows("None", c \in held, storedButtonSettings[c], storedFadeSettings[c])
    BY <2>1 DEF KeysInv, FadesKeep, FollowsItsKey
  <2> QED  BY <2>2 DEF Follows
<1> QED  BY <1>1, ButtonInvariant, KeysInvariant, PTL

\* currentValue and the mark of the direction are written by ticks only, and the
\* direction, the index and reverseFade by keys as well: between two ticks they
\* still belong together.
THEOREM LastEntryHeld == Spec => []HoldsLastEntry
<1>1. ButtonInv /\ KeysInv => HoldsLastEntry
  <2> SUFFICES ASSUME ButtonInv, KeysInv, ~crashed, NEW c \in Contexts,
                      HasFade(c), InStep(c),
                      storedFadeSettings[c].currentIndex > 0, ~storedFadeSettings[c].reverseFade
               PROVE  LET f == storedFadeSettings[c] IN
                      f.currentValue = Entry(f, f.currentIndex - 1) /\ PrevValue(f) = f.currentValue
    BY DEF HoldsLastEntry
  <2> DEFINE f == storedFadeSettings[c]
  <2>1. f \in FadeSets /\ f.currentIndex \in 0..f.setSize /\ f.setSize \in Nat
    BY DEF HasFade, ButtonInv, FadesGood, GoodEntry, GoodFade, IndexInTable, FadeSets, TableSizes
  <2>2. Marks(f)
    BY DEF KeysInv, FadesKeep, KeepsMarks
  <2> HIDE DEF f
  <2>3. f.currentIndex > 0 /\ ~f.reverseFade
    BY DEF f
  <2>4. f.currentValue = Entry(f, f.currentIndex - 1) /\ PrevValue(f) = f.currentValue
    BY <2>1, <2>2, <2>3 DEF Marks
  <2> QED  BY <2>4 DEF f
<1> QED  BY <1>1, ButtonInvariant, KeysInvariant, PTL

\* So the next entry is compared with the one that was sent last, and a tick takes
\* a fade that goes forward from there towards where it arrives, however it was
\* paused and resumed since.
THEOREM Approaches == Spec => FadeApproaches
<1> DEFINE A == \A c \in Fading :
        LET f == storedFadeSettings[c]
            g == storedFadeSettings'[c]
        IN  TimerUpdate /\ timer.it = c /\ Running(f) /\ InStep(c) /\ ~f.reverseFade
                /\ f.currentIndex > 0
            => Between(g.currentValue, f.currentValue, Arrival(f))
<1>1. ButtonInv /\ KeysInv /\ [Next]_vars => [A]_vars
  <2> SUFFICES ASSUME ButtonInv, KeysInv, NEW c \in Contexts, HasFade(c),
                      TimerUpdate, timer.it = c, Running(storedFadeSettings[c]), InStep(c),
                      ~storedFadeSettings[c].reverseFade, storedFadeSettings[c].currentIndex > 0
               PROVE  Between(storedFadeSettings'[c].currentValue,
                              storedFadeSettings[c].currentValue,
                              Arrival(storedFadeSettings[c]))
    BY DEF Fading, HasFade
  <2> DEFINE f == storedFadeSettings[c]
             h == storedFadeSettings'[c]
  <2>1. f \in FadeSets /\ f.currentIndex \in 0..f.setSize /\ f.setSize \in Nat
    BY DEF HasFade, ButtonInv, FadesGood, GoodEntry, GoodFade, IndexInTable, FadeSets, TableSizes
  <2>2. Marks(f)
    BY DEF KeysInv, FadesKeep, KeepsMarks, TimerUpdate, TimerIs
  <2>3. PICK g \in Int : h = UpdateFade(f, g)
    BY ButtonAssumption DEF TimerUpdate, ButtonInv, TypeOK
  <2>4. Running(f) /\ ~f.reverseFade /\ f.currentIndex > 0
    OBVIOUS
  <2>5. (~Running(f) /\ h = f) \/ TickEnds(f, h) \/ TickMoves(f, g, h)
    BY <2>1, <2>3, TickFields
  <2> HIDE DEF f, h
  <2>6. f.currentDirection \in Directions /\ f.currentValue \in Int
        /\ f.fromValue \in Int /\ f.toValue \in Int
    BY <2>1, <2>4 DEF Running, FadeSets
  <2>7. CASE TickEnds(f, h)
    <3>1. h.currentValue = Arrival(f) /\ Arrival(f) \in Int
      BY <2>4, <2>6, <2>7 DEF TickEnds, SilentEnd, Arrival
    <3>2. Between(h.currentValue, f.currentValue, Arrival(f))
      BY <2>6, <3>1 DEF Between
    <3> QED  BY <3>2 DEF f, h
  <2>8. CASE TickMoves(f, g, h)
    <3>1. f.currentIndex \in Nat \ {0} /\ f.currentIndex < f.setSize
      BY <2>1, <2>4, <2>8 DEF TickMoves, AtEnd
    <3>2. Sample(f, g) = Entry(f, f.currentIndex)
      BY <3>1 DEF Sample, InTable
    <3>3. f.currentValue = Entry(f, f.currentIndex - 1) /\ PrevValue(f) = f.currentValue
      BY <2>1, <2>2, <2>4, <3>1 DEF Marks
    <3>4. h.currentValue = Entry(f, f.currentIndex)
      BY <2>8, <3>2, <3>3 DEF TickMoves
    <3>5. Between(h.currentValue, f.currentValue, Arrival(f))
      BY <2>1, <2>4, <2>6, <3>1, <3>3, <3>4, NextEntryApproaches
    <3> QED  BY <3>5 DEF f, h
  <2> QED  BY <2>4, <2>5, <2>7, <2>8
<1>2. Spec => [][A]_vars
  BY <1>1, ButtonInvariant, KeysInvariant, PTL DEF Spec
<1> QED  BY <1>2 DEF FadeApproaches

-----------------------------------------------------------------------------
(* The notes and the controllers of a sequence of messages *)

\* One of the messages starts note n, or moves controller n.
Plays(messages, n) ==
    \E i \in DOMAIN messages :
        /\ Len(messages[i]) = 3
        /\ messages[i][1] \in NoteOns => messages[i][3] # 0
        /\ <<messages[i][1], messages[i][2]>> = n

\* A message of settings s with this value does not.
Spares(s, v, n) == TargetIn(s) # n \/ (Byte(s.statusByte) \in NoteOns /\ Byte(v) = 0)

LEMMA HeardPlays ==
    ASSUME NEW notes, NEW messages, NEW n \in Heard(notes, messages)
    PROVE  n \in notes \/ Plays(messages, n)
BY DEF Heard, Plays

LEMMA NothingHeard ==
    ASSUME NEW notes
    PROVE  Heard(notes, <<>>) = notes
BY DEF Heard

LEMMA HeardEnd ==
    ASSUME NEW notes, NEW s, Byte(s.statusByte) \in NoteOns
    PROVE  TargetIn(s) \notin Heard(notes, <<Message(s, 0)>>)
<1> DEFINE m == Message(s, 0)
           w == <<m>>
<1>1. Len(m) = 3 /\ m[1] = Byte(s.statusByte) /\ m[2] = Byte(s.dataByte1) /\ m[3] = 0
  BY DEF Message, Byte
<1> HIDE DEF m
<1>2. DOMAIN w = {1} /\ w[1] = m
  OBVIOUS
<1> HIDE DEF w
<1>3. TargetIn(s) = <<m[1], m[2]>>
  BY <1>1 DEF TargetIn
<1>4. TargetIn(s) \notin Heard(notes, w)
  BY <1>1, <1>2, <1>3 DEF Heard
<1> QED  BY <1>4 DEF w, m

LEMMA SilentMessage ==
    ASSUME NEW s, NEW v, NEW n, Spares(s, v, n)
    PROVE  ~Plays(<<Message(s, v)>>, n)
<1> DEFINE m == Message(s, v)
           w == <<m>>
<1>1. <<m[1], m[2]>> = TargetIn(s) /\ m[1] = Byte(s.statusByte) /\ m[3] = Byte(v)
  BY DEF Message, TargetIn
<1> HIDE DEF m
<1>2. DOMAIN w = {1} /\ w[1] = m
  OBVIOUS
<1> HIDE DEF w
<1>3. ~Plays(w, n)
  BY <1>1, <1>2 DEF Plays, Spares
<1> QED  BY <1>3 DEF w, m

LEMMA SilentPair ==
    ASSUME NEW s, NEW v, NEW n, Spares(s, v, n)
    PROVE  ~Plays(<<Message(s, v), Message(s, 0)>>, n)
<1> DEFINE m == Message(s, v)
           k == Message(s, 0)
           w == <<m, k>>
<1>1. /\ <<m[1], m[2]>> = TargetIn(s) /\ m[1] = Byte(s.statusByte) /\ m[3] = Byte(v)
      /\ <<k[1], k[2]>> = TargetIn(s) /\ k[1] = Byte(s.statusByte) /\ k[3] = 0
  BY DEF Message, TargetIn, Byte
<1> HIDE DEF m, k
<1>2. DOMAIN w = {1, 2} /\ w[1] = m /\ w[2] = k
  OBVIOUS
<1> HIDE DEF w
<1>3. ~Plays(w, n)
  BY <1>1, <1>2 DEF Plays, Spares
<1> QED  BY <1>3 DEF w, m, k

LEMMA SilentOthers ==
    ASSUME NEW n, NEW a, NEW b
    PROVE  /\ ~Plays(<<>>, n)
           /\ ~Plays(<< <<a, b>> >>, n)
           /\ ~Plays(<< <<240, 127, 127, 6, a, 247>> >>, n)
<1>1. ~Plays(<<>>, n)
  BY DEF Plays
<1>2. ASSUME NEW m, Len(m) # 3 PROVE ~Plays(<<m>>, n)
  BY <1>2 DEF Plays
<1>3. Len(<<a, b>>) # 3 /\ Len(<<240, 127, 127, 6, a, 247>>) # 3
  OBVIOUS
<1> QED  BY <1>1, <1>2, <1>3

-----------------------------------------------------------------------------
(* What settings a message can be made from *)

\* Settings that were inserted by operator[].
Quiet(s) ==
    /\ s.statusByte = DefaultSettings.statusByte
    /\ s.dataByte2 = 0 /\ s.dataByte2Alt = 0 /\ s.noteOffMode = 0
    /\ s.ccMode = 0 /\ ~s.toggleFade

\* Settings that were saved, as far as their note is concerned.
FromSaved(c, s) ==
    \E r \in ConfiguredFor[c] : TargetIn(s) = TargetIn(r) /\ s.noteOffMode = r.noteOffMode

\* A fade is stored with settings, and those are the saved ones.
Known(c, s, f) ==
    /\ s = NoEntry => f = NoEntry
    /\ s # NoEntry => FromSaved(c, s) \/ (Quiet(s) /\ f = NoEntry)

KnownAt(c) == Known(c, storedButtonSettings[c], storedFadeSettings[c])

\* The fade of a button that does not send controllers is never started.
Fades(c) == ActionOf[c] \in {"CC", "CC_TOGGLE"}

RestsAt(c) ==
    ~Fades(c) => Task(c) = "None" /\ (HasFade(c) => ~storedFadeSettings[c].fadeActive)

LEMMA RenewedKnown ==
    ASSUME NEW c \in Contexts, NEW s, NEW f, Renewed(c, s, f), KnownAt(c)
    PROVE  Known(c, s, f)
<1>1. CASE s = storedButtonSettings[c] /\ f = storedFadeSettings[c]
  BY <1>1 DEF KnownAt
<1>2. CASE s # NoEntry /\ s \in ConfiguredFor[c]
  BY <1>2 DEF Known, FromSaved
<1> QED  BY <1>1, <1>2 DEF Renewed

LEMMA StateKnown ==
    ASSUME NEW c, NEW s \in ButtonSettings, NEW f, Known(c, s, f), NEW st \in {0, 1}
    PROVE  Known(c, [s EXCEPT !.state = st], f)
<1> DEFINE r == [s EXCEPT !.state = st]
<1>1. r \in ButtonSettings
  BY DEF ButtonSettings
<1>2. /\ r.statusByte = s.statusByte /\ r.dataByte1 = s.dataByte1
      /\ r.dataByte2 = s.dataByte2 /\ r.dataByte2Alt = s.dataByte2Alt
      /\ r.noteOffMode = s.noteOffMode /\ r.ccMode = s.ccMode /\ r.toggleFade = s.toggleFade
  BY DEF ButtonSettings
<1> HIDE DEF r
<1>3. r # NoEntry /\ s # NoEntry
  BY <1>1, ButtonAssumption
<1>4. Known(c, r, f)
  BY <1>2, <1>3 DEF Known, FromSaved, Quiet, TargetIn
<1> QED  BY <1>4 DEF r

LEMMA InsertedKnown ==
    ASSUME NEW c, NEW s, NEW f, Known(c, s, f)
    PROVE  Known(c, SettingsOf(s), f) /\ SettingsOf(s) # NoEntry
<1>1. CASE s = NoEntry
  <2>1. DefaultSettings # NoEntry
    BY DefaultIsSettings, ButtonAssumption
  <2>2. Quiet(DefaultSettings)
    BY DEF Quiet, DefaultSettings
  <2> QED  BY <1>1, <2>1, <2>2 DEF Known, SettingsOf
<1>2. CASE s # NoEntry
  BY <1>2 DEF SettingsOf
<1> QED  BY <1>1, <1>2

\* Settings that ask for a fade were saved, and a fade for them can be inserted.
LEMMA FadingKnown ==
    ASSUME NEW c, NEW s, NEW f, NEW g, Known(c, s, f), s # NoEntry,
           f # NoEntry \/ s.ccMode \in FadeModes \/ s.toggleFade
    PROVE  Known(c, s, g)
BY DEF Known, Quiet, FadeModes

LEMMA StepKnown ==
    ASSUME TypeOK, NEW c \in Contexts, AtButton(c), KnownAt(c)
    PROVE  KnownAt(c)'
<1> DEFINE s == storedButtonSettings[c]
           f == storedFadeSettings[c]
           r == storedButtonSettings'[c]
           h == storedFadeSettings'[c]
<1> SUFFICES Known(c, r, h)
  BY DEF KnownAt
<1>1. Known(c, s, f) /\ Known(c, SettingsOf(s), f) /\ SettingsOf(s) # NoEntry
  BY InsertedKnown DEF KnownAt
<1>2. f \in FadeSets => f # NoEntry
  BY ButtonAssumption
<1>3. f # NoEntry => s # NoEntry
  BY <1>1 DEF Known
<1>4. CASE LeftAlone(c)
  <2>1. (r = s \/ r = SettingsOf(s)) /\ (h = f \/ f \in FadeSets)
    BY <1>4 DEF LeftAlone, Entries
  <2> QED  BY <1>1, <1>2, <1>3, <2>1, FadingKnown
<1>5. CASE Configured(c)
  BY <1>5, RenewedKnown DEF Configured, Entries
<1>6. CASE PressSends(c)
  <2>1. PICK p, g : /\ Renewed(c, p, g) /\ p \in ButtonSettings /\ h = g
                    /\ r = p \/ \E st \in {0, 1} : r = [p EXCEPT !.state = st]
    BY <1>6 DEF PressSends, Entries
  <2> QED  BY <2>1, RenewedKnown, StateKnown
<1>7. CASE PressFades(c)
  <2>1. PICK p, g : Renewed(c, p, g) /\ p \in ButtonSettings /\ r = p /\ p.ccMode \in FadeModes
    BY <1>7 DEF PressFades, Entries
  <2>2. Known(c, p, g) /\ p # NoEntry
    BY <2>1, RenewedKnown, ButtonAssumption
  <2> QED  BY <2>1, <2>2, FadingKnown
<1>8. CASE PressToggles(c)
  <2>1. PICK p, g : Renewed(c, p, g) /\ p \in ButtonSettings /\ r = p /\ p.toggleFade
    BY <1>8 DEF PressToggles, Entries
  <2>2. Known(c, p, g) /\ p # NoEntry
    BY <2>1, RenewedKnown, ButtonAssumption
  <2> QED  BY <2>1, <2>2, FadingKnown
<1>9. CASE ReleaseSends(c)
  BY <1>1, <1>9 DEF ReleaseSends, Entries
<1>10. CASE ReleaseFades(c)
  <2>1. r = SettingsOf(s) /\ r.ccMode \in FadeModes
    BY <1>10 DEF ReleaseFades, Entries
  <2> QED  BY <1>1, <2>1, FadingKnown
<1>11. CASE CallGoes(c) \/ Ticks(c)
  <2>1. r = s /\ f \in FadeSets
    BY <1>11 DEF CallGoes, Ticks, Entries
  <2> QED  BY <1>1, <1>2, <1>3, <2>1, FadingKnown
<1> QED  BY <1>4, <1>5, <1>6, <1>7, <1>8, <1>9, <1>10, <1>11 DEF AtButton

LEMMA StepRests ==
    ASSUME TypeOK, NEW c \in Contexts, AtButton(c), RestsAt(c)
    PROVE  RestsAt(c)'
<1> DEFINE f == storedFadeSettings[c]
           h == storedFadeSettings'[c]
<1> SUFFICES ASSUME ~Fades(c)
             PROVE  Task(c)' = "None" /\ (h # NoEntry => ~h.fadeActive)
  BY DEF RestsAt, HasFade, Fades
<1>1. Task(c) = "None" /\ (f # NoEntry => ~f.fadeActive)
  BY DEF RestsAt, HasFade
<1>2. CASE LeftAlone(c)
  <2>1. Reported(f, h)
    BY <1>2, ReportFields DEF LeftAlone, Entries, Reported
  <2>2. f \in FadeSets => f # NoEntry
    BY ButtonAssumption
  <2> QED  BY <1>1, <1>2, <2>1, <2>2 DEF LeftAlone, Reported
<1>3. CASE Configured(c) \/ PressSends(c)
  <2>1. PICK s, g : Renewed(c, s, g) /\ h = g /\ Task(c)' = "None"
    BY <1>3 DEF Configured, PressSends, Entries
  <2> QED  BY <1>1, <2>1, RenewedFade DEF Fresh
<1>4. CASE PressFades(c) \/ PressToggles(c) \/ ReleaseFades(c)
  BY <1>4 DEF PressFades, PressToggles, ReleaseFades, Fades
<1>5. CASE ReleaseSends(c)
  BY <1>1, <1>5 DEF ReleaseSends, Entries
<1>6. CASE CallGoes(c)
  BY <1>1, <1>6 DEF CallGoes
<1>7. CASE Ticks(c)
  <2>1. PICK g \in Int : f \in FadeSets /\ h = UpdateFade(f, g) /\ Task(c)' = Task(c)
    BY <1>7, ButtonAssumption DEF Ticks, Entries
  <2>2. ~f.fadeActive
    BY <1>1, <2>1, ButtonAssumption
  <2> QED  BY <1>1, <2>1, <2>2 DEF UpdateFade, Running
<1> QED  BY <1>2, <1>3, <1>4, <1>5, <1>6, <1>7 DEF AtButton

\* The websocket thread does not touch the iterator of the timer thread.
LEMMA TimerStays ==
    ASSUME Step, ~UpdateTimer
    PROVE  UNCHANGED timer
<1>1. ASSUME NEW c \in Contexts,
             \/ WillAppear(c) \/ WillDisappear(c) \/ KeyDown(c) \/ KeyUp(c) \/ HandlerStep(c)
             \/ \E p \in Payloads[c] : DidReceiveSettings(c, p)
      PROVE  UNCHANGED timer
  BY <1>1 DEF WillAppear, WillDisappear, DidReceiveSettings, KeyDown, KeyDownUnstored,
     KeyDownNoteOn, KeyDownCC, KeyDownCCFade, KeyDownProgramChange, KeyDownMMC,
     KeyDownNoteToggle, KeyDownCCToggle, KeyDownCCToggleFade, KeyIsPressed, KeyUp, KeyUpSends,
     KeyUpCCFade, KeyUpOther, KeyIsReleased, HandlerStep, ReverseFade, FadeButtonPressed,
     WriteFade, Goes
<1>2. LockVisibleContexts => UNCHANGED timer
  BY DEF LockVisibleContexts
<1> QED  BY <1>1, <1>2 DEF Step

\* UpdateTimer only ever sends the value of a fade that has been started.
TimerSends == timer.pc = "send" => Fades(timer.it)

LEMMA StepTimerSends ==
    ASSUME TypeOK, FadeInv, \A c \in Contexts : RestsAt(c), TimerSends, Step
    PROVE  TimerSends'
<1>1. ASSUME UNCHANGED timer PROVE TimerSends'
  BY <1>1 DEF TimerSends, Fades
<1>2. CASE UpdateTimer
  <2> DEFINE f == storedFadeSettings[timer.it]
  <2>1. CASE TimerUpdate
    <3>1. timer.it \in Contexts /\ HasFade(timer.it)
      BY <2>1 DEF TypeOK, FadeInv, TimerAtFade, TimerUpdate, TimerIs
    <3>2. PICK g : timer' = [timer EXCEPT !.pc = IF Updated(f, g) THEN "send" ELSE "ok"]
      BY <2>1 DEF TimerUpdate
    <3>3. Updated(f, g) => Fades(timer.it)
      BY <3>1 DEF Updated, Running, RestsAt
    <3>4. timer'.it = timer.it /\ (timer'.pc = "send" => Updated(f, g))
      BY <3>2 DEF TypeOK
    <3> QED  BY <3>3, <3>4 DEF TimerSends, Fades
  <2>2. CASE ~TimerUpdate
    <3>1. timer'.pc # "send" \/ timer' = timer
      BY <1>2, <2>2 DEF UpdateTimer, TimerStart, TimerSend, TimerOk, TimerClear, MoveOnFrom,
                        TypeOK
    <3> QED  BY <1>1, <3>1 DEF TimerSends
  <2> QED  BY <2>1, <2>2
<1>3. CASE ~UpdateTimer
  BY <1>1, <1>3, TimerStays
<1> QED  BY <1>2, <1>3

-----------------------------------------------------------------------------
(* Which messages a step sends *)

LEMMA ConfiguredTarget ==
    ASSUME NEW c \in Contexts, NEW s \in ConfiguredFor[c]
    PROVE  TargetIn(s) \in TargetsFor[c]
BY DEF TargetIn, TargetsFor

\* Inserted settings send the end of a note, and no more.
LEMMA QuietSpares ==
    ASSUME NEW s, Quiet(s), NEW n
    PROVE  Spares(s, s.dataByte2, n) /\ Spares(s, s.dataByte2Alt, n) /\ Spares(s, 0, n)
<1>1. Byte(DefaultSettings.statusByte) \in NoteOns /\ Byte(0) = 0
  BY DEF DefaultSettings, Byte, NoteOns
<1> QED  BY <1>1 DEF Quiet, Spares

\* A button sends the notes it was saved with, and no other.
LEMMA SettingsPlay ==
    ASSUME NEW c \in Contexts, NEW s, s # NoEntry, NEW f, Known(c, s, f), NEW n,
           n \notin TargetsFor[c]
    PROVE  /\ ~Plays(<<Message(s, s.dataByte2)>>, n)
           /\ ~Plays(<<Message(s, s.dataByte2Alt)>>, n)
           /\ ~Plays(<<Message(s, 0)>>, n)
           /\ ~Plays(<<Message(s, s.dataByte2), Message(s, 0)>>, n)
           /\ f # NoEntry => TargetIn(s) # n
<1>1. Byte(0) = 0
  BY DEF Byte
<1>2. FromSaved(c, s) => TargetIn(s) # n
  BY ConfiguredTarget DEF FromSaved
<1>3. FromSaved(c, s) \/ (Quiet(s) /\ f = NoEntry)
  BY DEF Known
<1>4. Spares(s, s.dataByte2, n) /\ Spares(s, s.dataByte2Alt, n) /\ Spares(s, 0, n)
  BY <1>2, <1>3, QuietSpares DEF Spares
<1> QED  BY <1>1, <1>2, <1>3, <1>4, SilentMessage, SilentPair

LEMMA PressKnown ==
    ASSUME TypeOK, NEW c \in Contexts, ~StoreFails(c), KnownAt(c)
    PROVE  SettingsAt(c) # NoEntry /\ \E f : Known(c, SettingsAt(c), f)
<1>1. PICK d \in DirectionValues : TRUE
  BY DEF DirectionValues, Directions
<1>2. Renewed(c, SettingsAt(c), FadeAt(c, d)) /\ SettingsAt(c) \in ButtonSettings
  BY PressRenews
<1> QED  BY <1>2, RenewedKnown, ButtonAssumption

LEMMA PressPlays ==
    ASSUME TypeOK, NEW c \in Contexts, KnownAt(c), KeyDown(c), NEW n, n \notin TargetsFor[c]
    PROVE  ~Plays(wire', n)
<1> DEFINE s == SettingsAt(c)
<1>1. ASSUME ~StoreFails(c)
      PROVE  /\ ~Plays(<<Message(s, s.dataByte2)>>, n)
             /\ ~Plays(<<Message(s, s.dataByte2Alt)>>, n)
             /\ ~Plays(<<Message(s, 0)>>, n)
             /\ ~Plays(<<Message(s, s.dataByte2), Message(s, 0)>>, n)
  BY <1>1, PressKnown, SettingsPlay
<1> HIDE DEF s
<1>2. CASE KeyDownUnstored(c) \/ KeyDownCCFade(c)
  <2>1. wire' = <<>>
    BY <1>2 DEF KeyDownUnstored, KeyDownCCFade, KeyDownFades
  <2> QED  BY <2>1, SilentOthers
<1>3. CASE KeyDownNoteOn(c)
  BY <1>1, <1>3 DEF KeyDownNoteOn, KeyDownSends, s
<1>4. CASE KeyDownCC(c)
  BY <1>1, <1>4, SilentOthers DEF KeyDownCC, KeyDownSends, s
<1>5. ASSUME NEW st \in {0, 1}, KeyDownNoteToggle(c, st) \/ KeyDownCCToggle(c, st)
      PROVE  ~Plays(wire', n)
  BY <1>1, <1>5 DEF KeyDownNoteToggle, KeyDownCCToggle, KeyDownSends, s
<1>6. ASSUME NEW st \in {0, 1}, KeyDownCCToggleFade(c, st) PROVE ~Plays(wire', n)
  <2>1. wire' = <<>>
    BY <1>6 DEF KeyDownCCToggleFade, KeyDownFades
  <2> QED  BY <2>1, SilentOthers
<1>7. CASE KeyDownProgramChange(c)
  <2>1. wire' = << <<Byte(s.statusByte), Byte(s.dataByte1)>> >>
    BY <1>7 DEF KeyDownProgramChange, KeyDownSends, s
  <2> QED  BY <2>1, SilentOthers
<1>8. CASE KeyDownMMC(c)
  <2>1. wire' = << <<240, 127, 127, 6, Byte(s.dataByte5), 247>> >>
    BY <1>8 DEF KeyDownMMC, KeyDownSends, s
  <2> QED  BY <2>1, SilentOthers
<1> QED  BY <1>2, <1>3, <1>4, <1>5, <1>6, <1>7, <1>8 DEF KeyDown

LEMMA ReleasePlays ==
    ASSUME TypeOK, NEW c \in Contexts, KnownAt(c), KeyUp(c), NEW n, n \notin TargetsFor[c]
    PROVE  ~Plays(wire', n)
<1> DEFINE s == SettingsOf(storedButtonSettings[c])
<1>1. /\ ~Plays(<<Message(s, s.dataByte2Alt)>>, n)
      /\ ~Plays(<<Message(s, 0)>>, n)
  BY InsertedKnown, SettingsPlay DEF KnownAt
<1> HIDE DEF s
<1>2. CASE KeyUpSends(c)
  <2>1. wire' \in {<<Message(s, 0)>>, <<Message(s, s.dataByte2Alt)>>, <<>>}
    BY <1>2 DEF KeyUpSends, ReleaseMessages, s
  <2> QED  BY <1>1, <2>1, SilentOthers
<1>3. CASE KeyUpCCFade(c) \/ KeyUpOther(c)
  <2>1. wire' = <<>>
    BY <1>3 DEF KeyUpCCFade, KeyUpOther
  <2> QED  BY <2>1, SilentOthers
<1> QED  BY <1>2, <1>3 DEF KeyUp

LEMMA TimerPlays ==
    ASSUME TypeOK, FadeInv, KnownAt(timer.it), UpdateTimer, NEW n,
           TimerIs("send") => n \notin TargetsFor[timer.it]
    PROVE  ~Plays(wire', n)
<1> DEFINE c == timer.it
           s == storedButtonSettings[c]
           f == storedFadeSettings[c]
<1>1. CASE TimerSend
  <2>1. TimerIs("send") /\ c \in Contexts /\ f # NoEntry /\ n \notin TargetsFor[c]
    BY <1>1 DEF TimerSend, TimerIs, TypeOK, FadeInv, TimerAtFade, HasFade
  <2>2. Known(c, SettingsOf(s), f) /\ SettingsOf(s) # NoEntry
    BY InsertedKnown DEF KnownAt
  <2>3. TargetIn(SettingsOf(s)) # n
    BY <2>1, <2>2, SettingsPlay
  <2>4. wire' = <<Message(SettingsOf(s), f.currentValue)>>
    BY <1>1 DEF TimerSend
  <2> QED  BY <2>3, <2>4, SilentMessage DEF Spares
<1>2. CASE TimerStart \/ TimerUpdate \/ TimerOk \/ TimerClear
  <2>1. wire' = <<>>
    BY <1>2 DEF TimerStart, TimerUpdate, TimerOk, TimerClear
  <2> QED  BY <2>1, SilentOthers
<1> QED  BY <1>1, <1>2 DEF UpdateTimer

\* No other button has note n.
OnlyAt(c, n) == \A d \in Contexts \ {c} : n \notin TargetsFor[d]

\* Only a button's own key, or the timer thread at its fade, sends what it alone has.
LEMMA OthersPlay ==
    ASSUME TypeOK, FadeInv, \A d \in Contexts : KnownAt(d), Step, NEW c \in Contexts,
           TimerIs("send") => timer.it # c, ~KeyDown(c), ~KeyUp(c), NEW n, OnlyAt(c, n)
    PROVE  ~Plays(wire', n) /\ KeyStays(c)
<1>1. ASSUME NEW d \in Contexts, d # c, KeyDown(d) PROVE ~Plays(wire', n) /\ KeyStays(c)
  <2>1. KeyIsPressed(d)
    BY <1>1 DEF KeyDown, KeyDownUnstored, KeyDownNoteOn, KeyDownCC, KeyDownCCFade,
         KeyDownProgramChange, KeyDownMMC, KeyDownNoteToggle, KeyDownCCToggle,
         KeyDownCCToggleFade
  <2>2. KeyStays(c)
    BY <1>1, <2>1 DEF KeyIsPressed, KeyStays
  <2> QED  BY <1>1, <2>2, PressPlays DEF OnlyAt
<1>2. ASSUME NEW d \in Contexts, d # c, KeyUp(d) PROVE ~Plays(wire', n) /\ KeyStays(c)
  <2>1. KeyIsReleased(d)
    BY <1>2 DEF KeyUp, KeyUpSends, KeyUpCCFade, KeyUpOther
  <2>2. KeyStays(c)
    BY <1>2, <2>1 DEF KeyIsReleased, KeyStays, TypeOK
  <2> QED  BY <1>2, <2>2, ReleasePlays DEF OnlyAt
<1>3. CASE UpdateTimer
  <2>1. TimerIs("send") => n \notin TargetsFor[timer.it]
    BY DEF OnlyAt, TypeOK
  <2>2. KnownAt(timer.it)
    BY DEF TypeOK
  <2>3. UNCHANGED <<held, keyState>>
    BY <1>3 DEF UpdateTimer, TimerStart, TimerUpdate, TimerSend, TimerOk, TimerClear, environment
  <2> QED  BY <1>3, <2>1, <2>2, <2>3, TimerPlays DEF KeyStays
<1>4. ASSUME wire' = <<>>, UNCHANGED <<held, keyState>> PROVE ~Plays(wire', n) /\ KeyStays(c)
  BY <1>4, SilentOthers DEF KeyStays
<1>5. ASSUME NEW d \in Contexts,
             \/ WillAppear(d) \/ WillDisappear(d) \/ HandlerStep(d)
             \/ \E p \in Payloads[d] : DidReceiveSettings(d, p)
      PROVE  wire' = <<>> /\ UNCHANGED <<held, keyState>>
  BY <1>5 DEF WillAppear, WillDisappear, DidReceiveSettings, HandlerStep, ReverseFade,
              FadeButtonPressed, WriteFade, Goes, environment
<1>6. LockVisibleContexts => wire' = <<>> /\ UNCHANGED <<held, keyState>>
  BY DEF LockVisibleContexts, environment
<1> QED  BY <1>1, <1>2, <1>3, <1>4, <1>5, <1>6 DEF Step

-----------------------------------------------------------------------------
(* What is known of the settings and the fades in every state *)

NotesKnown == TimerSends /\ \A c \in Contexts : KnownAt(c) /\ RestsAt(c)
NotesInv == crashed \/ NotesKnown

LEMMA StepNotesKnown ==
    ASSUME TypeOK, FadeInv, CallsAtFades, HandlerShape, Step, ~crashed', NotesKnown
    PROVE  NotesKnown'
<1>1. ASSUME NEW c \in Contexts PROVE AtButton(c)
  BY StepAtButton
<1>2. ASSUME NEW c \in Contexts PROVE KnownAt(c)' /\ RestsAt(c)'
  BY <1>1, StepKnown, StepRests DEF NotesKnown
<1>3. TimerSends'
  BY StepTimerSends DEF NotesKnown
<1> QED  BY <1>2, <1>3 DEF NotesKnown

LEMMA StepFromLife ==
    ASSUME Step
    PROVE  ~crashed
<1>1. ASSUME NEW c \in Contexts,
             \/ WillAppear(c) \/ WillDisappear(c)
             \/ \E p \in Payloads[c] : DidReceiveSettings(c, p)
      PROVE  ~crashed
  BY <1>1 DEF WillAppear, WillDisappear, DidReceiveSettings, Listening
<1>2. ASSUME NEW c \in Contexts, KeyDown(c) PROVE KeyIsPressed(c)
  BY <1>2 DEF KeyDown, KeyDownUnstored, KeyDownNoteOn, KeyDownCC, KeyDownCCFade,
              KeyDownProgramChange, KeyDownMMC, KeyDownNoteToggle, KeyDownCCToggle,
              KeyDownCCToggleFade
<1>3. ASSUME NEW c \in Contexts, KeyUp(c) PROVE KeyIsReleased(c)
  BY <1>3 DEF KeyUp, KeyUpSends, KeyUpCCFade, KeyUpOther
<1>4. ASSUME NEW c \in Contexts, KeyIsPressed(c) \/ KeyIsReleased(c) PROVE ~crashed
  BY <1>4 DEF KeyIsPressed, KeyIsReleased, Listening
<1>5. ASSUME NEW c \in Contexts, HandlerStep(c) PROVE ~crashed
  BY <1>5 DEF HandlerStep, ReverseFade, FadeButtonPressed, WriteFade, Calling
<1>6. UpdateTimer => ~crashed
  BY DEF UpdateTimer, TimerStart, TimerUpdate, TimerSend, TimerOk, TimerClear, TimerIs
<1>7. LockVisibleContexts => ~crashed
  BY DEF LockVisibleContexts, Listening
<1> QED  BY <1>1, <1>2, <1>3, <1>4, <1>5, <1>6, <1>7 DEF Step

\* In every state the settings of a button are saved ones or inserted defaults, a fade
\* is there for settings that were saved, and only controllers' fades are started.
THEOREM NotesInvariant == Spec => []NotesInv
<1>1. Init => NotesInv
  <2> SUFFICES ASSUME Init PROVE NotesKnown
    BY DEF NotesInv
  <2>1. ASSUME NEW c \in Contexts PROVE KnownAt(c) /\ RestsAt(c)
    BY NoTask DEF Init, KnownAt, Known, RestsAt, HasFade
  <2>2. TimerSends
    BY DEF Init, TimerSends
  <2> QED  BY <2>1, <2>2 DEF NotesKnown
<1>2. ButtonInv /\ KeysInv /\ NotesInv /\ [Next]_vars => NotesInv'
  <2> SUFFICES ASSUME ButtonInv, KeysInv, NotesInv, [Next]_vars PROVE NotesInv'
    OBVIOUS
  <2>1. CASE Next
    <3>1. TypeOK /\ FadeInv /\ CallsAtFades /\ HandlerShape
      BY InvParts DEF ButtonInv, KeysInv
    <3> QED  BY <2>1, <3>1, StepNotesKnown, StepFromLife DEF Next, NotesInv
  <2>2. CASE UNCHANGED vars
    BY <2>2 DEF vars, plugin, environment, NotesInv, NotesKnown, TimerSends, KnownAt, RestsAt,
       Task, Settled, HasFade
  <2> QED  BY <2>1, <2>2
<1> QED  BY <1>1, <1>2, ButtonInvariant, KeysInvariant, PTL DEF Spec

-----------------------------------------------------------------------------
(* The note of a button is the one it had, or one that was saved for it *)

Follow(c, r, s) ==
    /\ r # NoEntry
    /\ \E q \in ConfiguredFor[c] \cup {s} :
           TargetIn(r) = TargetIn(q) /\ r.noteOffMode = q.noteOffMode

Persists(c) == Stored(c) => Follow(c, storedButtonSettings'[c], storedButtonSettings[c])

LEMMA StateFields ==
    ASSUME NEW p \in ButtonSettings, NEW st \in {0, 1}, NEW r, r = [p EXCEPT !.state = st]
    PROVE  r # NoEntry /\ r.noteOffMode = p.noteOffMode /\ TargetIn(r) = TargetIn(p)
<1>1. r \in ButtonSettings
  BY DEF ButtonSettings
<1>2. r.noteOffMode = p.noteOffMode /\ TargetIn(r) = TargetIn(p)
  BY DEF ButtonSettings, TargetIn
<1> QED  BY <1>1, <1>2, ButtonAssumption

LEMMA StepPersists ==
    ASSUME TypeOK, NEW c \in Contexts, AtButton(c)
    PROVE  Persists(c)
<1> DEFINE s == storedButtonSettings[c]
           r == storedButtonSettings'[c]
<1> SUFFICES ASSUME s # NoEntry PROVE Follow(c, r, s)
  BY DEF Persists, Stored
<1>1. SettingsOf(s) = s /\ Follow(c, s, s)
  BY DEF SettingsOf, Follow
<1>2. ASSUME NEW p, NEW f, Renewed(c, p, f) PROVE Follow(c, p, s)
  BY <1>1, <1>2 DEF Renewed, Follow
<1>3. CASE LeftAlone(c) \/ ReleaseSends(c) \/ ReleaseFades(c) \/ CallGoes(c) \/ Ticks(c)
  <2>1. r = s
    BY <1>1, <1>3 DEF LeftAlone, ReleaseSends, ReleaseFades, CallGoes, Ticks, Entries
  <2> QED  BY <1>1, <2>1
<1>4. CASE Configured(c) \/ PressFades(c) \/ PressToggles(c)
  <2>1. \E p, f : Renewed(c, p, f) /\ r = p
    BY <1>4 DEF Configured, PressFades, PressToggles, Entries
  <2> QED  BY <1>2, <2>1
<1>5. CASE PressSends(c)
  <2>1. PICK p, f : /\ Renewed(c, p, f) /\ p \in ButtonSettings
                    /\ r = p \/ \E st \in {0, 1} : r = [p EXCEPT !.state = st]
    BY <1>5 DEF PressSends, Entries
  <2>2. Follow(c, p, s)
    BY <1>2, <2>1
  <2>3. r # NoEntry /\ r.noteOffMode = p.noteOffMode /\ TargetIn(r) = TargetIn(p)
    BY <2>1, <2>2, StateFields DEF Follow
  <2> HIDE DEF r, s
  <2> QED  BY <2>2, <2>3 DEF Follow
<1> QED  BY <1>3, <1>4, <1>5 DEF AtButton

\* What ends the process are settings that are stored for some button.
LEMMA LastStepPersists ==
    ASSUME TypeOK, Step, crashed', NEW c \in Contexts
    PROVE  Persists(c)
<1> DEFINE s == storedButtonSettings[c]
<1>1. ASSUME NEW b \in Contexts, NEW p \in Payloads[b],
             storedButtonSettings' = [storedButtonSettings EXCEPT ![b] = NewSettings(p, @)]
      PROVE  Persists(c)
  <2>1. \/ storedButtonSettings'[c] = s
        \/ storedButtonSettings'[c] = SettingsFrom(p) /\ b = c /\ ~Malformed(p)
    BY <1>1 DEF TypeOK, NewSettings
  <2>2. ~Malformed(p) => SettingsFrom(p) # NoEntry
    BY PayloadAssumption, ButtonAssumption
  <2>3. ~Malformed(p) /\ b = c => SettingsFrom(p) \in ConfiguredFor[c]
    BY DEF ConfiguredFor
  <2> QED  BY <2>1, <2>2, <2>3 DEF Persists, Follow, Stored
<1>2. ASSUME NEW b \in Contexts,
             WillAppear(b) \/ KeyDownUnstored(b) \/ \E p \in Payloads[b] : DidReceiveSettings(b, p)
      PROVE  Persists(c)
  <2>1. saved[b] \in Payloads[b]
    BY DEF TypeOK
  <2> QED  BY <1>1, <1>2, <2>1 DEF WillAppear, KeyDownUnstored, DidReceiveSettings,
                                   StoreButtonSettings
<1>3. ASSUME NEW b \in Contexts, WillDisappear(b) \/ KeyUp(b) \/ HandlerStep(b)
      PROVE  UNCHANGED crashed
  BY <1>3 DEF WillDisappear, KeyUp, KeyUpSends, KeyUpCCFade, KeyUpOther, KeyIsReleased,
              HandlerStep, ReverseFade, FadeButtonPressed, WriteFade, Goes
<1>4. ASSUME NEW b \in Contexts, KeyDown(b), ~KeyDownUnstored(b) PROVE UNCHANGED crashed
  BY <1>4 DEF KeyDown, KeyDownNoteOn, KeyDownCC, KeyDownCCFade, KeyDownProgramChange, KeyDownMMC,
              KeyDownNoteToggle, KeyDownCCToggle, KeyDownCCToggleFade, KeyDownSends, KeyDownFades
<1>5. LockVisibleContexts \/ UpdateTimer => UNCHANGED crashed
  BY DEF LockVisibleContexts, UpdateTimer, TimerStart, TimerUpdate, TimerSend, TimerOk,
         TimerClear, plugin
<1> QED  BY <1>2, <1>3, <1>4, <1>5, StepFromLife DEF Step

-----------------------------------------------------------------------------
(* A note that only one button can play sounds while that button holds it *)

IsNoteOf(c, n) == Stored(c) /\ TargetOf(c) = n

ToggleHolds(c, n) ==
    ActionOf[c] = "NOTE_ON_TOGGLE" /\ c \notin InMultiAction /\ TargetsFor[c] = {n} /\ OnlyAt(c, n)
    => (n \in sounding => IsNoteOf(c, n) /\ NextState(c) = 1)

EndsOnKeyUp(s) == s.noteOffMode = 2

KeyHolds(c, n) ==
    /\ ActionOf[c] = "NOTE_ON" /\ TargetsFor[c] = {n} /\ OnlyAt(c, n)
    /\ \A s \in ConfiguredFor[c] : EndsOnKeyUp(s)
    => (n \in sounding => /\ c \in held /\ IsNoteOf(c, n)
                          /\ EndsOnKeyUp(storedButtonSettings[c]))

NotesHeld == \A c \in Contexts, n \in NoteOns \X (0..255) : ToggleHolds(c, n) /\ KeyHolds(c, n)

\* The note of a button stays its note.
LEMMA NoteStays ==
    ASSUME NEW c \in Contexts, NEW n, TargetsFor[c] = {n}, Persists(c), IsNoteOf(c, n)
    PROVE  IsNoteOf(c, n)' /\ (/\ \A s \in ConfiguredFor[c] : EndsOnKeyUp(s)
                               /\ EndsOnKeyUp(storedButtonSettings[c])
                               => EndsOnKeyUp(storedButtonSettings'[c]))
<1> DEFINE s == storedButtonSettings[c]
           r == storedButtonSettings'[c]
<1>1. Follow(c, r, s) /\ TargetIn(s) = n
  BY DEF Persists, IsNoteOf, TargetOf
<1>2. PICK q \in ConfiguredFor[c] \cup {s} : TargetIn(r) = TargetIn(q) /\ r.noteOffMode = q.noteOffMode
  BY <1>1 DEF Follow
<1>3. q \in ConfiguredFor[c] => TargetIn(q) = n
  BY ConfiguredTarget
<1> HIDE DEF r
<1>4. TargetIn(r) = n /\ r # NoEntry
  BY <1>1, <1>2, <1>3 DEF Follow
<1>5. (\A p \in ConfiguredFor[c] : EndsOnKeyUp(p)) /\ EndsOnKeyUp(s) => EndsOnKeyUp(r)
  BY <1>2 DEF EndsOnKeyUp
<1> QED  BY <1>4, <1>5 DEF r, IsNoteOf, Stored, TargetOf

\* What a press that sends something sends, and keeps.
LEMMA PressNote ==
    ASSUME TypeOK, NEW c \in Contexts, KnownAt(c), ~StoreFails(c), NEW n, TargetsFor[c] = {n},
           Plays(<<Message(SettingsAt(c), SettingsAt(c).dataByte2)>>, n)
           \/ Plays(<<Message(SettingsAt(c), SettingsAt(c).dataByte2), Message(SettingsAt(c), 0)>>, n)
    PROVE  /\ SettingsAt(c) # NoEntry /\ TargetIn(SettingsAt(c)) = n
           /\ (\A s \in ConfiguredFor[c] : EndsOnKeyUp(s)) => EndsOnKeyUp(SettingsAt(c))
<1> DEFINE s == SettingsAt(c)
<1>1. s # NoEntry /\ \E f : Known(c, s, f)
  BY PressKnown
<1> HIDE DEF s
<1>2. ~Spares(s, s.dataByte2, n)
  BY SilentMessage, SilentPair DEF s
<1>3. FromSaved(c, s)
  BY <1>1, <1>2, QuietSpares DEF Known
<1>4. TargetIn(s) = n /\ ((\A p \in ConfiguredFor[c] : EndsOnKeyUp(p)) => EndsOnKeyUp(s))
  BY <1>3, ConfiguredTarget DEF FromSaved, EndsOnKeyUp
<1> QED  BY <1>1, <1>4 DEF s

LEMMA NoteEnded ==
    ASSUME NEW n \in NoteOns \X (0..255), NEW s, TargetIn(s) = n
    PROVE  n \notin Heard(sounding, <<Message(s, 0)>>)
<1>1. Byte(s.statusByte) \in NoteOns
  BY DEF TargetIn
<1> QED  BY <1>1, HeardEnd

LEMMA EndSpares ==
    ASSUME NEW n \in NoteOns \X (0..255), NEW s
    PROVE  ~Plays(<<Message(s, 0)>>, n)
<1>1. Spares(s, 0, n)
  BY DEF Spares, TargetIn, Byte
<1> QED  BY <1>1, SilentMessage

LEMMA ToggleStep ==
    ASSUME TypeOK, FadeInv, NotesKnown, Step, sounding' = Heard(sounding, wire'),
           NEW c \in Contexts, Persists(c), NEW n \in NoteOns \X (0..255), ToggleHolds(c, n)
    PROVE  ToggleHolds(c, n)'
<1> SUFFICES ASSUME ActionOf[c] = "NOTE_ON_TOGGLE", c \notin InMultiAction, TargetsFor[c] = {n},
                    OnlyAt(c, n), n \in sounding'
             PROVE  IsNoteOf(c, n)' /\ NextState(c)' = 1
  BY DEF ToggleHolds, OnlyAt, TargetsFor, ConfiguredFor
<1>1. n \in sounding => IsNoteOf(c, n) /\ NextState(c) = 1
  BY DEF ToggleHolds
<1>2. n \in sounding \/ Plays(wire', n)
  BY HeardPlays
<1>3. IsNoteOf(c, n) => IsNoteOf(c, n)'
  BY NoteStays
<1>4. keyState[c] \in {0, 1} /\ KnownAt(c)
  BY DEF TypeOK, NotesKnown
<1>5. CASE KeyDownUnstored(c)
  <2>1. n \in sounding
    BY <1>2, <1>5, SilentOthers DEF KeyDownUnstored
  <2> QED  BY <1>1, <1>5, <2>1 DEF KeyDownUnstored, StoreFails, StoreFirst, IsNoteOf, Stored
<1>6. ASSUME NEW st \in {0, 1}, KeyDownNoteToggle(c, st)
      PROVE  IsNoteOf(c, n)' /\ NextState(c)' = 1
  <2> DEFINE s == SettingsAt(c)
  <2>1. /\ ~StoreFails(c) /\ st = keyState[c] /\ c \notin held
        /\ wire' = <<Message(s, IF st = 0 THEN s.dataByte2 ELSE 0)>>
        /\ storedButtonSettings'[c] = [s EXCEPT !.state = st]
        /\ keyState' = keyState /\ c \in held'
    BY <1>6 DEF KeyDownNoteToggle, KeyDownSends, KeyIsPressed, ActsOn, TypeOK
  <2>2. n \in sounding => s = storedButtonSettings[c] /\ TargetIn(s) = n /\ keyState[c] = 1
    BY <1>1, <1>4, <2>1 DEF IsNoteOf, Stored, TargetOf, SettingsAt, StoreFirst, NextState
  <2> HIDE DEF s
  <2>3. CASE st = 0
    <3>1. wire' = <<Message(s, s.dataByte2)>>
      BY <2>1, <2>3
    <3>2. n \notin sounding
      BY <2>1, <2>2, <2>3
    <3>3. Plays(<<Message(s, s.dataByte2)>>, n)
      BY <1>2, <3>1, <3>2
    <3>4. s \in ButtonSettings
      BY <2>1, SettingsAtHand DEF s
    <3>5. TargetIn(s) = n
      BY <1>4, <2>1, <3>3, PressNote DEF s
    <3>6. IsNoteOf(c, n)'
      BY <2>1, <3>4, <3>5, StateFields DEF IsNoteOf, Stored, TargetOf
    <3>7. NextState(c)' = 1
      BY <2>1, <2>3 DEF NextState
    <3> QED  BY <3>6, <3>7
  <2>4. CASE st = 1
    <3>1. wire' = <<Message(s, 0)>>
      BY <2>1, <2>4
    <3>2. ~Plays(wire', n)
      BY <3>1, EndSpares
    <3>3. TargetIn(s) = n
      BY <1>2, <2>2, <3>2
    <3>4. n \notin Heard(sounding, wire')
      BY <3>1, <3>3, NoteEnded
    <3> QED  BY <3>4
  <2> QED  BY <2>3, <2>4
<1>7. CASE KeyUp(c)
  <2>1. /\ wire' = <<>> /\ c \in held /\ UNCHANGED storedButtonSettings
        /\ c \notin held' /\ keyState'[c] = 1 - keyState[c]
    BY <1>7 DEF KeyUp, KeyUpSends, KeyUpCCFade, KeyUpOther, KeyIsReleased, Toggles, TypeOK
  <2>2. IsNoteOf(c, n) /\ NextState(c) = 1
    BY <1>1, <1>2, <2>1, SilentOthers
  <2> QED  BY <1>3, <2>1, <2>2 DEF NextState
<1>8. CASE ~KeyDown(c) /\ ~KeyUp(c)
  <2>1. ~Plays(wire', n) /\ KeyStays(c)
    BY <1>8, OthersPlay DEF Fades, NotesKnown, TimerSends, TimerIs
  <2>2. IsNoteOf(c, n) /\ NextState(c) = 1
    BY <1>1, <1>2, <2>1
  <2> QED  BY <1>3, <2>1, <2>2 DEF NextState, KeyStays
<1>9. KeyDown(c) => KeyDownUnstored(c) \/ \E st \in {0, 1} : KeyDownNoteToggle(c, st)
  BY DEF KeyDown, KeyDownNoteOn, KeyDownCC, KeyDownCCFade, KeyDownProgramChange, KeyDownMMC,
         KeyDownCCToggle, KeyDownCCToggleFade
<1> QED  BY <1>5, <1>6, <1>7, <1>8, <1>9

LEMMA KeyStep ==
    ASSUME TypeOK, FadeInv, NotesKnown, Step, sounding' = Heard(sounding, wire'),
           NEW c \in Contexts, Persists(c), NEW n \in NoteOns \X (0..255), KeyHolds(c, n)
    PROVE  KeyHolds(c, n)'
<1> SUFFICES ASSUME ActionOf[c] = "NOTE_ON", TargetsFor[c] = {n}, OnlyAt(c, n),
                    \A s \in ConfiguredFor[c] : EndsOnKeyUp(s), n \in sounding'
             PROVE  c \in held' /\ IsNoteOf(c, n)' /\ EndsOnKeyUp(storedButtonSettings'[c])
  BY DEF KeyHolds, OnlyAt, TargetsFor, ConfiguredFor, EndsOnKeyUp
<1>1. n \in sounding => c \in held /\ IsNoteOf(c, n) /\ EndsOnKeyUp(storedButtonSettings[c])
  BY DEF KeyHolds
<1>2. n \in sounding \/ Plays(wire', n)
  BY HeardPlays
<1>3. IsNoteOf(c, n) /\ EndsOnKeyUp(storedButtonSettings[c])
      => IsNoteOf(c, n)' /\ EndsOnKeyUp(storedButtonSettings'[c])
  BY NoteStays
<1>4. KnownAt(c)
  BY DEF NotesKnown
<1>5. KeyDown(c) => c \notin held /\ c \in held'
  BY DEF KeyDown, KeyDownUnstored, KeyDownNoteOn, KeyDownCC, KeyDownCCFade,
     KeyDownProgramChange, KeyDownMMC, KeyDownNoteToggle, KeyDownCCToggle,
     KeyDownCCToggleFade, KeyIsPressed
<1>6. CASE KeyDownUnstored(c)
  BY <1>1, <1>2, <1>5, <1>6, SilentOthers DEF KeyDownUnstored, KeyDown
<1>7. CASE KeyDownNoteOn(c)
  <2> DEFINE s == SettingsAt(c)
  <2>1. /\ ~StoreFails(c) /\ storedButtonSettings'[c] = s
        /\ wire' = IF s.noteOffMode = 1 THEN <<Message(s, s.dataByte2), Message(s, 0)>>
                   ELSE <<Message(s, s.dataByte2)>>
    BY <1>7 DEF KeyDownNoteOn, KeyDownSends, TypeOK
  <2>2. n \notin sounding /\ c \in held'
    BY <1>1, <1>5, <1>7 DEF KeyDown
  <2> HIDE DEF s
  <2>3. \/ Plays(<<Message(s, s.dataByte2)>>, n)
        \/ Plays(<<Message(s, s.dataByte2), Message(s, 0)>>, n)
    BY <1>2, <2>1, <2>2
  <2>4. s # NoEntry /\ TargetIn(s) = n /\ EndsOnKeyUp(s)
    BY <1>4, <2>1, <2>3, PressNote DEF s
  <2> QED  BY <2>1, <2>2, <2>4 DEF IsNoteOf, Stored, TargetOf
<1>8. CASE KeyUp(c)
  <2> DEFINE s == storedButtonSettings[c]
  <2>1. wire' = ReleaseMessages("NOTE_ON", SettingsOf(s))
    BY <1>8 DEF KeyUp, KeyUpSends, KeyUpCCFade, KeyUpOther
  <2> HIDE DEF s
  <2>2. wire' = <<>> \/ wire' = <<Message(SettingsOf(s), 0)>>
    BY <2>1 DEF ReleaseMessages
  <2>3. ~Plays(wire', n)
    <3>1. ~Plays(<<Message(SettingsOf(s), 0)>>, n)
      BY EndSpares
    <3>2. ~Plays(<<>>, n)
      BY SilentOthers
    <3> QED  BY <2>2, <3>1, <3>2
  <2>4. s # NoEntry /\ TargetIn(s) = n /\ s.noteOffMode = 2
    BY <1>1, <1>2, <2>3 DEF IsNoteOf, Stored, TargetOf, EndsOnKeyUp, s
  <2>5. wire' = <<Message(s, 0)>>
    BY <2>1, <2>4 DEF ReleaseMessages, SettingsOf
  <2> QED  BY <2>4, <2>5, NoteEnded
<1>9. CASE ~KeyDown(c) /\ ~KeyUp(c)
  <2>1. ~Plays(wire', n) /\ KeyStays(c)
    BY <1>9, OthersPlay DEF Fades, NotesKnown, TimerSends, TimerIs
  <2> QED  BY <1>1, <1>2, <1>3, <2>1 DEF KeyStays
<1>10. KeyDown(c) => KeyDownUnstored(c) \/ KeyDownNoteOn(c)
  BY DEF KeyDown, KeyDownCC, KeyDownCCFade, KeyDownProgramChange, KeyDownMMC,
         KeyDownNoteToggle, KeyDownCCToggle, KeyDownCCToggleFade
<1> QED  BY <1>6, <1>7, <1>8, <1>9, <1>10

\* A note that only one button can play is never left over: KeyDownForAction starts it
\* and the next press, or the release, ends it with the settings it then finds.
THEOREM NotesHeldInvariant == Spec => []NotesHeld
<1>1. Init => NotesHeld
  BY DEF Init, NotesHeld, ToggleHolds, KeyHolds
<1>2. ButtonInv /\ KeysInv /\ NotesInv /\ NotesHeld /\ [Next]_vars => NotesHeld'
  <2> SUFFICES ASSUME ButtonInv, KeysInv, NotesInv, NotesHeld, [Next]_vars PROVE NotesHeld'
    OBVIOUS
  <2>1. CASE Next
    <3>1. Step /\ sounding' = Heard(sounding, wire') /\ ~crashed
      BY <2>1, StepFromLife DEF Next, Arrives
    <3>2. TypeOK /\ FadeInv /\ CallsAtFades /\ HandlerShape /\ NotesKnown
      BY <3>1, InvParts DEF ButtonInv, KeysInv, NotesInv
    <3>3. ASSUME NEW c \in Contexts PROVE Persists(c)
      BY <3>1, <3>2, StepAtButton, StepPersists, LastStepPersists
    <3>4. ASSUME NEW c \in Contexts, NEW n \in NoteOns \X (0..255)
          PROVE  ToggleHolds(c, n)' /\ KeyHolds(c, n)'
      <4>1. ToggleHolds(c, n) /\ KeyHolds(c, n)
        BY DEF NotesHeld
      <4> QED  BY <3>1, <3>2, <3>3, <4>1, ToggleStep, KeyStep
    <3> QED  BY <3>4 DEF NotesHeld, NoteOns
  <2>2. CASE UNCHANGED vars
    <3>1. UNCHANGED <<storedButtonSettings, held, keyState, sounding>>
      BY <2>2 DEF vars, plugin, environment
    <3>2. ASSUME NEW c \in Contexts, NEW n \in NoteOns \X (0..255)
          PROVE  ToggleHolds(c, n)' /\ KeyHolds(c, n)'
      <4>1. ToggleHolds(c, n) /\ KeyHolds(c, n)
        BY DEF NotesHeld
      <4>2. ToggleHolds(c, n)'
        BY <3>1, <4>1 DEF ToggleHolds, NextState, IsNoteOf, Stored, TargetOf, OnlyAt
      <4>3. KeyHolds(c, n)'
        BY <3>1, <4>1 DEF KeyHolds, IsNoteOf, Stored, TargetOf, EndsOnKeyUp, OnlyAt
      <4> QED  BY <4>2, <4>3
    <3> QED  BY <3>2 DEF NotesHeld, NoteOns
  <2> QED  BY <2>1, <2>2
<1> QED  BY <1>1, <1>2, ButtonInvariant, KeysInvariant, NotesInvariant, PTL DEF Spec

LEMMA NoteSounds ==
    ASSUME TypeOK, NEW c \in Contexts, KeepsItsNote(c), TargetOf(c) \in sounding
    PROVE  /\ TargetOf(c) \in NoteOns \X (0..255)
           /\ TargetsFor[c] = {TargetOf(c)} /\ OnlyAt(c, TargetOf(c))
BY DEF TypeOK, NoteOns, KeepsItsNote, HasItsOwnTarget, OnlyAt

\* A toggle button starts its note in one state and ends it in the other, and the
\* state is the application's, which the plugin reads at each press: whatever the
\* other buttons and the timer thread send in between, a note that sounds is one
\* that the next press ends.
THEOREM ToggleEnds == Spec => []ToggleEndsItsNote
<1>1. ButtonInv /\ NotesHeld => ToggleEndsItsNote
  <2> SUFFICES ASSUME ButtonInv, NotesHeld, NEW c \in Contexts, ActionOf[c] = "NOTE_ON_TOGGLE",
                      c \notin InMultiAction, KeepsItsNote(c), TargetOf(c) \in sounding
               PROVE  NextState(c) = 1
    BY DEF ToggleEndsItsNote
  <2>1. /\ TargetOf(c) \in NoteOns \X (0..255)
        /\ TargetsFor[c] = {TargetOf(c)} /\ OnlyAt(c, TargetOf(c))
    BY NoteSounds DEF ButtonInv
  <2>2. ToggleHolds(c, TargetOf(c))
    BY <2>1 DEF NotesHeld
  <2> QED  BY <2>1, <2>2 DEF ToggleHolds
<1> QED  BY <1>1, ButtonInvariant, NotesHeldInvariant, PTL

\* A button that ends its note when its key is released never leaves it sounding:
\* the settings the release reads still are ones that end the note, and nothing
\* else has started the note again.
THEOREM NoteEnds == Spec => []NoteEndsWithKey
<1>1. ButtonInv /\ NotesHeld => NoteEndsWithKey
  <2> SUFFICES ASSUME ButtonInv, NotesHeld, NEW c \in Contexts \ held, ActionOf[c] = "NOTE_ON",
                      KeepsItsNote(c), \A s \in ConfiguredFor[c] : s.noteOffMode = 2,
                      TargetOf(c) \in sounding
               PROVE  FALSE
    BY DEF NoteEndsWithKey
  <2>1. /\ TargetOf(c) \in NoteOns \X (0..255)
        /\ TargetsFor[c] = {TargetOf(c)} /\ OnlyAt(c, TargetOf(c))
    BY NoteSounds DEF ButtonInv
  <2>2. KeyHolds(c, TargetOf(c))
    BY <2>1 DEF NotesHeld
  <2> QED  BY <2>1, <2>2 DEF KeyHolds, EndsOnKeyUp
<1> QED  BY <1>1, ButtonInvariant, NotesHeldInvariant, PTL

-----------------------------------------------------------------------------
(* The controller of a fading button is where its fade is *)

AsksAt(c) == FadesByToggle(c) \/ FadesByKey(c)

\* The fade has moved the controller, or is about to.
HasMoved(f, lost) == f.currentValue # 0 \/ (f.currentIndex > 0 /\ ~lost)

FollowsItsFade(c) ==
    LET f == storedFadeSettings[c]
    IN  /\ AsksAt(c) /\ TargetOf(c)[1] \in ControlChanges /\ HasItsOwnTarget(c)
        /\ ~AboutToSend(c) /\ HasMoved(f, overtaken)
        => Message(storedButtonSettings[c], f.currentValue) \in controllers

\* The fade of a button whose mode has none never moves; and the fade that a release
\* has found running still runs when it is turned, unless it was overtaken.
RunsWhenTurned(c) ==
    FadesByKey(c) =>
        LET f == storedFadeSettings[c]
        IN  /\ storedButtonSettings[c].ccMode \notin FadeModes => f.currentValue = 0
            /\ Task(c) = "ReverseFade" => f.fadeActive \/ overtaken

\* The calls of a handler that do not send a fade back from its end.
LEMMA CallsKeepPlace ==
    ASSUME NEW f \in FadeSets, NEW h,
           h = f \/ h = SetReverse(f) \/ \E active \in BOOLEAN : h = SetActive(f, active)
    PROVE  h.currentValue = f.currentValue /\ h.currentIndex = f.currentIndex
<1>1. CASE h = f \/ h = SetReverse(f)
  BY <1>1, ReverseFields DEF SamePlace
<1>2. ASSUME NEW active \in BOOLEAN, h = SetActive(f, active)
      PROVE  h.currentValue = f.currentValue /\ h.currentIndex = f.currentIndex
  BY <1>2, ActiveFields DEF SamePlace
<1> QED  BY <1>1, <1>2

LEMMA StepRunsWhenTurned ==
    ASSUME TypeOK, FadesMatch, NEW c \in Contexts, AtButton(c), overtaken => overtaken',
           FollowsItsKey(c), RunsWhenTurned(c)
    PROVE  RunsWhenTurned(c)'
<1> DEFINE s == storedButtonSettings[c]
           f == storedFadeSettings[c]
           r == storedButtonSettings'[c]
           h == storedFadeSettings'[c]
           Still(p, g) == p.ccMode \notin FadeModes => g.currentValue = 0
<1> SUFFICES ASSUME ActionOf[c] = "CC", r # NoEntry, AsksFade(r)
             PROVE  Still(r, h) /\ (Task(c)' = "ReverseFade" => h.fadeActive \/ overtaken')
  BY DEF RunsWhenTurned, FadesByKey, Stored, AsksFade
<1>1. ASSUME s # NoEntry, AsksFade(s)
      PROVE  /\ Still(s, f) /\ (Task(c) = "ReverseFade" => f.fadeActive \/ overtaken)
             /\ f \in FadeSets /\ f # NoEntry
             /\ s.ccMode \notin FadeModes => ~f.fadeActive
  BY <1>1, FadeAskedFor
     DEF RunsWhenTurned, FollowsItsKey, Follows, FadesByKey, Stored, AsksFade, HasFade
<1>2. s \in ButtonSettings \cup {NoEntry}
  BY DEF TypeOK
<1>3. ASSUME NEW p, NEW g, Renewed(c, p, g), p # NoEntry, AsksFade(p)
      PROVE  Still(p, g) /\ g # NoEntry
  <2>1. CASE p = s /\ g = f
    BY <1>1, <1>3, <2>1
  <2>2. CASE Fresh(g)
    BY <2>2, ButtonAssumption DEF Fresh
  <2> QED  BY <1>3, <2>1, <2>2 DEF Renewed
<1>4. CASE LeftAlone(c)
  <2>1. PICK p \in {s, SettingsOf(s)} : r = p /\ Reported(f, h)
    BY <1>4, <1>1, ReportFields DEF LeftAlone, Entries, Reported
  <2>2. r = s
    BY <1>2, <2>1, AsksAsBefore
  <2>3. h.currentValue = f.currentValue /\ h.fadeActive = f.fadeActive
    BY <2>1 DEF Reported, SamePlace
  <2> QED  BY <1>1, <1>4, <2>2, <2>3 DEF LeftAlone
<1>5. CASE Configured(c)
  <2>1. PICK p, g : Renewed(c, p, g) /\ r = p /\ h = g
    BY <1>5 DEF Configured, Entries
  <2> QED  BY <1>3, <1>5, <2>1 DEF Configured
<1>6. CASE PressSends(c)
  <2>1. PICK p, g : /\ Renewed(c, p, g) /\ p \in ButtonSettings
                    /\ r = p \/ \E st \in {0, 1} : r = [p EXCEPT !.state = st]
                    /\ h = g
    BY <1>6 DEF PressSends, Entries
  <2>2. p # NoEntry
    BY <2>1, ButtonAssumption
  <2>3. r.toggleFade = p.toggleFade /\ r.fadeTime = p.fadeTime /\ r.ccMode = p.ccMode
    BY <2>1 DEF ButtonSettings
  <2>4. Still(p, g)
    BY <1>3, <2>1, <2>2, <2>3 DEF AsksFade
  <2> QED  BY <1>6, <2>1, <2>3, <2>4 DEF PressSends
<1>7. CASE PressFades(c)
  <2>0. PICK p, g : \E d \in DirectionValues : Renewed(c, p, g) /\ r = p /\ h = FadeOf(g, d)
    BY <1>7 DEF PressFades, Entries
  <2>1. PICK d \in DirectionValues : Renewed(c, p, g) /\ r = p /\ h = FadeOf(g, d)
    BY <2>0
  <2>2. h = g /\ Still(p, g)
    BY <1>3, <2>1, InsertedFade
  <2> QED  BY <1>7, <2>1, <2>2 DEF PressFades
<1>8. CASE ReleaseSends(c)
  <2>1. PICK p \in {s, SettingsOf(s)} : r = p /\ h = f
    BY <1>8 DEF ReleaseSends, Entries
  <2>2. r = s
    BY <1>2, <2>1, AsksAsBefore
  <2> QED  BY <1>1, <1>8, <2>1, <2>2 DEF ReleaseSends
<1>9. CASE ReleaseFades(c)
  <2>1. PICK d \in DirectionValues :
          /\ r = SettingsOf(s) /\ h = SetActive(FadeOf(f, d), TRUE) /\ r.ccMode \in FadeModes
    BY <1>9 DEF ReleaseFades, Entries
  <2>2. r = s
    BY <1>2, <2>1, AsksAsBefore
  <2>3. h.fadeActive
    BY <1>1, <2>1, <2>2, ActiveFields, InsertedFade
  <2> QED  BY <2>1, <2>3
<1>10. CASE CallGoes(c)
  <2>1. r = s /\ f \in FadeSets
    BY <1>10 DEF CallGoes, Entries
  <2>2. \/ h = f \/ h = SetReverse(f) \/ h = ReverseFromEnd(f)
        \/ \E active \in BOOLEAN : h = SetActive(f, active)
    BY <1>10 DEF CallGoes, Entries
  <2>3. h.currentValue = f.currentValue
    BY <2>1, <2>2, CallsKeepPlace, TurnedFields
  <2>4. Task(c)' # "ReverseFade"
    BY <1>10 DEF CallGoes, Done
  <2> QED  BY <1>1, <2>1, <2>3, <2>4
<1>11. CASE Ticks(c)
  <2>1. PICK g \in Int : /\ f \in FadeSets /\ h = UpdateFade(f, g)
                         /\ r = s /\ Task(c)' = Task(c)
    BY <1>11, ButtonAssumption DEF Ticks, Entries
  <2>2. (~Running(f) /\ h = f) \/ TickEnds(f, h) \/ TickMoves(f, g, h)
    BY <2>1, TickFields
  <2>3. s.ccMode \notin FadeModes => h = f
    BY <1>1, <2>1, <2>2 DEF TickEnds, TickMoves, Running
  <2>4. Running(f) /\ AtEnd(f) /\ Task(c) # "None" => overtaken'
    BY <1>11 DEF Ticks
  <2>5. Task(c) = "ReverseFade" => h.fadeActive \/ overtaken'
    <3>1. CASE TickEnds(f, h)
      BY <2>4, <3>1 DEF TickEnds
    <3>2. CASE TickMoves(f, g, h)
      BY <3>2 DEF TickMoves, Running
    <3>3. CASE h = f
      BY <1>1, <2>1, <3>3
    <3> QED  BY <2>2, <3>1, <3>2, <3>3
  <2> QED  BY <1>1, <2>1, <2>3, <2>5
<1>12. ~PressToggles(c)
  BY DEF PressToggles
<1> QED  BY <1>4, <1>5, <1>6, <1>7, <1>8, <1>9, <1>10, <1>11, <1>12 DEF AtButton

\* A tick that does not report a value has not changed it.
LEMMA SilentTick ==
    ASSUME NEW f \in FadeSets, NEW g \in Int, NEW lost, NEW lost1, lost => lost1,
           f.currentIndex \in 0..f.setSize, ~lost => Marks(f), ~Updated(f, g),
           HasMoved(UpdateFade(f, g), lost1)
    PROVE  HasMoved(f, lost) /\ UpdateFade(f, g).currentValue = f.currentValue
<1> DEFINE h == UpdateFade(f, g)
<1>1. h = f \/ TickEnds(f, h) \/ TickMoves(f, g, h)
  BY TickFields
<1>2. f.currentIndex \in Nat /\ f.setSize \in Nat /\ f.fromValue \in Int /\ f.toValue \in Int
  BY DEF FadeSets, TableSizes
<1>3. HasMoved(h, lost1)
  OBVIOUS
<1> HIDE DEF h
<1>4. CASE h = f
  BY <1>3, <1>4 DEF HasMoved, h
<1>5. CASE TickEnds(f, h)
  <2>1. SilentEnd(f)
    BY <1>5 DEF TickEnds, Updated
  <2>2. h.currentValue = f.currentValue /\ h.currentIndex = 0
    BY <1>5, <2>1 DEF TickEnds
  <2> QED  BY <1>3, <2>2 DEF HasMoved, h
<1>6. CASE TickMoves(f, g, h)
  <2>1. PrevValue(f) = Sample(f, g)
    BY <1>6 DEF TickMoves, Updated
  <2>2. h.currentValue = f.currentValue
    BY <1>6, <2>1 DEF TickMoves
  <2>3. ASSUME ~lost PROVE f.currentIndex > 0
    <3> SUFFICES ASSUME f.currentIndex = 0 PROVE FALSE
      BY <1>2
    <3>1. ~f.reverseFade /\ f.setSize > 0
      BY <1>2, <1>6 DEF TickMoves, AtEnd
    <3>2. Sample(f, g) = Entry(f, 0)
      BY <3>1 DEF Sample, InTable
    <3>3. Entry(f, 0) = IF f.currentDirection = "IN" THEN f.fromValue ELSE f.toValue
      BY <3>1, FirstEntry
    <3>4. PrevValue(f) = IF f.currentDirection = "IN" THEN f.fromValue - 1 ELSE f.toValue + 1
      BY <2>3, <3>1 DEF Marks, PrevValue
    <3> QED  BY <1>2, <2>1, <3>2, <3>3, <3>4
  <2> QED  BY <1>3, <2>2, <2>3 DEF HasMoved, h
<1> QED  BY <1>1, <1>4, <1>5, <1>6

\* Only settings that are stored and ticks that are reported change what is claimed
\* of a button's controller.
LEMMA StaysPut ==
    ASSUME TypeOK, FadeInv, FadesMatch, NEW c \in Contexts, AtButton(c), overtaken => overtaken',
           NeverTurned(c), KeepsMarks(c), RunsWhenTurned(c),
           AsksAt(c)', ~AboutToSend(c)', HasMoved(storedFadeSettings'[c], overtaken')
    PROVE  /\ AsksAt(c) /\ HasMoved(storedFadeSettings[c], overtaken)
           /\ TargetIn(storedButtonSettings'[c]) = TargetOf(c)
           /\ storedButtonSettings'[c].ccMode = storedButtonSettings[c].ccMode
           /\ storedFadeSettings'[c].currentValue = storedFadeSettings[c].currentValue
<1> DEFINE s == storedButtonSettings[c]
           f == storedFadeSettings[c]
           r == storedButtonSettings'[c]
           h == storedFadeSettings'[c]
           Kind == \/ ActionOf[c] = "CC_TOGGLE" /\ c \notin InMultiAction
                   \/ ActionOf[c] = "CC"
           Put(p, g) == /\ s # NoEntry /\ AsksFade(s) /\ HasMoved(f, overtaken)
                        /\ TargetIn(p) = TargetIn(s) /\ p.ccMode = s.ccMode
                        /\ g.currentValue = f.currentValue
<1>1. Kind /\ r # NoEntry /\ AsksFade(r)
  BY DEF AsksAt, FadesByToggle, FadesByKey, Stored, AsksFade
<1> SUFFICES Put(r, h)
  BY <1>1 DEF AsksAt, FadesByToggle, FadesByKey, Stored, AsksFade, TargetOf
<1>2. s \in ButtonSettings \cup {NoEntry} /\ f \in FadeSets \cup {NoEntry}
  BY DEF TypeOK
<1>3. ASSUME s # NoEntry, AsksFade(s)
      PROVE  f \in FadeSets /\ f # NoEntry /\ (~overtaken => Marks(f))
  <2>1. HasFade(c) /\ f \in FadeSets
    BY <1>3, FadeAskedFor DEF Stored
  <2>2. ~overtaken => InStep(c)
    BY <1>1, <1>3 DEF InStep, FadesByToggle, Stored, AsksFade
  <2> QED  BY <2>1, <2>2 DEF KeepsMarks, HasFade
<1>4. ASSUME NEW g, g.currentValue = f.currentValue, g.currentIndex = f.currentIndex,
             HasMoved(g, overtaken')
      PROVE  HasMoved(f, overtaken)
  BY <1>4 DEF HasMoved
<1>5. ASSUME NEW p, NEW g, Renewed(c, p, g), p # NoEntry, AsksFade(p), HasMoved(g, overtaken')
      PROVE  p = s /\ g = f /\ f # NoEntry /\ Put(p, g)
  <2>1. ~Fresh(g)
    BY <1>5 DEF Fresh, HasMoved
  <2>2. p = s /\ g = f
    BY <1>5, <2>1 DEF Renewed
  <2> QED  BY <1>3, <1>4, <1>5, <2>2
<1>6. HasMoved(h, overtaken')
  OBVIOUS
<1>7. ASSUME r = s, h.currentValue = f.currentValue, h.currentIndex = f.currentIndex
      PROVE  Put(r, h)
  BY <1>1, <1>4, <1>6, <1>7
<1>8. CASE LeftAlone(c)
  <2>1. PICK p \in {s, SettingsOf(s)} : r = p /\ Reported(f, h)
    BY <1>8, ReportFields DEF LeftAlone, Entries, Reported
  <2>2. r = s
    BY <1>1, <1>2, <2>1, AsksAsBefore
  <2> QED  BY <1>7, <2>1, <2>2 DEF Reported, SamePlace
<1>9. CASE Configured(c)
  <2>1. PICK p, g : Renewed(c, p, g) /\ r = p /\ h = g
    BY <1>9 DEF Configured, Entries
  <2> QED  BY <1>1, <1>5, <1>6, <2>1
<1>10. CASE PressSends(c)
  <2>1. PICK p, g : /\ Renewed(c, p, g) /\ p \in ButtonSettings
                    /\ r = p \/ \E st \in {0, 1} : r = [p EXCEPT !.state = st]
                    /\ h = g
    BY <1>10 DEF PressSends, Entries
  <2>2. p # NoEntry
    BY <2>1, ButtonAssumption
  <2>3. /\ r.toggleFade = p.toggleFade /\ r.fadeTime = p.fadeTime /\ r.ccMode = p.ccMode
        /\ TargetIn(r) = TargetIn(p)
    BY <2>1 DEF ButtonSettings, TargetIn
  <2>4. AsksFade(p)
    BY <1>1, <2>3 DEF AsksFade
  <2>5. Put(p, h)
    BY <1>5, <1>6, <2>1, <2>2, <2>4
  <2> QED  BY <2>3, <2>5
<1>11. CASE PressFades(c)
  <2>0. PICK p, g : \E d \in DirectionValues :
          Renewed(c, p, g) /\ p \in ButtonSettings /\ r = p /\ h = FadeOf(g, d)
    BY <1>11 DEF PressFades, Entries
  <2>1. PICK d \in DirectionValues :
          Renewed(c, p, g) /\ p \in ButtonSettings /\ r = p /\ h = FadeOf(g, d)
    BY <2>0
  <2>2. CASE g # NoEntry
    <3>1. h = g
      BY <2>1, <2>2, InsertedFade
    <3> QED  BY <1>1, <1>5, <1>6, <2>1, <3>1
  <2>3. CASE g = NoEntry
    <3>1. ~HasMoved(FadeOf(g, d), overtaken')
      BY <2>3 DEF FadeOf, DefaultFadeSet, HasMoved
    <3> QED  BY <1>6, <2>1, <3>1
  <2> QED  BY <2>2, <2>3
<1>12. CASE PressToggles(c)
  <2>0. PICK p, g : \E d \in DirectionValues : \E st \in {0, 1} :
          /\ Renewed(c, p, g) /\ FadeOf(g, d) \in FadeSets
          /\ r = p /\ h = ToggleFade(FadeOf(g, d), st)
    BY <1>12 DEF PressToggles, Entries
  <2>1. PICK d \in DirectionValues, st \in {0, 1} :
          /\ Renewed(c, p, g) /\ FadeOf(g, d) \in FadeSets
          /\ r = p /\ h = ToggleFade(FadeOf(g, d), st)
    BY <2>0
  <2> DEFINE k == FadeOf(g, d)
  <2>2. h.currentValue = k.currentValue /\ h.currentIndex = k.currentIndex
    <3> k \in FadeSets
      BY <2>1
    <3> HIDE DEF k
    <3>1. h = ToggleFade(k, st)
      BY <2>1 DEF k
    <3> QED  BY <3>1 DEF ToggleFade, FadeSets
  <2>3. HasMoved(k, overtaken')
    BY <1>6, <2>2 DEF HasMoved
  <2>4. CASE g # NoEntry
    <3>1. k = g
      BY <2>4, InsertedFade
    <3>2. Put(p, g)
      BY <1>1, <1>5, <2>1, <2>3, <3>1
    <3> QED  BY <2>1, <2>2, <3>1, <3>2
  <2>5. CASE g = NoEntry
    <3>1. ~HasMoved(k, overtaken')
      BY <2>5 DEF FadeOf, DefaultFadeSet, HasMoved
    <3> QED  BY <2>3, <3>1
  <2> QED  BY <2>4, <2>5
<1>13. CASE ReleaseSends(c)
  <2>1. PICK p \in {s, SettingsOf(s)} : r = p /\ h = f
    BY <1>13 DEF ReleaseSends, Entries
  <2>2. r = s
    BY <1>1, <1>2, <2>1, AsksAsBefore
  <2> QED  BY <1>7, <2>1, <2>2
<1>14. CASE ReleaseFades(c)
  <2>1. PICK d \in DirectionValues : r = SettingsOf(s) /\ h = SetActive(FadeOf(f, d), TRUE)
    BY <1>14 DEF ReleaseFades, Entries
  <2>2. r = s
    BY <1>1, <1>2, <2>1, AsksAsBefore
  <2>3. f \in FadeSets /\ FadeOf(f, d) = f
    BY <1>1, <1>3, <2>2, InsertedFade
  <2>4. h.currentValue = f.currentValue /\ h.currentIndex = f.currentIndex
    BY <2>1, <2>3, CallsKeepPlace
  <2> QED  BY <1>7, <2>2, <2>4
<1>15. CASE CallGoes(c)
  <2>1. r = s /\ f \in FadeSets
    BY <1>15 DEF CallGoes, Entries
  <2>2. \/ h = f \/ h = SetReverse(f) \/ \E active \in BOOLEAN : h = SetActive(f, active)
        \/ h = ReverseFromEnd(f) /\ Task(c) = "ReverseFade" /\ ~f.fadeActive
    BY <1>15 DEF CallGoes, Entries
  <2>3. CASE h = ReverseFromEnd(f) /\ Task(c) = "ReverseFade" /\ ~f.fadeActive
    <3>1. FadesByKey(c)
      BY <1>1, <2>1, <2>3 DEF NeverTurned, FadesByKey, Stored, AsksFade
    <3>2. overtaken
      BY <2>3, <3>1 DEF RunsWhenTurned
    <3>3. h.currentValue = f.currentValue
      BY <2>1, <2>3, TurnedFields
    <3>4. HasMoved(f, overtaken)
      BY <1>6, <3>2, <3>3 DEF HasMoved
    <3> QED  BY <1>1, <2>1, <3>3, <3>4
  <2>4. CASE h = f \/ h = SetReverse(f) \/ \E active \in BOOLEAN : h = SetActive(f, active)
    <3>1. h.currentValue = f.currentValue /\ h.currentIndex = f.currentIndex
      BY <2>1, <2>4, CallsKeepPlace
    <3> QED  BY <1>7, <2>1, <3>1
  <2> QED  BY <2>2, <2>3, <2>4
<1>16. CASE Ticks(c)
  <2>1. PICK g \in Int : /\ r = s /\ f \in FadeSets /\ h = UpdateFade(f, g)
                         /\ Updated(f, g) => AboutToSend(c)'
    BY <1>16, ButtonAssumption DEF Ticks, Entries
  <2>2. f.currentIndex \in 0..f.setSize
    BY <2>1, ButtonAssumption DEF FadeInv, FadesGood, GoodEntry, GoodFade, IndexInTable
  <2>3. ~overtaken => Marks(f)
    BY <1>1, <1>3, <2>1
  <2>4. HasMoved(f, overtaken) /\ h.currentValue = f.currentValue
    BY <1>6, <2>1, <2>2, <2>3, SilentTick
  <2> QED  BY <1>1, <2>1, <2>4
<1> QED
  BY <1>8, <1>9, <1>10, <1>11, <1>12, <1>13, <1>14, <1>15, <1>16 DEF AtButton

\* A key of a button that fades starts or turns its fade, and sends nothing itself.
LEMMA FadingKeySilent ==
    ASSUME NEW c \in Contexts, KeyDown(c) \/ KeyUp(c), AsksAt(c),
           FadesByKey(c) => storedButtonSettings[c].ccMode \in FadeModes
    PROVE  wire' = <<>>
<1> DEFINE s == storedButtonSettings[c]
<1>1. /\ s # NoEntry /\ s.toggleFade /\ SettingsAt(c) = s /\ SettingsOf(s) = s /\ ~StoreFails(c)
      /\ ActionOf[c] = "CC_TOGGLE" \/ (ActionOf[c] = "CC" /\ s.ccMode \in FadeModes)
  BY DEF AsksAt, FadesByToggle, FadesByKey, Stored, SettingsAt, SettingsOf, StoreFails, StoreFirst
<1> HIDE DEF s
<1>2. CASE KeyDown(c)
  <2>1. KeyDownUnstored(c) \/ KeyDownCCFade(c) \/ \E st \in {0, 1} : KeyDownCCToggleFade(c, st)
    BY <1>1, <1>2 DEF KeyDown, KeyDownNoteOn, KeyDownCC, KeyDownProgramChange, KeyDownMMC,
                      KeyDownNoteToggle, KeyDownCCToggle
  <2> QED  BY <2>1 DEF KeyDownUnstored, KeyDownCCFade, KeyDownCCToggleFade, KeyDownFades
<1>3. CASE KeyUp(c)
  BY <1>1, <1>3 DEF KeyUp, KeyUpSends, KeyUpCCFade, KeyUpOther, s
<1> QED  BY <1>2, <1>3

\* So only the timer thread, at the button's fade, moves a controller of its own.
LEMMA OthersMove ==
    ASSUME TypeOK, FadeInv, NotesKnown, Step, NEW c \in Contexts, AsksAt(c), HasItsOwnTarget(c),
           FadesByKey(c) => storedButtonSettings[c].ccMode \in FadeModes,
           ~(TimerSend /\ timer.it = c)
    PROVE  ~Plays(wire', TargetOf(c))
<1>1. CASE KeyDown(c) \/ KeyUp(c)
  BY <1>1, FadingKeySilent, SilentOthers
<1>2. CASE ~KeyDown(c) /\ ~KeyUp(c) /\ (TimerIs("send") => timer.it # c)
  BY <1>2, OthersPlay DEF NotesKnown, HasItsOwnTarget, OnlyAt
<1>3. CASE TimerIs("send") /\ timer.it = c /\ ~KeyDown(c) /\ ~KeyUp(c)
  <2>1. ~UpdateTimer
    BY <1>3 DEF UpdateTimer, TimerStart, TimerUpdate, TimerSend, TimerOk, TimerClear, TimerIs
  <2>2. ASSUME NEW d \in Contexts, d # c, KeyDown(d) PROVE ~Plays(wire', TargetOf(c))
    BY <2>2, PressPlays DEF NotesKnown, HasItsOwnTarget
  <2>3. ASSUME NEW d \in Contexts, d # c, KeyUp(d) PROVE ~Plays(wire', TargetOf(c))
    BY <2>3, ReleasePlays DEF NotesKnown, HasItsOwnTarget
  <2>4. ASSUME NEW d \in Contexts,
               \/ WillAppear(d) \/ WillDisappear(d) \/ HandlerStep(d)
               \/ \E p \in Payloads[d] : DidReceiveSettings(d, p)
        PROVE  wire' = <<>>
    BY <2>4 DEF WillAppear, WillDisappear, DidReceiveSettings, HandlerStep, ReverseFade,
                FadeButtonPressed, WriteFade, Goes
  <2>5. LockVisibleContexts => wire' = <<>>
    BY DEF LockVisibleContexts
  <2> QED  BY <1>3, <2>1, <2>2, <2>3, <2>4, <2>5, SilentOthers DEF Step
<1> QED  BY <1>1, <1>2, <1>3

\* A controller that no message moves stays; one that a message moves follows it.
LEMMA StaysTurned ==
    ASSUME NEW positions, NEW messages, NEW s, NEW v, Byte(s.statusByte) \in ControlChanges,
           Message(s, v) \in positions, ~Plays(messages, TargetIn(s))
    PROVE  Message(s, v) \in Turned(positions, messages)
<1> DEFINE m == Message(s, v)
<1>1. m[1] = Byte(s.statusByte) /\ TargetIn(s) = <<m[1], m[2]>>
  BY DEF Message, TargetIn
<1> HIDE DEF m
<1>2. ASSUME NEW i \in DOMAIN messages, Len(messages[i]) = 3,
             messages[i][1] \in ControlChanges
      PROVE  ~(m[1] = messages[i][1] /\ m[2] = messages[i][2])
  BY <1>1, <1>2 DEF Plays, NoteOns, ControlChanges
<1>3. m \in Turned(positions, messages)
  BY <1>2 DEF Turned, m
<1> QED  BY <1>3 DEF m

LEMMA TurnedBy ==
    ASSUME NEW positions, NEW s, NEW v, Byte(s.statusByte) \in ControlChanges
    PROVE  Message(s, v) \in Turned(positions, <<Message(s, v)>>)
<1> DEFINE m == Message(s, v)
           w == <<m>>
<1>1. Len(m) = 3 /\ m[1] = Byte(s.statusByte) /\ m = <<m[1], m[2], m[3]>>
  BY DEF Message
<1> HIDE DEF m
<1>2. DOMAIN w = {1} /\ w[1] = m
  OBVIOUS
<1> HIDE DEF w
<1>3. m \in Turned(positions, w)
  BY <1>1, <1>2 DEF Turned
<1> QED  BY <1>3 DEF w, m

\* A step leaves the value that is to be sent next for the step that sends it.
LEMMA SendsNext ==
    ASSUME Step, NEW c \in Contexts, AboutToSend(c), ~AboutToSend(c)'
    PROVE  TimerSend
<1>1. ~UNCHANGED timer
  BY DEF AboutToSend
<1>2. UpdateTimer
  BY <1>1, TimerStays
<1> QED  BY <1>2 DEF AboutToSend, UpdateTimer, TimerStart, TimerUpdate, TimerOk, TimerClear, TimerIs

LEMMA StepFollowsFade ==
    ASSUME TypeOK, FadeInv, FadesMatch, NotesKnown, Step, NEW c \in Contexts, AtButton(c),
           overtaken => overtaken', controllers' = Turned(controllers, wire'),
           NeverTurned(c), FollowsItsKey(c), KeepsMarks(c), RunsWhenTurned(c),
           RunsWhenTurned(c)', FollowsItsFade(c)
    PROVE  FollowsItsFade(c)'
<1> DEFINE s == storedButtonSettings[c]
           f == storedFadeSettings[c]
           r == storedButtonSettings'[c]
           h == storedFadeSettings'[c]
<1> SUFFICES ASSUME AsksAt(c)', TargetIn(r)[1] \in ControlChanges, HasItsOwnTarget(c)',
                    ~AboutToSend(c)', HasMoved(h, overtaken')
             PROVE  Message(r, h.currentValue) \in controllers'
  BY DEF FollowsItsFade, TargetOf
<1>1. Byte(r.statusByte) \in ControlChanges
  BY DEF TargetIn
<1>2. /\ AsksAt(c) /\ HasMoved(f, overtaken)
      /\ TargetIn(r) = TargetIn(s) /\ r.ccMode = s.ccMode /\ h.currentValue = f.currentValue
  BY StaysPut DEF TargetOf
<1>3. CASE TimerSend /\ timer.it = c
  <2>1. s # NoEntry /\ r # NoEntry
    BY <1>2 DEF AsksAt, FadesByToggle, FadesByKey, Stored
  <2>2. wire' = <<Message(s, f.currentValue)>>
    BY <1>3, <2>1 DEF TimerSend, SettingsOf
  <2>3. Message(s, f.currentValue) = Message(r, h.currentValue)
    BY <1>2 DEF Message, TargetIn
  <2> QED  BY <1>1, <2>2, <2>3, TurnedBy
<1>4. CASE ~(TimerSend /\ timer.it = c)
  <2>1. ~AboutToSend(c)
    BY <1>4, SendsNext DEF AboutToSend
  <2>2. HasItsOwnTarget(c) /\ TargetOf(c) = TargetIn(r)
    BY <1>2 DEF HasItsOwnTarget, TargetOf, TargetsFor, ConfiguredFor
  <2>3. Message(s, f.currentValue) \in controllers
    BY <1>2, <2>1, <2>2 DEF FollowsItsFade
  <2>4. Message(s, f.currentValue) = Message(r, h.currentValue)
    BY <1>2 DEF Message, TargetIn
  <2>5. FadesByKey(c) => s.ccMode \in FadeModes
    <3>1. FadesByKey(c) /\ s.ccMode \notin FadeModes => f.currentValue = 0 /\ f.currentIndex = 0
      BY DEF RunsWhenTurned, FollowsItsKey, Follows
    <3> QED  BY <1>2, <3>1 DEF HasMoved
  <2>6. ~Plays(wire', TargetIn(r))
    BY <1>2, <1>4, <2>2, <2>5, OthersMove
  <2> QED  BY <1>1, <2>3, <2>4, <2>6, StaysTurned
<1> QED  BY <1>3, <1>4

ControllersFollow == \A c \in Contexts : RunsWhenTurned(c) /\ FollowsItsFade(c)

\* UpdateFade reports a value only when it differs from the one before, and the message
\* is put together afterwards, from maps that any handler may have changed.  A button
\* with a controller of its own still finds it where its fade is: a value that is not
\* reported is the one that was sent last, and nothing but the fade sends any other.
THEOREM ControllerFollows == Spec => []ControllerFollowsFade
<1> DEFINE Inv == crashed \/ ControllersFollow
<1>1. Init => Inv
  BY DEF Init, ControllersFollow, RunsWhenTurned, FollowsItsFade, AsksAt, FadesByToggle,
         FadesByKey, Stored
<1>2. ButtonInv /\ KeysInv /\ NotesInv /\ Inv /\ [Next]_vars => Inv'
  <2> SUFFICES ASSUME ButtonInv, KeysInv, NotesInv, Inv, [Next]_vars, ~crashed'
               PROVE  ControllersFollow'
    OBVIOUS
  <2>1. CASE Next
    <3>1. Step /\ controllers' = Turned(controllers, wire') /\ ~crashed
      BY <2>1, StepFromLife DEF Next, Arrives
    <3>2. /\ TypeOK /\ FadeInv /\ CallsAtFades /\ HandlerShape /\ FadesMatch /\ NotesKnown
          /\ \A c \in Contexts : FadesKeep(c) /\ RunsWhenTurned(c) /\ FollowsItsFade(c)
      BY <3>1, InvParts DEF ButtonInv, KeysInv, NotesInv, ControllersFollow
    <3>3. ASSUME NEW c \in Contexts PROVE RunsWhenTurned(c)' /\ FollowsItsFade(c)'
      <4>1. AtButton(c) /\ (overtaken => overtaken')
        BY <3>1, <3>2, StepAtButton
      <4>2. RunsWhenTurned(c)'
        BY <3>2, <4>1, StepRunsWhenTurned DEF FadesKeep
      <4> QED  BY <3>1, <3>2, <4>1, <4>2, StepFollowsFade DEF FadesKeep
    <3> QED  BY <3>3 DEF ControllersFollow
  <2>2. CASE UNCHANGED vars
    BY <2>2 DEF vars, plugin, environment, ControllersFollow, RunsWhenTurned, FollowsItsFade,
       AsksAt, FadesByToggle, FadesByKey, Stored, AboutToSend, TargetOf, HasItsOwnTarget, Task,
       Settled
  <2> QED  BY <2>1, <2>2
<1>3. Inv => ControllerFollowsFade
  BY DEF ControllersFollow, FollowsItsFade, ControllerFollowsFade, AsksAt, AboutToSend, HasMoved
<1> QED  BY <1>1, <1>2, <1>3, ButtonInvariant, KeysInvariant, NotesInvariant, PTL DEF Spec

-----------------------------------------------------------------------------
(* What has to come together for a table to be read beyond its end, and for the *)
(* websocket thread to stop.                                                     *)

TurnedReadsBeyond ==
    ~strayRead /\ strayRead'
    => /\ timer.pc = "update" /\ ActionOf[timer.it] = "CC"
       /\ storedFadeSettings[timer.it].reverseFade

LEMMA StepReadsBeyond ==
    ASSUME ButtonInv, KeysInv, NotesInv, Step
    PROVE  TurnedReadsBeyond
<1> SUFFICES ASSUME ~strayRead, strayRead'
             PROVE  /\ timer.pc = "update" /\ ActionOf[timer.it] = "CC"
                    /\ storedFadeSettings[timer.it].reverseFade
  BY DEF TurnedReadsBeyond
<1>1. TimerUpdate
  <2>1. ASSUME NEW c \in Contexts,
               \/ WillAppear(c) \/ WillDisappear(c) \/ KeyDown(c) \/ KeyUp(c) \/ HandlerStep(c)
               \/ \E p \in Payloads[c] : DidReceiveSettings(c, p)
        PROVE  UNCHANGED strayRead
    BY <2>1 DEF WillAppear, WillDisappear, DidReceiveSettings, KeyDown, KeyDownUnstored,
       KeyDownNoteOn, KeyDownCC, KeyDownCCFade, KeyDownProgramChange, KeyDownMMC,
       KeyDownNoteToggle, KeyDownCCToggle, KeyDownCCToggleFade, KeyIsPressed, KeyUp, KeyUpSends,
       KeyUpCCFade, KeyUpOther, KeyIsReleased, HandlerStep, ReverseFade, FadeButtonPressed,
       WriteFade, Goes
  <2>2. LockVisibleContexts \/ TimerStart \/ TimerSend \/ TimerOk \/ TimerClear
        => UNCHANGED strayRead
    BY DEF LockVisibleContexts, TimerStart, TimerSend, TimerOk, TimerClear
  <2> QED  BY <2>1, <2>2 DEF Step, UpdateTimer
<1> DEFINE c == timer.it
           f == storedFadeSettings[c]
<1>2. timer.pc = "update" /\ ~crashed /\ c \in Contexts /\ HasFade(c)
  BY <1>1, InvParts DEF ButtonInv, TypeOK, FadeInv, TimerAtFade, TimerUpdate, TimerIs
<1>3. f \in FadeSets /\ f.currentIndex \in 0..f.setSize /\ f.setSize \in Nat
  BY <1>2 DEF HasFade, ButtonInv, FadesGood, GoodEntry, GoodFade, IndexInTable, FadeSets, TableSizes
<1>4. StrayRead(f)
  <2>1. strayRead' = (strayRead \/ StrayRead(f))
    BY <1>1 DEF TimerUpdate
  <2> HIDE DEF f
  <2> QED  BY <2>1, Zenon
<1>5. ActionOf[c] \in {"CC", "CC_TOGGLE"}
  BY <1>2, <1>4 DEF NotesInv, NotesKnown, RestsAt, StrayRead, Running, Fades
<1>6. NeverTurned(c)
  BY <1>2 DEF KeysInv, FadesKeep
<1> HIDE DEF f
<1>7. f.reverseFade
  BY <1>3, <1>4 DEF StrayRead, AtEnd, InTable
<1> QED  BY <1>2, <1>5, <1>6, <1>7 DEF NeverTurned, f

\* UpdateFade reads an entry beyond its table on its way back only, and only the fade
\* of a momentary controller button is ever turned back.
THEOREM OnlyTurnedReadsBeyond == Spec => [][TurnedReadsBeyond]_vars
<1>1. ButtonInv /\ KeysInv /\ NotesInv /\ [Next]_vars => [TurnedReadsBeyond]_vars
  BY StepReadsBeyond DEF Next
<1> QED  BY <1>1, ButtonInvariant, KeysInvariant, NotesInvariant, PTL DEF Spec

NoMomentary == \A c \in Contexts : ActionOf[c] # "CC"

\* So without such a button every read is in its table, and no fade ever takes the
\* controller out of the range between its two values.
THEOREM TogglesReadInTable == NoMomentary => (Spec => [](ReadsInTable /\ ValueInRange))
<1> SUFFICES ASSUME NoMomentary PROVE Spec => [](ReadsInTable /\ ValueInRange)
  OBVIOUS
<1>1. Init => ReadsInTable
  BY DEF Init, ReadsInTable
<1>2. ButtonInv /\ ReadsInTable /\ [TurnedReadsBeyond]_vars => ReadsInTable'
  BY DEF TurnedReadsBeyond, NoMomentary, ReadsInTable, ButtonInv, TypeOK, vars
<1> QED  BY <1>1, <1>2, ButtonInvariant, OnlyTurnedReadsBeyond, RangeSafe, PTL DEF Spec

Storable == \A c \in Contexts : \A p \in Payloads[c] : ~StoreThrows(p)

\* WillAppearForAction leaves the mutex locked, and a later handler waits for it for
\* ever, only where something is saved that StoreButtonSettings throws at.
THEOREM StorableNeverBlocks == Storable => (Spec => [](ContextUnlocked /\ ~deadlocked))
<1> DEFINE Free == ContextUnlocked /\ ~deadlocked
<1> SUFFICES ASSUME Storable PROVE Spec => []Free
  OBVIOUS
<1>1. Init => Free
  BY DEF Init, ContextUnlocked
<1>2. ButtonInv /\ Free /\ [Next]_vars => Free'
  <2> SUFFICES ASSUME ButtonInv, Free, [Next]_vars PROVE Free'
    OBVIOUS
  <2>1. ASSUME UNCHANGED <<mVisibleContextsMutex, deadlocked>> PROVE Free'
    BY <2>1 DEF ContextUnlocked
  <2>2. ASSUME NEW c \in Contexts, WillAppear(c) PROVE Free'
    <3>1. ~StoreThrows(saved[c])
      BY DEF Storable, ButtonInv, TypeOK
    <3> QED  BY <2>2, <3>1 DEF WillAppear, ContextUnlocked
  <2>3. ASSUME NEW c \in Contexts,
               \/ WillDisappear(c) \/ KeyDown(c) \/ KeyUp(c) \/ HandlerStep(c)
               \/ \E p \in Payloads[c] : DidReceiveSettings(c, p)
        PROVE  UNCHANGED <<mVisibleContextsMutex, deadlocked>>
    BY <2>3 DEF WillDisappear, DidReceiveSettings, KeyDown, KeyDownUnstored,
       KeyDownNoteOn, KeyDownCC, KeyDownCCFade, KeyDownProgramChange, KeyDownMMC,
       KeyDownNoteToggle, KeyDownCCToggle, KeyDownCCToggleFade, KeyIsPressed, KeyUp, KeyUpSends,
       KeyUpCCFade, KeyUpOther, KeyIsReleased, HandlerStep, ReverseFade, FadeButtonPressed,
       WriteFade, Goes
  <2>4. UpdateTimer => UNCHANGED <<mVisibleContextsMutex, deadlocked>>
    BY DEF UpdateTimer, TimerStart, TimerUpdate, TimerSend, TimerOk, TimerClear, plugin
  <2>5. ~LockVisibleContexts
    BY DEF LockVisibleContexts, ContextUnlocked
  <2>6. UNCHANGED vars => UNCHANGED <<mVisibleContextsMutex, deadlocked>>
    BY DEF vars, plugin
  <2> QED  BY <2>1, <2>2, <2>3, <2>4, <2>5, <2>6 DEF Next, Step
<1> QED  BY <1>1, <1>2, ButtonInvariant, PTL DEF Spec

=============================================================================
