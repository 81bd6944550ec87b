------------------------ MODULE StreamDeckMidiButton ------------------------
(***************************************************************************)
(* The buttons of the plugin (StreamDeckMidiButton.cpp): the settings and  *)
(* the fades it stores for each button, the handlers of the Stream Deck's  *)
(* events, which the websocket thread runs one at a time, and UpdateTimer, *)
(* which the timer thread runs at every sample interval.  Handlers run     *)
(* between any two steps of UpdateTimer.                                   *)
(*                                                                         *)
(* The Stream Deck application is the environment: it keeps the settings   *)
(* the property inspector saved, shows the buttons and reports the keys.   *)
(***************************************************************************)
EXTENDS StoredSettings, Sequences

CONSTANTS
    Contexts,     \* the buttons, numbered in the order of their context strings
    ActionOf,     \* the action each button was created for
    InMultiAction,\* the buttons that are steps of a multi-action
    Payloads,     \* the settings the property inspector can save for each button
    Given,        \* the settings of all buttons the plugin can find when it starts
    Garbage,      \* what the memory beyond a table can hold
    NoEntry       \* no entry in a map

Toggles == {"NOTE_ON_TOGGLE", "CC_TOGGLE"}

\* The steps of ReverseFade and FadeButtonPressed; the timer thread may come
\* between any two of them.
Calls == {"ReverseFade", "SetReverse", "FadeButtonPressed", "Activate", "Deactivate"}

ASSUME ButtonAssumption ==
    /\ Contexts \subseteq Int
    /\ ActionOf \in [Contexts -> Actions]
    /\ InMultiAction \subseteq Contexts
    /\ Garbage \subseteq Int
    /\ NoEntry \notin ButtonSettings \cup FadeSets

VARIABLES
    storedButtonSettings, storedFadeSettings,  \* the maps, by context
    mVisibleContexts, mVisibleContextsMutex,   \* "free" or "held"
    deadlocked,    \* the websocket thread waits for a mutex it holds itself
    crashed,       \* the process is gone
    handler,       \* the calls the handler still has to make, and on whose fade
    timer,         \* where UpdateTimer is, and at which button
    saved,         \* the application: the settings it keeps for each button,
    keyState,      \* the state it shows for each button,
    held,          \* and the keys that are down
    wire,          \* the MIDI messages the last step sent
    sounding,      \* the notes the receiver of the messages holds
    controllers,   \* and the message that moved each of its controllers last
    strayRead,     \* history: a fade has read beyond its table
    overtaken      \* history: a fade has ended in the middle of a handler's work on it

plugin == <<storedButtonSettings, storedFadeSettings, mVisibleContexts,
            mVisibleContextsMutex, deadlocked, crashed, handler>>
environment == <<saved, keyState, held>>
vars == <<plugin, timer, environment, wire, sounding, controllers, strayRead, overtaken>>

\* What the maps, the threads and the application's record of the buttons range
\* over; what goes out on the wire is made of bytes, whatever was configured.
TypeOK ==
    /\ storedButtonSettings \in [Contexts -> ButtonSettings \cup {NoEntry}]
    /\ storedFadeSettings \in [Contexts -> FadeSets \cup {NoEntry}]
    /\ mVisibleContexts \subseteq Contexts
    /\ mVisibleContextsMutex \in {"free", "held"}
    /\ deadlocked \in BOOLEAN
    /\ crashed \in BOOLEAN
    /\ handler \in Seq([at : Contexts, call : Calls])
    /\ timer \in [pc : {"idle", "update", "send", "ok", "clear"}, it : Contexts]
    /\ saved \in [Contexts -> UNION {Payloads[c] : c \in Contexts}]
    /\ \A c \in Contexts : saved[c] \in Payloads[c]
    /\ keyState \in [Contexts -> {0, 1}]
    /\ held \subseteq Contexts
    /\ wire \in Seq(Seq(0..255))
    /\ sounding \subseteq (144..159) \X (0..255)
    /\ controllers \subseteq (176..191) \X (0..255) \X (0..255)
    /\ strayRead \in BOOLEAN
    /\ overtaken \in BOOLEAN

Init ==
    /\ storedButtonSettings = [c \in Contexts |-> NoEntry]
    /\ storedFadeSettings = [c \in Contexts |-> NoEntry]
    /\ mVisibleContexts = {}
    /\ mVisibleContextsMutex = "free"
    /\ deadlocked = FALSE
    /\ crashed = FALSE
    /\ handler = <<>>
    /\ timer \in [pc : {"idle"}, it : Contexts]
    /\ saved \in Given
    /\ keyState = [c \in Contexts |-> 0]
    /\ held = {}
    /\ wire = <<>>
    /\ sounding = {}
    /\ controllers = {}
    /\ strayRead = FALSE
    /\ overtaken = FALSE

-----------------------------------------------------------------------------
(* StoreButtonSettings *)

\* What is saved for a setting is a value of its type, or null.
ASSUME PayloadAssumption ==
    /\ \A c \in Contexts : \A p \in Payloads[c] : ~Malformed(p) => SettingsFrom(p) \in ButtonSettings
    /\ \A given \in Given :
           /\ given \in [Contexts -> UNION {Payloads[c] : c \in Contexts}]
           /\ \A c \in Contexts : given[c] \in Payloads[c]

\* The fade is stored at rest; only ccMode 2 and 3 give it a direction.
FadeFrom(s, direction) ==
    NewFadeSet(s.dataByte2, s.dataByte2Alt, s.fadeTime, s.fadeCurve,
               CASE s.ccMode = 2 -> "IN" [] s.ccMode = 3 -> "OUT" [] OTHER -> direction)

\* The entries of a button after StoreButtonSettings, given those before.
NewSettings(p, old) == IF Malformed(p) THEN old ELSE SettingsFrom(p)

\* Mutant: the insertion into the map leaves an entry that is there.
NewFade_InsertsOnly(p, old, direction) ==
    IF StoreThrows(p) \/ StoreCrashes(p) \/ ~SettingsFrom(p).toggleFade \/ old # NoEntry THEN old
    ELSE FadeFrom(SettingsFrom(p), direction)

NewFade(p, old, direction) ==
    IF StoreThrows(p) \/ StoreCrashes(p) \/ ~SettingsFrom(p).toggleFade THEN old
    ELSE FadeFrom(SettingsFrom(p), direction)

\* The fade of other modes keeps the direction the constructor has left unset.
LeavesDirection(p) ==
    ~Malformed(p) /\ Read(p, "ccMode") \notin FadeModes /\ SettingsFrom(p).toggleFade

StoreButtonSettings(c, p) ==
    \E direction \in DirectionValues :
        /\ direction = "IN" \/ LeavesDirection(p)     \* else nothing depends on it
        /\ storedButtonSettings' = [storedButtonSettings EXCEPT ![c] = NewSettings(p, @)]
        /\ storedFadeSettings' = [storedFadeSettings EXCEPT ![c] = NewFade(p, @, direction)]
        /\ crashed' = StoreCrashes(p)

-----------------------------------------------------------------------------
(* The websocket thread: the handlers of the application's events.  What a  *)
(* handler throws is caught and dropped by OnMessage.                       *)

Listening == handler = <<>> /\ ~deadlocked /\ ~crashed

\* WillAppearForAction holds the mutex while it stores the settings, and does
\* not release it when StoreButtonSettings throws.
WillAppear(c) ==
    /\ Listening /\ c \notin mVisibleContexts
    /\ mVisibleContextsMutex = "free"
    /\ mVisibleContexts' = mVisibleContexts \cup {c}
    /\ mVisibleContextsMutex' = IF StoreThrows(saved[c]) THEN "held" ELSE "free"
    /\ StoreButtonSettings(c, saved[c])
    /\ wire' = <<>>
    /\ UNCHANGED <<deadlocked, handler, timer, environment, strayRead, overtaken>>

WillDisappear(c) ==
    /\ Listening /\ c \in mVisibleContexts
    /\ mVisibleContextsMutex = "free"
    /\ mVisibleContexts' = mVisibleContexts \ {c}
    /\ wire' = <<>>
    /\ UNCHANGED <<storedButtonSettings, storedFadeSettings, mVisibleContextsMutex,
                   deadlocked, crashed, handler, timer, environment, strayRead, overtaken>>

\* Either handler waits for ever for a mutex its own thread still holds.
LockVisibleContexts ==
    /\ Listening
    /\ mVisibleContextsMutex = "held"
    /\ deadlocked' = TRUE
    /\ wire' = <<>>
    /\ UNCHANGED <<storedButtonSettings, storedFadeSettings, mVisibleContexts, handler,
                   mVisibleContextsMutex, crashed, timer, environment, strayRead, overtaken>>

\* The property inspector of a visible button saves settings.
DidReceiveSettings(c, p) ==
    /\ Listening /\ c \in mVisibleContexts
    /\ saved' = [saved EXCEPT ![c] = p]
    /\ StoreButtonSettings(c, p)
    /\ wire' = <<>>
    /\ UNCHANGED <<mVisibleContexts, mVisibleContextsMutex, deadlocked, handler, timer,
                   keyState, held, strayRead, overtaken>>

-----------------------------------------------------------------------------
(* MIDI messages.  An int is pushed into a vector of unsigned char.         *)

\* Mutant: the message keeps the int.
Byte_Wide(i) == i

Byte(i) == i % 256

Message(s, value) == <<Byte(s.statusByte), Byte(s.dataByte1), Byte(value)>>

\* map::operator[] puts a default entry where there is none.
SettingsOf(s) == IF s = NoEntry THEN DefaultSettings ELSE s
FadeOf(f, direction) == IF f = NoEntry THEN DefaultFadeSet(direction) ELSE f

-----------------------------------------------------------------------------
(* KeyDownForAction *)

KeyIsPressed(c) ==
    /\ Listening /\ c \in mVisibleContexts /\ c \notin held
    /\ held' = held \cup {c}
    /\ UNCHANGED <<mVisibleContexts, mVisibleContextsMutex, deadlocked, timer,
                   saved, keyState, strayRead, overtaken>>

\* A button without settings is given those of the event first.  Here that
\* throws, and the handler ends, or it is fatal.
StoreFirst(c) == storedButtonSettings[c] = NoEntry
StoreFails(c) == StoreFirst(c) /\ (StoreThrows(saved[c]) \/ StoreCrashes(saved[c]))

KeyDownUnstored(c) ==
    /\ KeyIsPressed(c)
    /\ StoreFails(c)
    /\ StoreButtonSettings(c, saved[c])
    /\ wire' = <<>>
    /\ UNCHANGED handler

\* The entries KeyDownForAction works on once the settings are there.
PressedSettings(c) == NewSettings(saved[c], storedButtonSettings[c])
PressedFade(c, direction) == NewFade(saved[c], storedFadeSettings[c], direction)

SettingsAt(c) == IF StoreFirst(c) THEN PressedSettings(c) ELSE storedButtonSettings[c]
FadeAt(c, direction) ==
    IF StoreFirst(c) THEN PressedFade(c, direction) ELSE storedFadeSettings[c]

\* KeyDownForAction sends messages and leaves s as the settings.
KeyDownSends(c, s, messages) ==
    /\ storedButtonSettings' = [storedButtonSettings EXCEPT ![c] = s]
    /\ \E direction \in DirectionValues :
           storedFadeSettings' = [storedFadeSettings EXCEPT ![c] = FadeAt(c, direction)]
    /\ wire' = messages
    /\ UNCHANGED <<crashed, handler>>

\* The call of a fade's method that is still to be made.
ToDo(c, call) == <<[at |-> c, call |-> call]>>

\* KeyDownForAction sends nothing; it leaves f as the fade and has calls to make.
KeyDownFades(c, f, calls) ==
    /\ storedButtonSettings' = [storedButtonSettings EXCEPT ![c] = SettingsAt(c)]
    /\ storedFadeSettings' = [storedFadeSettings EXCEPT ![c] = f]
    /\ handler' = calls
    /\ wire' = <<>>
    /\ UNCHANGED crashed

KeyDownNoteOn(c) ==
    /\ KeyIsPressed(c) /\ ~StoreFails(c) /\ ActionOf[c] = "NOTE_ON"
    /\ LET s == SettingsAt(c)
           noteOn == Message(s, s.dataByte2)
       IN  KeyDownSends(c, s, IF s.noteOffMode = 1 THEN <<noteOn, Message(s, 0)>>
                              ELSE <<noteOn>>)

\* The state a two-state button acts on: in a multi-action the one the user
\* chose for the step, else the one the application shows.
ActsOn(c, st) == IF c \in InMultiAction THEN st \in {0, 1} ELSE st = keyState[c]

\* Mutant: the note off is sent in the first state.
KeyDownNoteToggle_Swapped(c, st) ==
    /\ KeyIsPressed(c) /\ ~StoreFails(c) /\ ActionOf[c] = "NOTE_ON_TOGGLE"
    /\ ActsOn(c, st)
    /\ LET s == SettingsAt(c)
       IN  KeyDownSends(c, [s EXCEPT !.state = st],
                        <<Message(s, IF st = 1 THEN s.dataByte2 ELSE 0)>>)

KeyDownNoteToggle(c, st) ==
    /\ KeyIsPressed(c) /\ ~StoreFails(c) /\ ActionOf[c] = "NOTE_ON_TOGGLE"
    /\ ActsOn(c, st)
    /\ LET s == SettingsAt(c)
       IN  KeyDownSends(c, [s EXCEPT !.state = st],
                        <<Message(s, IF st = 0 THEN s.dataByte2 ELSE 0)>>)

\* A ccMode beyond the four of the inspector sends nothing.
KeyDownCC(c) ==
    /\ KeyIsPressed(c) /\ ~StoreFails(c) /\ ActionOf[c] = "CC"
    /\ SettingsAt(c).ccMode \notin FadeModes
    /\ LET s == SettingsAt(c)
       IN  KeyDownSends(c, s, IF s.ccMode \in {0, 1} THEN <<Message(s, s.dataByte2)>> ELSE <<>>)

KeyDownCCFade(c) ==
    /\ KeyIsPressed(c) /\ ~StoreFails(c) /\ ActionOf[c] = "CC"
    /\ SettingsAt(c).ccMode \in FadeModes
    /\ \E direction \in DirectionValues :
           KeyDownFades(c, FadeOf(FadeAt(c, direction), direction), ToDo(c, "FadeButtonPressed"))

KeyDownCCToggle(c, st) ==
    /\ KeyIsPressed(c) /\ ~StoreFails(c) /\ ActionOf[c] = "CC_TOGGLE"
    /\ ~SettingsAt(c).toggleFade
    /\ ActsOn(c, st)
    /\ LET s == SettingsAt(c)
       IN  KeyDownSends(c, [s EXCEPT !.state = st],
                        <<Message(s, IF st = 0 THEN s.dataByte2 ELSE s.dataByte2Alt)>>)

\* Mutant: the press that pauses a fade turns it as well.
ToggleFade_TurnsPaused(f, st) ==
    [f EXCEPT !.currentDirection = IF st = 0 THEN "IN" ELSE "OUT", !.fadeActive = TRUE]

\* Start or resume a fade that is found at rest.
ToggleFade(f, st) ==
    IF f.fadeActive THEN f
    ELSE [f EXCEPT !.currentDirection = IF st = 0 THEN "IN" ELSE "OUT",
                   !.fadeActive = TRUE]

\* A fade that is found running is paused; in a multi-action the branch goes on
\* to press the fade button once more.
TogglePresses(c, f) ==
    (IF f.fadeActive THEN ToDo(c, "FadeButtonPressed") ELSE <<>>)
        \o (IF c \in InMultiAction THEN ToDo(c, "FadeButtonPressed") ELSE <<>>)

KeyDownCCToggleFade(c, st) ==
    /\ KeyIsPressed(c) /\ ~StoreFails(c) /\ ActionOf[c] = "CC_TOGGLE"
    /\ SettingsAt(c).toggleFade
    /\ ActsOn(c, st)
    /\ \E direction \in DirectionValues :
           LET f == FadeOf(FadeAt(c, direction), direction)
           IN  KeyDownFades(c, ToggleFade(f, st), TogglePresses(c, f))

KeyDownProgramChange(c) ==
    /\ KeyIsPressed(c) /\ ~StoreFails(c) /\ ActionOf[c] = "PROGRAM_CHANGE"
    /\ LET s == SettingsAt(c)
       IN  KeyDownSends(c, s, << <<Byte(s.statusByte), Byte(s.dataByte1)>> >>)

KeyDownMMC(c) ==
    /\ KeyIsPressed(c) /\ ~StoreFails(c) /\ ActionOf[c] = "MMC"
    /\ LET s == SettingsAt(c)
       IN  KeyDownSends(c, s, << <<240, 127, 127, 6, Byte(s.dataByte5), 247>> >>)

KeyDown(c) ==
    \/ KeyDownUnstored(c)
    \/ KeyDownNoteOn(c)
    \/ KeyDownCC(c)
    \/ KeyDownCCFade(c)
    \/ KeyDownProgramChange(c)
    \/ KeyDownMMC(c)
    \/ \E st \in {0, 1} :
           KeyDownNoteToggle(c, st) \/ KeyDownCCToggle(c, st) \/ KeyDownCCToggleFade(c, st)

-----------------------------------------------------------------------------
(* KeyUpForAction.  The application switches a two-state button over when   *)
(* its key is released.                                                     *)

KeyIsReleased(c) ==
    /\ Listening /\ c \in held
    /\ held' = held \ {c}
    /\ keyState' = [keyState EXCEPT
           ![c] = IF ActionOf[c] \in Toggles /\ c \notin InMultiAction THEN 1 - @ ELSE @]
    /\ UNCHANGED <<mVisibleContexts, mVisibleContextsMutex, deadlocked, crashed,
                   timer, saved, strayRead, overtaken>>

\* Reading the settings through operator[] stores the defaults if need be.
KeyUpReadsSettings(c) ==
    storedButtonSettings' = [storedButtonSettings EXCEPT ![c] = SettingsOf(@)]

\* Mutant: the note off is sent in the mode that has sent it already.
ReleaseMessages_WrongMode(action, s) ==
    IF action = "NOTE_ON" /\ s.noteOffMode = 1 THEN <<Message(s, 0)>>
    ELSE IF action = "CC" /\ s.ccMode = 1 THEN <<Message(s, s.dataByte2Alt)>>
    ELSE <<>>

\* What a CC or NOTE ON button sends when it is released, if anything.
ReleaseMessages(action, s) ==
    IF action = "NOTE_ON" /\ s.noteOffMode = 2 THEN <<Message(s, 0)>>
    ELSE IF action = "CC" /\ s.ccMode = 1 THEN <<Message(s, s.dataByte2Alt)>>
    ELSE <<>>

KeyUpSends(c) ==
    /\ KeyIsReleased(c) /\ ActionOf[c] \in {"NOTE_ON", "CC"}
    /\ ActionOf[c] = "CC" => SettingsOf(storedButtonSettings[c]).ccMode \notin FadeModes
    /\ KeyUpReadsSettings(c)
    /\ wire' = ReleaseMessages(ActionOf[c], SettingsOf(storedButtonSettings[c]))
    /\ UNCHANGED <<storedFadeSettings, handler>>

KeyUpCCFade(c) ==
    /\ KeyIsReleased(c) /\ ActionOf[c] = "CC"
    /\ SettingsOf(storedButtonSettings[c]).ccMode \in FadeModes
    /\ KeyUpReadsSettings(c)
    /\ \E direction \in DirectionValues :
           LET f == FadeOf(storedFadeSettings[c], direction) IN
           /\ storedFadeSettings' = [storedFadeSettings EXCEPT ![c] = SetActive(f, TRUE)]
           /\ handler' = IF f.fadeActive THEN ToDo(c, "ReverseFade") ELSE <<>>
    /\ wire' = <<>>

KeyUpOther(c) ==
    /\ KeyIsReleased(c) /\ ActionOf[c] \notin {"NOTE_ON", "CC"}
    /\ wire' = <<>>
    /\ UNCHANGED <<storedButtonSettings, storedFadeSettings, handler>>

KeyUp(c) == KeyUpSends(c) \/ KeyUpCCFade(c) \/ KeyUpOther(c)

-----------------------------------------------------------------------------
(* The rest of a key's handler: the calls it makes on the fade.             *)

\* The next call is call, on the fade of button c ...
Calling(c, call) ==
    /\ ~crashed
    /\ handler # <<>> /\ Head(handler) = [at |-> c, call |-> call]

\* ... and leaves f as the fade, with first to do before the calls after it.
Goes(c, f, first) ==
    /\ handler' = first \o Tail(handler)
    /\ storedFadeSettings' = [storedFadeSettings EXCEPT ![c] = f]
    /\ wire' = <<>>
    /\ UNCHANGED <<storedButtonSettings, mVisibleContexts, mVisibleContextsMutex,
                   deadlocked, crashed, timer, environment, strayRead, overtaken>>

ReverseFade(c) ==
    /\ Calling(c, "ReverseFade")
    /\ LET f == storedFadeSettings[c]
       IN  IF f.fadeActive THEN Goes(c, f, ToDo(c, "SetReverse"))
           ELSE Goes(c, ReverseFromEnd(f), <<>>)

\* Mutant: pressing the button never pauses a fade.
FadeButtonPressed_Starts(c) ==
    /\ Calling(c, "FadeButtonPressed")
    /\ Goes(c, storedFadeSettings[c], ToDo(c, "Activate"))

FadeButtonPressed(c) ==
    /\ Calling(c, "FadeButtonPressed")
    /\ LET f == storedFadeSettings[c]
       IN  Goes(c, f, ToDo(c, IF f.fadeActive THEN "Deactivate" ELSE "Activate"))

WriteFade(c) ==
    \/ Calling(c, "SetReverse") /\ Goes(c, SetReverse(storedFadeSettings[c]), <<>>)
    \/ Calling(c, "Activate") /\ Goes(c, SetActive(storedFadeSettings[c], TRUE), <<>>)
    \/ Calling(c, "Deactivate") /\ Goes(c, SetActive(storedFadeSettings[c], FALSE), <<>>)

HandlerStep(c) == ReverseFade(c) \/ FadeButtonPressed(c) \/ WriteFade(c)

-----------------------------------------------------------------------------
(* The timer thread: UpdateTimer visits the fades in the order of the map.  *)

Fading == {c \in Contexts : storedFadeSettings[c] # NoEntry}

\* Mutant: the timer thread waits for the mutex of the visible contexts.
TimerIs_NeedsContexts(pc) == ~crashed /\ mVisibleContextsMutex = "free" /\ timer.pc = pc

TimerIs(pc) == ~crashed /\ timer.pc = pc

\* The iterator moves on from button c, to the end of the map or the next fade.
MoveOnFrom(c) ==
    \/ /\ \A d \in Fading : d <= c
       /\ timer' = [timer EXCEPT !.pc = "idle"]
    \/ \E d \in Fading :
           /\ d > c /\ \A e \in Fading : e > c => d <= e
           /\ timer' = [pc |-> "update", it |-> d]

TimerStart ==
    /\ TimerIs("idle")
    /\ \E d \in Fading :
           /\ \A e \in Fading : d <= e
           /\ timer' = [pc |-> "update", it |-> d]
    /\ wire' = <<>>
    /\ UNCHANGED <<plugin, environment, strayRead, overtaken>>

\* No handler is in the middle of its work on the fade of button c.
Settled(c) == handler = <<>> \/ Head(handler).at # c

TimerUpdate ==
    /\ TimerIs("update")
    /\ \E g \in Garbage :
           LET f == storedFadeSettings[timer.it] IN
           /\ storedFadeSettings' = [storedFadeSettings EXCEPT ![timer.it] = UpdateFade(f, g)]
           /\ timer' = [timer EXCEPT !.pc = IF Updated(f, g) THEN "send" ELSE "ok"]
           /\ strayRead' = (strayRead \/ StrayRead(f))
           /\ overtaken' = (overtaken \/ (Running(f) /\ AtEnd(f) /\ ~Settled(timer.it)))
    /\ wire' = <<>>
    /\ UNCHANGED <<storedButtonSettings, mVisibleContexts, mVisibleContextsMutex,
                   deadlocked, crashed, handler, environment>>

\* The settings and the value are read from the maps once more.
TimerSend ==
    /\ TimerIs("send")
    /\ wire' = <<Message(SettingsOf(storedButtonSettings[timer.it]),
                         storedFadeSettings[timer.it].currentValue)>>
    /\ storedButtonSettings' = [storedButtonSettings EXCEPT ![timer.it] = SettingsOf(@)]
    /\ timer' = [timer EXCEPT !.pc = "ok"]
    /\ UNCHANGED <<storedFadeSettings, mVisibleContexts, mVisibleContextsMutex,
                   deadlocked, crashed, handler, environment, strayRead, overtaken>>

\* ShowOKForContext, if the fade has finished ...
TimerOk ==
    /\ TimerIs("ok")
    /\ IF storedFadeSettings[timer.it].fadeFinished
       THEN timer' = [timer EXCEPT !.pc = "clear"]
       ELSE MoveOnFrom(timer.it)
    /\ wire' = <<>>
    /\ UNCHANGED <<plugin, environment, strayRead, overtaken>>

\* ... and then fadeFinished is inverted.
TimerClear ==
    /\ TimerIs("clear")
    /\ storedFadeSettings' = [storedFadeSettings EXCEPT ![timer.it].fadeFinished = ~@]
    /\ MoveOnFrom(timer.it)
    /\ wire' = <<>>
    /\ UNCHANGED <<storedButtonSettings, mVisibleContexts, mVisibleContextsMutex,
                   deadlocked, crashed, handler, environment, strayRead, overtaken>>

UpdateTimer == TimerStart \/ TimerUpdate \/ TimerSend \/ TimerOk \/ TimerClear

-----------------------------------------------------------------------------

\* A receiver starts a note at a NOTE ON, and ends it at one of velocity 0.
NoteOns == 144..159

Heard(notes, messages) ==
    LET isNote(i) == Len(messages[i]) = 3 /\ messages[i][1] \in NoteOns
        on(i) == isNote(i) /\ messages[i][3] # 0
        off(i) == isNote(i) /\ messages[i][3] = 0
        note(i) == <<messages[i][1], messages[i][2]>>
        last(i) == \A j \in DOMAIN messages : j > i => ~(off(j) /\ note(j) = note(i))
    IN  (notes \ {note(i) : i \in {j \in DOMAIN messages : off(j)}})
            \cup {note(i) : i \in {j \in DOMAIN messages : on(j) /\ last(j)}}

\* A controller stays where the last CONTROL CHANGE for it has moved it.
ControlChanges == 176..191

Turned(positions, messages) ==
    LET moves == {i \in DOMAIN messages :
                     Len(messages[i]) = 3 /\ messages[i][1] \in ControlChanges}
        same(m, n) == m[1] = n[1] /\ m[2] = n[2]
        last(i) == \A j \in moves : j > i => ~same(messages[j], messages[i])
    IN  {m \in positions : \A i \in moves : ~same(m, messages[i])}
            \cup {<<messages[i][1], messages[i][2], messages[i][3]>> : i \in {j \in moves : last(j)}}

\* What a step has sent arrives.
Arrives == sounding' = Heard(sounding, wire') /\ controllers' = Turned(controllers, wire')

Step ==
    \/ LockVisibleContexts
    \/ \E c \in Contexts : WillAppear(c) \/ WillDisappear(c) \/ KeyDown(c) \/ KeyUp(c)
                             \/ HandlerStep(c)
    \/ \E c \in Contexts : \E p \in Payloads[c] : DidReceiveSettings(c, p)
    \/ UpdateTimer

Next == Step /\ Arrives

Spec == Init /\ [][Next]_vars

\* The timer thread never ends; nothing obliges the user to press a key.
FairSpec == Spec /\ WF_vars(UpdateTimer /\ Arrives)

-----------------------------------------------------------------------------
(* Safety *)

Stored(c) == storedButtonSettings[c] # NoEntry
HasFade(c) == storedFadeSettings[c] # NoEntry

\* A fade walks through its table entry by entry, pausing and turning at any
\* point the keys choose; UpdateFade compares the index for equality with either
\* end, so it must never step over one.
IndexInBounds ==
    \A c \in Fading : storedFadeSettings[c].currentIndex \in 0..storedFadeSettings[c].setSize

\* The settings and the fade of a button live in two maps that are written at
\* different moments.  While the process is there, a button that is set to fade
\* has a fade, over the values and the time it is configured with.
FadeIsConfigured ==
    crashed \/ \A c \in Contexts :
        Stored(c) /\ storedButtonSettings[c].toggleFade /\ storedButtonSettings[c].fadeTime > 0
        => LET s == storedButtonSettings[c]
               f == storedFadeSettings[c]
           IN  /\ HasFade(c)
               /\ f.fromValue = s.dataByte2 /\ f.toValue = s.dataByte2Alt
               /\ f.setSize = SetSize(s.fadeTime) /\ f.fadeCurve = s.fadeCurve

\* The state the next press of a two-state button acts on.
NextState(c) == IF c \in held THEN 1 - keyState[c] ELSE keyState[c]
DirectionFor(st) == IF st = 0 THEN "IN" ELSE "OUT"

FadesByToggle(c) ==
    /\ ActionOf[c] = "CC_TOGGLE" /\ c \notin InMultiAction /\ Stored(c)
    /\ storedButtonSettings[c].toggleFade /\ storedButtonSettings[c].fadeTime > 0

\* A toggle is in step when no fade of it has ended in the middle of a press (the
\* press that was to pause the fade then starts it once more), and its fade is not
\* one left over from settings that have since stopped fading.
InStep(c) == ActionOf[c] # "CC_TOGGLE" \/ (FadesByToggle(c) /\ ~overtaken)

\* currentIndex counts along inSet or outSet, depending on a direction that
\* KeyDownForAction takes from the state the application shows.  While the process
\* is there, the press that resumes a paused fade must resume it in the direction
\* it was counting in, and a fade that runs is in the direction of the press that
\* started it.
ResumesInItsDirection ==
    crashed \/ \A c \in Contexts : FadesByToggle(c) /\ Settled(c) /\ InStep(c) =>
        LET f == storedFadeSettings[c] IN
        /\ f.fadeActive => f.currentDirection = DirectionFor(1 - NextState(c))
        /\ ~f.fadeActive /\ f.currentIndex > 0 => f.currentDirection = DirectionFor(NextState(c))

\* Between two ticks a fade that goes forward keeps, whatever the keys do, the
\* value of the entry before the next one: it is the value that was sent last
\* and the one the next entry is compared with.
HoldsLastEntry ==
    crashed \/ \A c \in Contexts :
        LET f == storedFadeSettings[c] IN
        HasFade(c) /\ InStep(c) /\ f.currentIndex > 0 /\ ~f.reverseFade
        => f.currentValue = Entry(f, f.currentIndex - 1) /\ PrevValue(f) = f.currentValue

\* Unless a table was read beyond its end, no fade takes the controller out of
\* the range between its two values (0 is the value of a fade that has not run).
ValueInRange ==
    strayRead \/ \A c \in Fading :
        LET f == storedFadeSettings[c] IN
        f.currentValue = 0 \/ Between(f.currentValue, f.fromValue, f.toValue)

FadesByKey(c) ==
    /\ ActionOf[c] = "CC" /\ Stored(c)
    /\ storedButtonSettings[c].toggleFade /\ storedButtonSettings[c].fadeTime > 0

\* A momentary fade is turned back by the release of its key only: while the process
\* is there, the key is down and its handler done, a fade that runs goes forward (a
\* fade left over from settings that have since stopped fading may still be on its
\* way back).  A fade that was turned just after it had ended is back where it
\* started already.
HeldFadesForward ==
    crashed \/ \A c \in held :
        LET f == storedFadeSettings[c] IN
        FadesByKey(c) /\ Settled(c) /\ f.fadeActive => ~f.reverseFade \/ f.currentIndex = 0

\* The note or the controller that the messages of settings s are for.
TargetIn(s) == <<Byte(s.statusByte), Byte(s.dataByte1)>>
TargetOf(c) == TargetIn(storedButtonSettings[c])

\* The settings that each button can be given, and the targets of its messages: one
\* that is put together while settings arrive may take its bytes from both.
ConfiguredFor == [c \in Contexts |-> {SettingsFrom(p) : p \in {q \in Payloads[c] : ~Malformed(q)}}]
TargetsFor ==
    [c \in Contexts |-> {<<Byte(s.statusByte), Byte(t.dataByte1)>> :
                             s \in ConfiguredFor[c], t \in ConfiguredFor[c]}]

\* No other button can be given what the button plays or moves now.
HasItsOwnTarget(c) == \A d \in Contexts \ {c} : TargetOf(c) \notin TargetsFor[d]

\* The button keeps its note, whatever is saved for it, and shares it with no other.
KeepsItsNote(c) ==
    /\ TargetsFor[c] = {TargetOf(c)}
    /\ HasItsOwnTarget(c)

\* While its settings keep the note, a note that a toggle button has started is
\* one that the next press of the button ends.
ToggleEndsItsNote ==
    \A c \in Contexts :
        ActionOf[c] = "NOTE_ON_TOGGLE" /\ c \notin InMultiAction /\ Stored(c) /\ KeepsItsNote(c)
        => (TargetOf(c) \in sounding => NextState(c) = 1)

\* While its settings keep the note and the mode, a note of a button in "note off
\* on KeyUp" mode (StreamDeckMidiButton.cpp, RELEASE_NOTE_OFF) sounds only while
\* the key is down, whatever the other buttons send in between.
NoteEndsWithKey ==
    \A c \in Contexts \ held :
        /\ ActionOf[c] = "NOTE_ON" /\ Stored(c) /\ KeepsItsNote(c)
        /\ \A s \in ConfiguredFor[c] : s.noteOffMode = 2
        => TargetOf(c) \notin sounding

\* UpdateFade sends only values that differ from the one before, and the message is
\* put together from the maps after it has returned.  Still, while the process is
\* there and no message of the button is about to be sent, the receiver's controller
\* is where the fade is (0 is also the value of a fade that has not run), through
\* pauses, turns, ends and new settings.
ControllerFollowsFade ==
    crashed \/ \A c \in Contexts :
        LET f == storedFadeSettings[c] IN
        /\ FadesByToggle(c) \/ FadesByKey(c)
        /\ TargetOf(c)[1] \in ControlChanges /\ HasItsOwnTarget(c)
        /\ ~(timer.pc = "send" /\ timer.it = c)
        /\ f.currentValue # 0 \/ (f.currentIndex > 0 /\ ~overtaken)
        => Message(storedButtonSettings[c], f.currentValue) \in controllers

-----------------------------------------------------------------------------
(* What a step may never do *)

\* A fade that goes forward approaches its target with every tick; it does not
\* jump back when it is paused, resumed or interleaved with other buttons.
FadeApproaches ==
    [][\A c \in Fading :
        LET f == storedFadeSettings[c]
            g == storedFadeSettings'[c]
        IN  TimerUpdate /\ timer.it = c /\ Running(f) /\ InStep(c) /\ ~f.reverseFade
                /\ f.currentIndex > 0
            => Between(g.currentValue, f.currentValue, Arrival(f))]_vars

-----------------------------------------------------------------------------
(* Liveness *)

\* A fade that runs in a direction comes to rest: it finishes, is paused or is
\* replaced.  The timer thread sees to it alone, even when the websocket thread is
\* stuck.
FadeEnds ==
    \A c \in Contexts :
        (HasFade(c) /\ Running(storedFadeSettings[c]))
            ~> (HasFade(c) /\ ~Running(storedFadeSettings[c]))

\* A fade that has finished is reported once and the report is taken back.
TickIsCleared ==
    \A c \in Contexts :
        (HasFade(c) /\ storedFadeSettings[c].fadeFinished)
            ~> (HasFade(c) /\ ~storedFadeSettings[c].fadeFinished)

-----------------------------------------------------------------------------
(* What the comments, texts and the manifest of the plugin say, and the code    *)
(* does not keep.                                                           *)

\* manifest.json, MIDI CC Toggle: "Toggle a MIDI CC message", supported in
\* multi-actions.  When a press of such a step has been handled, its fade runs.
MultiActionStartsFade ==
    [][\A c \in InMultiAction :
        ~Settled(c) /\ Settled(c)' => storedFadeSettings'[c].fadeActive]_vars

\* FadeSet constructor: "create a vector of length setSize".  UpdateFade reads
\* the entries of the vector only.
ReadsInTable == ~strayRead

\* WillAppearForAction: "unlock the context".  The mutex is free when the handler
\* is done, so that the next handler can take it.
ContextUnlocked == mVisibleContextsMutex = "free"

\* UpdateTimer: "we have an updated value - send it out as a MIDI CC message".
\* What is sent is a value of the fade, between the button's two values.
SendsFadeValue ==
    TimerIs("send") /\ Stored(timer.it) =>
        Between(storedFadeSettings[timer.it].currentValue,
                storedButtonSettings[timer.it].dataByte2,
                storedButtonSettings[timer.it].dataByte2Alt)

=============================================================================
