--------------------------- MODULE ButtonInspector ---------------------------
(***************************************************************************)
(* How the settings of a button come to the plugin.  The property          *)
(* inspector (propertyinspector/js/pi_mac.js) shows the settings of one    *)
(* button in a form; each change of a field saves the whole form.  The     *)
(* Stream Deck application keeps what is saved, and tells the plugin of it *)
(* and of the buttons that appear, disappear and are pressed, by messages  *)
(* that ESDConnectionManager::OnMessage handles one at a time.             *)
(*                                                                         *)
(* The form is a function from the name of a setting to its field; a field *)
(* that has been emptied, and a NaN, is Null.                              *)
(***************************************************************************)
EXTENDS StoredSettings, Sequences, FiniteSets

CONSTANTS
    Contexts,       \* the buttons
    ActionOf,       \* the action of each button
    Second,         \* a fade time of one second
    Inputs,         \* what the user can choose or type, for the name of a setting
    NoEntry,        \* no settings are stored
    Nothing,        \* no button is shown
    MaxSaves,       \* bound: how often the user changes a field
    MaxQueue        \* bound: how many messages are on their way

Common == {"statusByte", "dataByte1"}
Fields ==
    [NOTE_ON |-> Common \cup {"dataByte2", "noteOffMode"},
     NOTE_ON_TOGGLE |-> Common \cup {"dataByte2"},
     CC |-> Common \cup {"dataByte2", "dataByte2Alt", "ccMode", "fadeTime", "fadeCurve"},
     CC_TOGGLE |-> Common \cup {"dataByte2", "dataByte2Alt", "toggleFade", "fadeTime", "fadeCurve"},
     PROGRAM_CHANGE |-> Common,
     MMC |-> {"dataByte5"}]

\* The status byte of channel 1 is the one after: NOTE_ON, CC and PC.
Base ==
    [NOTE_ON |-> 143, NOTE_ON_TOGGLE |-> 143, CC |-> 175, CC_TOGGLE |-> 175,
     PROGRAM_CHANGE |-> 191]

\* The values of a setting.
Values(name) ==
    CASE name = "fadeTime" -> FadeTimes
      [] name = "fadeCurve" -> FadeCurves
      [] name = "toggleFade" -> BOOLEAN
      [] OTHER -> Int

\* The channel is chosen from a list; any other field can be emptied.
ASSUME InputAssumption ==
    \A a \in Actions : \A name \in Fields[a] :
        Inputs[name] \subseteq IF name = "statusByte" THEN Int ELSE Values(name) \cup {Null}

ASSUME InspectorAssumption ==
    /\ ActionOf \in [Contexts -> Actions]
    /\ Second \in FadeTimes
    /\ Null \notin Int \cup BOOLEAN
    /\ NoEntry \notin ButtonSettings /\ Nothing \notin Contexts
    /\ MaxSaves \in Nat /\ MaxQueue \in Nat

VARIABLES
    saved, visible,   \* the application: the settings and the buttons it shows
    toPlugin,         \* its messages to the plugin
    shown, form,      \* the inspector: the button and its fields
    alive,            \* the plugin's process runs
    mVisibleContextsMutex, storedButtonSettings,
    saves             \* how often the user has changed a field

inspector == <<shown, form>>
plugin == <<alive, mVisibleContextsMutex, storedButtonSettings>>
vars == <<saved, visible, toPlugin, inspector, plugin, saves>>

Events == {"willAppear", "willDisappear", "didReceiveSettings", "keyDown", "keyUp"}

\* What is shown is a form with the fields of its button's action, and only such
\* settings are saved as these fields can give.
TypeOK ==
    /\ \A c \in Contexts :
           DOMAIN saved[c] = {} \/ DOMAIN saved[c] = Fields[ActionOf[c]]
    /\ visible \subseteq Contexts
    /\ \A i \in DOMAIN toPlugin :
           toPlugin[i].event \in Events /\ toPlugin[i].at \in Contexts
    /\ shown \in visible \cup {Nothing}
    /\ shown # Nothing => DOMAIN form = Fields[ActionOf[shown]]
    /\ alive \in BOOLEAN
    /\ mVisibleContextsMutex \in {"free", "held"}
    /\ storedButtonSettings \in [Contexts -> ButtonSettings \cup {NoEntry}]
    /\ saves \in 0 .. MaxSaves

Init ==
    /\ saved = [c \in Contexts |-> <<>>]
    /\ visible = {}
    /\ toPlugin = <<>>
    /\ shown = Nothing /\ form = <<>>
    /\ alive = TRUE
    /\ mVisibleContextsMutex = "free"
    /\ storedButtonSettings = [c \in Contexts |-> NoEntry]
    /\ saves = 0

-----------------------------------------------------------------------------
(* The form *)

\* The value a field falls back to: the right side of its ||.
Fallback(a, name) ==
    CASE name \in {"statusByte", "dataByte5"} -> 1
      [] name = "dataByte2" -> IF a \in {"NOTE_ON", "NOTE_ON_TOGGLE"} THEN 1 ELSE 0
      [] name = "fadeTime" -> Second
      [] name = "toggleFade" -> FALSE
      [] OTHER -> 0

\* A setting that || passes over: it is missing, null, 0 (as a channel) or false.
Falsy(a, s, name) ==
    \/ name \notin DOMAIN s
    \/ s[name] = Null
    \/ s[name] = CASE name = "toggleFade" -> FALSE
                   [] name = "statusByte" -> Base[a]
                   [] OTHER -> 0

\* Mutant: the channel is counted from 0.
Shown_ChannelFromZero(a, s) ==
    [name \in Fields[a] |->
        IF Falsy(a, s, name) THEN Fallback(a, name)
        ELSE IF name = "statusByte" THEN s[name] - Base[a] - 1 ELSE s[name]]

\* connected fills the form with the settings; the status byte becomes a channel.
Shown(a, s) ==
    [name \in Fields[a] |->
        IF Falsy(a, s, name) THEN Fallback(a, name)
        ELSE IF name = "statusByte" THEN s[name] - Base[a] ELSE s[name]]

\* saveSettings reads all fields of the form.
FormSettings(a, f) ==
    [name \in Fields[a] |-> IF name = "statusByte" THEN f[name] + Base[a] ELSE f[name]]

-----------------------------------------------------------------------------
(* The application and its user *)

Message(event, c, settings) == [event |-> event, at |-> c, settings |-> settings]

\* A message is sent to a plugin that runs.
Tell(message) ==
    /\ Len(toPlugin) < MaxQueue
    /\ toPlugin' = IF alive THEN Append(toPlugin, message) ELSE toPlugin

Appear(c) ==
    /\ c \notin visible
    /\ visible' = visible \cup {c}
    /\ Tell(Message("willAppear", c, saved[c]))
    /\ UNCHANGED <<saved, inspector, plugin, saves>>

\* Mutant: the inspector stays.
Disappear_KeepsForm(c) ==
    /\ c \in visible
    /\ visible' = visible \ {c}
    /\ Tell(Message("willDisappear", c, saved[c]))
    /\ UNCHANGED <<saved, inspector, plugin, saves>>

\* The inspector of a button goes with it.
Disappear(c) ==
    /\ c \in visible
    /\ visible' = visible \ {c}
    /\ IF shown = c THEN shown' = Nothing /\ form' = <<>> ELSE UNCHANGED inspector
    /\ Tell(Message("willDisappear", c, saved[c]))
    /\ UNCHANGED <<saved, plugin, saves>>

Press(c) ==
    /\ c \in visible
    /\ Tell(Message("keyDown", c, saved[c]))
    /\ UNCHANGED <<saved, visible, inspector, plugin, saves>>

\* The key may have been pressed before the plugin was started.
Release(c) ==
    /\ c \in visible
    /\ Tell(Message("keyUp", c, saved[c]))
    /\ UNCHANGED <<saved, visible, inspector, plugin, saves>>

connected(c) ==
    /\ c \in visible /\ shown # c
    /\ shown' = c
    /\ form' = Shown(ActionOf[c], saved[c])
    /\ UNCHANGED <<saved, visible, toPlugin, plugin, saves>>

\* Mutant: the settings that are saved are those the form was filled with.
saveSettings_Stale(name, v) ==
    /\ shown # Nothing /\ saves < MaxSaves
    /\ saves' = saves + 1
    /\ form' = [form EXCEPT ![name] = v]
    /\ saved' = [saved EXCEPT ![shown] = FormSettings(ActionOf[shown], form)]
    /\ Tell(Message("didReceiveSettings", shown, saved'[shown]))
    /\ UNCHANGED <<visible, shown, plugin>>

\* The user changes a field; the application passes the settings on.
saveSettings(name, v) ==
    /\ shown # Nothing /\ saves < MaxSaves
    /\ saves' = saves + 1
    /\ form' = [form EXCEPT ![name] = v]
    /\ saved' = [saved EXCEPT ![shown] = FormSettings(ActionOf[shown], form')]
    /\ Tell(Message("didReceiveSettings", shown, saved'[shown]))
    /\ UNCHANGED <<visible, shown, plugin>>

Change ==
    \E name \in DOMAIN form : \E v \in Inputs[name] : v # form[name] /\ saveSettings(name, v)

-----------------------------------------------------------------------------
(* The plugin *)

\* The process ends: all it knew, and what was on its way, is lost.
Exit ==
    /\ alive' = FALSE
    /\ mVisibleContextsMutex' = "free"
    /\ storedButtonSettings' = [c \in Contexts |-> NoEntry]
    /\ toPlugin' = <<>>

\* Mutant: the settings of a button that is known are left alone.
StoreButtonSettings_OnlyNew(c, p) ==
    /\ storedButtonSettings' = [storedButtonSettings EXCEPT
           ![c] = IF Malformed(p) \/ @ # NoEntry THEN @ ELSE SettingsFrom(p)]
    /\ toPlugin' = Tail(toPlugin)
    /\ UNCHANGED alive

\* What it throws is caught by OnMessage.
StoreButtonSettings(c, p) ==
    /\ storedButtonSettings' = [storedButtonSettings EXCEPT
           ![c] = IF Malformed(p) THEN @ ELSE SettingsFrom(p)]
    /\ toPlugin' = Tail(toPlugin)
    /\ UNCHANGED alive

Stores(c, p) == IF StoreCrashes(p) THEN Exit ELSE StoreButtonSettings(c, p)

\* The mutex is kept when StoreButtonSettings throws; who finds it taken waits for ever.
WillAppearForAction(c, p) ==
    /\ mVisibleContextsMutex = "free"
    /\ Stores(c, p)
    /\ StoreCrashes(p) \/ mVisibleContextsMutex' = IF StoreThrows(p) THEN "held" ELSE "free"

WillDisappearForAction ==
    /\ mVisibleContextsMutex = "free"
    /\ toPlugin' = Tail(toPlugin)
    /\ UNCHANGED plugin

DidReceiveSettings(c, p) ==
    Stores(c, p) /\ (StoreCrashes(p) \/ UNCHANGED mVisibleContextsMutex)

\* A button without settings is given those of the event first.
KeyDownForAction(c, p) ==
    IF storedButtonSettings[c] = NoEntry /\ StoreCrashes(p) THEN Exit
    ELSE /\ IF storedButtonSettings[c] = NoEntry THEN StoreButtonSettings(c, p)
            ELSE toPlugin' = Tail(toPlugin) /\ UNCHANGED <<alive, storedButtonSettings>>
         /\ UNCHANGED mVisibleContextsMutex

\* operator[] inserts default settings where there are none, and a key that is
\* pressed later takes them for its own.
KeyUpForAction(c) ==
    /\ storedButtonSettings' = [storedButtonSettings EXCEPT ![c] =
           IF @ = NoEntry /\ ActionOf[c] \in {"NOTE_ON", "CC"} THEN DefaultSettings ELSE @]
    /\ toPlugin' = Tail(toPlugin)
    /\ UNCHANGED <<alive, mVisibleContextsMutex>>

OnMessage ==
    /\ alive /\ toPlugin # <<>>
    /\ LET message == Head(toPlugin)
           c == message.at
           p == message.settings
       IN  \/ message.event = "willAppear" /\ WillAppearForAction(c, p)
           \/ message.event = "willDisappear" /\ WillDisappearForAction
           \/ message.event = "didReceiveSettings" /\ DidReceiveSettings(c, p)
           \/ message.event = "keyDown" /\ KeyDownForAction(c, p)
           \/ message.event = "keyUp" /\ KeyUpForAction(c)
    /\ UNCHANGED <<saved, visible, inspector, saves>>

\* The application starts a plugin that has ended again, and shows it the buttons,
\* in any order.
Restart ==
    /\ ~alive
    /\ alive' = TRUE
    /\ \E order \in [1 .. Cardinality(visible) -> visible] :
           /\ \A c \in visible : \E i \in DOMAIN order : order[i] = c
           /\ toPlugin' = [i \in DOMAIN order |-> Message("willAppear", order[i], saved[order[i]])]
    /\ UNCHANGED <<saved, visible, inspector, mVisibleContextsMutex, storedButtonSettings,
                   saves>>

-----------------------------------------------------------------------------

Next ==
    \/ \E c \in Contexts : Appear(c) \/ Disappear(c) \/ Press(c) \/ Release(c) \/ connected(c)
    \/ Change
    \/ OnMessage \/ Restart

Spec == Init /\ [][Next]_vars

\* The plugin handles its messages and is started again; the user need not act.
FairSpec == Spec /\ WF_vars(OnMessage) /\ WF_vars(Restart)

-----------------------------------------------------------------------------

OnTheWay(c) == \E i \in DOMAIN toPlugin : toPlugin[i].at = c

\* Whatever appeared, disappeared, was saved, thrown at and restarted in between:
\* when no message about a button is on its way the plugin has the settings that
\* were saved last, unless one of them cannot be converted; it has none only for
\* a button that has disappeared.
PluginUsesSaved ==
    alive => \A c \in Contexts :
        ~OnTheWay(c) /\ ~Malformed(saved[c]) =>
            \/ storedButtonSettings[c] = SettingsFrom(saved[c])
            \/ c \notin visible /\ storedButtonSettings[c] = NoEntry

\* The form is read and written by two functions.  What it shows of settings that
\* were saved is what was saved, for any action, unless the value is one that ||
\* replaces.
FormShowsSaved ==
    shown # Nothing /\ saved[shown] # <<>> =>
        \A name \in Fields[ActionOf[shown]] :
            \/ FormSettings(ActionOf[shown], form)[name] = saved[shown][name]
            \/ Falsy(ActionOf[shown], saved[shown], name) /\ form[name] = Fallback(ActionOf[shown], name)

\* A field that is changed changes its own setting and no other, of its own button
\* and no other, unless the setting had no value of its own that the form could show.
ChangesOneSetting ==
    [][\A c \in Contexts : saved'[c] # saved[c] =>
        /\ c = shown
        /\ saved[c] # <<>> => \A name, other \in Fields[ActionOf[c]] :
               saved'[c][name] # saved[c][name] /\ saved'[c][other] # saved[c][other]
                   => \/ name = other
                      \/ \E n \in {name, other} : Falsy(ActionOf[c], saved[c], n)]_vars

Storable(p) == ~StoreThrows(p) /\ ~StoreCrashes(p)

\* As long as only settings are saved that can be stored, those of a button that is
\* shown come to the plugin.
SettingsArrive ==
    [](\A c \in Contexts : Storable(saved[c])) =>
        \A c \in Contexts :
            c \in visible ~>
                c \notin visible \/ storedButtonSettings[c] = SettingsFrom(saved[c])

=============================================================================
