# Stream Deck MIDI Button: a TLA+ verification project

The repository is a plugin for Elgato's Stream Deck application (macOS, C++). A key of the
Stream Deck sends a MIDI message, toggles between two, or fades a controller from one value to
another over some seconds. The plugin works on three threads and talks to two other programs:
the application, which keeps all settings, and a property inspector (JavaScript), in which the
user edits them. This directory holds models of those parts, TLC runs that check them on small
instances, and proofs, checked by TLAPS, of the invariants that matter most, for any number of
buttons, settings, devices, messages and events.

`CPP` is `src/Sources/StreamDeckMidiButton.cpp`, `H` its header, `PI` is
`src/co.uk.clarionmusic.midibutton.sdPlugin/propertyinspector/js/pi_mac.js`.

## 1. The system and its parts

| part | source | state | operations |
|---|---|---|---|
| `FadeSet` | CPP 1405-1595, H 151-174 | two look-up tables, index, direction, current and previous values, four flags | the constructor, `UpdateFade`, `ReverseFade`, `FadeButtonPressed` |
| button handlers | CPP 362-386, 551-1121 | the maps `storedButtonSettings` and `storedFadeSettings`, by context; `mVisibleContexts` and its mutex | `WillAppearForAction`, `WillDisappearForAction`, `DidReceiveSettings`, `StoreButtonSettings`, `KeyDownForAction`, `KeyUpForAction` |
| timer thread | CPP 327-360 | its iterator over the fades | `UpdateTimer`: `UpdateFade`, send, show the tick, clear the tick |
| timer | `Sources/macOS/timer.h`, `event.h` | a set of events with their elapsed ticks, the drift | the event loop, `set_interval`, `set_timeout`, cancelling, the destructor |
| MIDI ports, global settings | CPP 95-236, 388-549, 1146-1183, 1244-1329 | `midiOut`, `midiIn`, `mGlobalSettings` | `InitialiseMidi`, `DidReceiveGlobalSettings`, `GetMidiPortList`, `SendToPlugin` |
| MIDI input | CPP 238-325, rtmidi17's `coreaudio.hpp` | the callback, `midiUpdateMutex` | `HandleMidiInput` |
| sending | CPP 1185-1200 and its callers | `midiMessage`, `midiMessageMutex` | a message is put together byte by byte and sent |
| connection | `Sources/Common/ESDConnectionManager.cpp` | the websocket | `OnMessage` dispatches one event at a time to a handler and swallows what it throws |
| property inspector | `PI` | the form of one button and of the global settings | fills the form, saves it whole at each change, asks for the list of ports |
| icons, utilities, vendored code | `base64.cpp`, `Common/*`, `include/*` | none of interest | - |

### How they interact

- The application sends events over a websocket. One thread reads it; the handlers therefore
  never overlap each other. A handler that blocks blocks all of them.
- The timer thread calls `UpdateTimer` at each sample interval. It reads and writes the same two
  maps as the handlers, **with no lock**. The only mutexes in the file protect the list of visible
  contexts, the vector in which a message is put together and the MIDI input.
- CoreMIDI calls `HandleMidiInput` from a thread of its own. The websocket thread deletes the
  ports and makes new ones whenever the global settings change.
- The application shows two-state buttons (`NOTE_ON_TOGGLE`, `CC_TOGGLE`) and switches them over
  itself at each release; the plugin gets the state with the key event and keeps a copy.
- The property inspector saves settings in the application, which sends them on to the plugin at
  any moment - also while a key is down, while a fade runs, or after the plugin has exited, in
  which case it is started again and gets the settings with the buttons that appear.

### Which behaviours are hard

- *Interleaving.* A handler looks at `fadeActive`, and the method it then calls looks again.
  `UpdateTimer` looks each entry up once more for every use. Ports are deleted while other threads
  are at work on them. One vector holds the messages of two threads.
- *Long sequences.* `UpdateFade` compares its index with 0 and `setSize` for equality only, in
  four branches, with five places that write the index; `timer.h` compares `elapsed` with `ticks`
  for equality only, while it catches up after a stall.
- *Partial failure.* `StoreButtonSettings` throws half way, possibly with a mutex held;
  `DidReceiveGlobalSettings` gives up between the input and the output port.
- *Several programs, one state.* The state of a toggle, the settings of a button and the choice of
  a port are each held in two or three programs, connected by queues.
- *Restart.* A port that cannot be opened, and a fade time below one sample interval, end the
  process; the application starts it again with the same settings.
- *Numbers.* Two roundings, tables of `setSize` entries of which entry `setSize` is read, integers
  narrowed to bytes, `||` in the inspector that takes 0 for missing.

`PROJECT.json` lists these under "hazards", each at its line.

## 2. The modules

    FadeSet                    the class FadeSet: pure operators on records
    StoredSettings             what StoreButtonSettings makes of saved settings, and how it fails
    StreamDeckMidiButton       maps, handlers, timer thread, application; extends both
    ButtonInspector            form -> application -> plugin, with restarts; extends both
    MidiPorts                  global settings: devices, inspector, application, plugin
    MidiThreads                three threads at the ports, the mutexes and the message vector
      MidiWire                   what MidiThreads implements: whole messages, in order
    Timer                      the event loop, its callers and the clock
      PeriodicSource             what Timer implements: no tick early, none lost

    <module>_proofs            its theorems (three modules for the buttons, each extending the one
                               before: StreamDeckMidiButton_proofs has the invariant of the fades,
                               ButtonState_proofs that of the settings, ButtonKeys_proofs what the
                               keys do to fades, notes and controllers)
    MC<module>                 buttons, payloads, devices, messages for TLC

### `FadeSet`

A fade is a record with the fields of the class, and each method an operator from the old record
to the new. The tables are not stored: `InEntry(f, i)`, `OutEntryFloor(f, i)` and
`OutEntryCeil(f, i)` give the rounded entry from `fromValue`, `toValue`, `setSize` and
`fadeCurve`, which is all the constructor uses.

| TLA+ | code |
|---|---|
| `SetSize`, `LengthError`, `NullStore` | the conversion of the fade time, and the two ways in which the constructor fails (CPP 1415-1452) |
| `DefaultFadeSet`, `NewFadeSet` | the two constructors; `currentDirection` is not initialised, so it is any value, "neither" included |
| `InEntry`, `OutEntryFloor`, `OutEntryCeil`, `Entry`, `Sample` | what `UpdateFade` reads from the tables; beyond the end any value of `Garbage` |
| `AtEnd`, `Finish`, `Advance`, `UpdateFade`, `Updated` | the four branches of `UpdateFade` (CPP 1468-1574), and its Boolean |
| `SilentEnd`, `Arrival` | how the four ends differ: a reversed fade IN does not go to its last value |
| `ReverseFromEnd`, `SetReverse`, `SetActive` | the writes of `ReverseFade` and `FadeButtonPressed` |

Fade times are counted in halves of a sample interval, so that a time shorter than one interval
is there. For a straight line the entries are exact fractions. For a curve the code evaluates
`(e^(c*i) - 1) / (e^(c*n) - 1)`; the model takes this fraction as two operator constants,
`CurveProgress` and `CurveSpan`, of which it only assumes that the fraction starts at 0, never
falls and stays between 0 and 1, as the quotient above does for either sign of `c`.
The proofs hold for all of them; TLC gets the curves with `e^c` = 2 and 1/2, whose entries are
ratios of integers. Rounding errors of `float` and `double` are not modelled.

### `StreamDeckMidiButton`

| variable | code |
|---|---|
| `storedButtonSettings`, `storedFadeSettings` | the maps; `NoEntry` where there is none. `operator[]` inserts a default entry, and so does the model (`SettingsOf`, `FadeOf`) |
| `mVisibleContexts`, `mVisibleContextsMutex`, `deadlocked` | the set, its mutex, and the thread waiting for a mutex it holds itself |
| `crashed` | the store through a null pointer in the constructor of a fade without entries |
| `handler` | the calls of `ReverseFade` and `FadeButtonPressed` the running handler has still to make: the timer may come before each of them, and between the look at `fadeActive` and the write |
| `timer` | where `UpdateTimer` is: idle, or before its call of `UpdateFade`, its send, its look at `fadeFinished`, its inversion of it, at button `it` |
| `saved`, `keyState`, `held` | the application: saved settings, shown states, keys that are down |
| `wire` | the messages the last step sent |
| `sounding`, `controllers` | an external receiver: the notes that have been started and not ended; where each controller has been moved to |
| `strayRead`, `overtaken` | history: a table was read beyond its end; a fade ended in the middle of a handler's work on it. No action reads them |

Every handler is one action, except that the calls on a fade which follow a look at that fade
are steps of their own (`ReverseFade`, `FadeButtonPressed`, `WriteFade`). No handler starts
before the previous one has done all its calls. `UpdateTimer` is five actions, one per access
to the maps. `KeyDownForAction` is split by action; `KeyDownUnstored` is its first branch when the
storing fails.

The environment shows and hides buttons, saves any of a button's `Payloads` while it is visible,
presses a visible key that is up and releases a key that is down. The plugin may find any of
`Given` saved when it starts. In a multi-action the state of the press is the one the user chose
for the step, so it is either.

Abstracted: settings are records of the fields the handlers use; a payload has a subset of them,
since an absent field keeps its default. `Null` stands for a JSON null, which is what the property
inspector saves for a number field that was emptied (`parseInt` gives NaN). Storing the settings of
a button is one step for the timer thread: `StoreButtonSettings` writes two map entries (CPP 652-656
and 757-761), and the timer thread visits fades only, so between the two writes it could only see
new settings with the old fade; `SendsFadeValue` shows the problem of the same kind that is left.
`TimerSend` reads the two bytes and the value of a message (CPP 344-346) in one step; settings that
arrive between these reads would mix the bytes of two settings of the *same* button, which is why
`TargetsFor`, by which a property speaks of a button that shares its note or controller with no
other, has the mixed targets too. `TimerClear` reads and writes `fadeFinished` (CPP 355) in one
step. `UpdateFade` is one step, and so is an operation on a map, although the code has a data race
there. The store into entry `setSize` of each table by the constructor has no effect in the model;
the later *read* of that entry gives any value. The output port is open here. Contexts are numbered
in the order of their strings, which is the order of the map.

### `ButtonInspector`

The same settings on their way from the form to the map. `form` is what the inspector shows for
the button `shown`; `saved` what the application keeps; `toPlugin` the events not yet handled;
`storedButtonSettings`, `mVisibleContextsMutex` and `alive` the plugin.

| TLA+ | code |
|---|---|
| `Fields`, `Base`, `Fallback`, `Falsy`, `Shown` | how `connected` fills the form of each action: `settings.x || default`, a status byte shown as a channel (PI 27-608) |
| `FormSettings`, `saveSettings`, `Change` | `saveSettings` reads the whole form and saves it, whichever field was changed (PI 712-825) |
| `Appear`, `Disappear`, `Press`, `Restart` | the application; it drops messages to a process that is not there and shows it its buttons when it has started it again |
| `OnMessage` and the five handlers | `ESDConnectionManager::OnMessage` with its `catch`, and as much of the handlers as concerns the settings map and the mutex; `Exit` is the store through a null pointer |

It uses `StoredSettings` for what is stored and how the storing fails, so that it composes with
`StreamDeckMidiButton`: that module takes the payloads as given at any moment, this one shows
where they come from and that the right ones arrive.

### `MidiPorts`

`devices` is the system's list of ports per direction, with names; `saved` the global settings;
`toPlugin` and `toInspector` the two queues; `mGlobalSettings`, `port`, `initialSetup` and `alive`
the plugin; `form` the inspector's fields with a selector per direction. A handler is one step.

| TLA+ | code |
|---|---|
| `PortIndex`, `Indexed` | the search for the saved name when the index does not fit it (CPP 119-150, 180-211); the index found replaces the one in the plugin's copy |
| `Initialised`, `OpenFails`, `Rejected` | `InitialiseMidi`: no device is reported, an index out of range throws in the library and `exit` is called (CPP 155-163) |
| `DidReceiveGlobalSettings` = `KeepsPorts`, `OpensPorts`, `Exits` | CPP 388-550: nothing when nothing has changed; the input first, the output only if the input was opened |
| `PortList`, `Reply`, `SendToPlugin` | `GetMidiPortList` with its special cases for no port and for one (CPP 1244-1329) |
| `ReceivePorts`, `ReceiveSelected`, `InspectorDidReceiveGlobalSettings`, `FormSettings`, `saveGlobalSettings` | the inspector: what it does with the lists, and what it reads from a selector without a choice |
| `Plug`, `Restart` | devices come, go and are renumbered; the application starts a plugin that has exited |

### `MidiThreads`

The steps of `InitialiseMidi` that `MidiPorts` takes at once, with the other two threads. `pc`
says where the websocket thread (`"socket"`), the timer thread and the thread of CoreMIDI
(`"core"`) are; ports are numbered as they are made, `exist` and `open` say which are there and
connected; `target` is the pointer a sender has loaded from `midiOut` before it sends, `procRef`
the port the callback was called for. `Use` is the undefined behaviour of using a deleted port: the
process goes on, or ends. Whether CoreMIDI waits for a running callback when its port is disposed
of is not in the sources; `waits` is either. `get_message` is empty whenever a callback is set for
the port, which is why the loop of `HandleMidiInput` over the buttons (CPP 260-307) is never
reached and is not modelled.

### `Timer`

`loop` says where the thread is (`arm`, `wait`, `visit`, `check`, `call`, `measure`), `it` how far
its iterator has come, `ctx` has the fields of each event. `Elapse` lets time pass between any two
steps, so that the thread may be late by any amount. `Add`, `Cancel`, `Destroy` and `Join` are the
other threads. The set is ordered by `seq_num` and the loop ends at `End`, so an event that is added
in the middle of a tick is visited in that tick if the iterator is at an event before it, and not if
it is at the end already, as it is from the start of the tick when the set is empty (`First`;
`timer.h` 25-27, 44). The plugin's only event is added to an empty set (CPP 65). `calls` and `setAt`
are history: no action reads them; `setAt` is the last tick that does not count for the event.

## 3. The checks

### Runs that pass

| run | instance | states | what it shows |
|---|---|---|---|
| `Buttons` | six buttons, one for each action, several settings each | 88 000 | `IndexInBounds`, `HoldsLastEntry`, `ValueInRange`, `HeldFadesForward`, `FadeIsConfigured`, `ResumesInItsDirection`, `ControllerFollowsFade`, `ToggleEndsItsNote`, `NoteEndsWithKey`, `FadeApproaches` |
| `FailingSettings` | a CC toggle in a multi-action and a note; settings that throw before (`Null`) and after (negative time) they are stored, values above 255 | 265 000 | `TypeOK`, and under fairness `FadeEnds`, `TickIsCleared` |
| `ButtonInspector` | a CC toggle and a note, two changes of a field, queue of three; times that throw and that end the process, an emptied field | 254 000 | `TypeOK`, `PluginUsesSaved`, `FormShowsSaved`, `ChangesOneSetting`, and under fairness `SettingsArrive` |
| `MidiPorts` | two outputs and an input that are renumbered, renamed or gone; one change of devices, two saves, one inspector | 178 000 | `TypeOK`, `PluginFollowsSaved`, `PortsBelongTogether`, `NamedPortOpens`, and under fairness `VirtualOpens` |
| `MidiThreads` | two changes of the settings, a message from each sender, two received; CoreMIDI waits or does not | 145 000 | `TypeOK`, `HandlerSeesPort`, `WholeMessages` (refinement), and under fairness `CallbackReturns`, `SettingsReturn`, `TimerReturns` |
| `Timer` | a tick of 2, durations of 2 and 5 (one with a remainder), two events, time to 6 and beyond | 420 000 | `TypeOK`, `OnSchedule`, `CancelledStops`, and under fairness `TicksInTime` (refinement), `DestroyReturns` |

Why the bounds are enough:

- `Buttons`: a table of 2 entries has a first, a last and a beyond; 3 adds an entry in the middle,
  and successive equal ones. Nothing in the code depends on the size of a table but its two ends.
  There is no counter to be bounded. The constraint `OneGroup` keeps to states in which only
  buttons that can disturb each other are in use: each fading button alone with all its settings;
  the two together with a short fade each, while they stay visible, for fades that are not turned
  round and not configured again once they have moved their controllers (what they share is the order
  in which the timer thread visits them, the handler's turn and the receiver, in which each has a
  controller of its own); the two that send notes together, since both act on `sounding`; and the
  two others. It prunes states, not steps: what is checked of a state and of a step is not changed
  by it.
- `FailingSettings`: two buttons, since a mutex that one keeps blocks the other.
- `ButtonInspector`: two changes, so that the second is made in a form that has been saved once,
  or in one opened after the first; a queue of three has the message of the save behind those of
  an appearance and a press.
- `MidiPorts`: two saves, the second possibly before the first has been handled, or after the
  process has ended at it; one change of devices before, between or after them.
- `MidiThreads`: the second change of the settings is the first to delete a port that is open;
  both senders then hold a message, and a callback is in flight when another arrives.
- `Timer`: two events, so that one can be added or removed while the other is visited; a time of
  three periods, so that a thread that starts late has ticks to catch up with.

`CHECK_DEADLOCK FALSE` stands where the system may stop: the process may end in
`FailingSettings`, `LockedContexts` and `PortExit`; the threads of `MidiThreads` may have ended
the process, wait for each other, or have used up their bounds; a timer that is destroyed and a
user who has used up his changes with nothing on the way are at their end.

What the properties say, and why they are not obvious:

- `IndexInBounds` - no order of presses, releases, ticks and settings steps over an end.
- `HoldsLastEntry` - pausing, turning and finishing leave index, current value and previous value
  in step: a fade that goes forward holds exactly the entry before its index. For a toggle it is
  stated while the toggle is `InStep`: no fade of it has ended between the two looks of a press
  (`overtaken`), and its settings still ask for a fade. A direction taken from the application's
  state is not the one the index was counting in after either of these.
- `ValueInRange` - unless an entry beyond the table was read, the value is between the two
  configured ones, despite the two roundings and the out-of-range reset values.
- `HeldFadesForward` - while a momentary key is down its fade does not go back (or has only zero
  entries to go), whatever tick the last release came on. A fade left over from settings that have
  stopped fading is not spoken of: it may still be on its way back while the key is down.
- `FadeIsConfigured` - both maps agree after any succession of stores and failures.
- `ResumesInItsDirection` - the direction taken from the application's state is the one the
  index was counting in. It holds unless the end of a fade came between the two looks of a press
  (`overtaken`); the press then restarts the fade it was to pause, hence that exception. This
  and the two above are about a process that is there: the one step that ends it stores new
  settings and not their fade.
- `ControllerFollowsFade` - what the receiver's controller shows is the value of the fade, although
  `UpdateFade` reports a value only if it differs from the one before in the same direction, one
  of the four ends is not reported, and the message is put together from the maps after the
  report. It is stated for a controller that no other button can be given, while no message of
  the button is due, and for a fade that has run: a value of 0 is also that of a fade which has
  not, and then the index has to tell.
- `ToggleEndsItsNote`, `NoteEndsWithKey` - no note is left sounding by a button whose settings all
  have the same note and, for the second, the mode that ends it at the release (`KeepsItsNote`,
  `ConfiguredFor`) and that shares it with no other button. (With settings changed while a key is
  down the note does stay; see the hazard at CPP 1082.)
- `FadeApproaches` - each tick of a fade that goes forward takes it towards the target.
- `PluginUsesSaved` - with queues, exceptions, crashes and restarts in between, the plugin has the
  settings saved last once nothing about the button is on its way. A release that inserts default
  settings does not prevent that, because each later event with settings overwrites them.
- `FormShowsSaved`, `ChangesOneSetting` - filling and reading the form are two long functions with
  a branch for each action; together they change the setting the user changed and no other, but
  for the values `||` takes for missing.
- `PluginFollowsSaved` - the comparison that skips settings which have not changed never skips
  ones that have. The exception is an index the plugin has corrected by the name.
- `PortsBelongTogether`, `NamedPortOpens` - what is open fits the settings although the opening
  may stop half way, and although the indices mean other devices than when they were saved.
- `HandlerSeesPort`, `WholeMessages` - what the two mutexes are for.
- `OnSchedule` - after any delay and with any catching up, an event has been called once for each
  of its full intervals; `CancelledStops` - a cancelled one is called only if that was decided.

### Fairness and liveness

Neither the user nor the devices are ever fair.

- `StreamDeckMidiButton`: weak fairness of the timer thread's steps. Its loop (`timer.h` 20-48) runs
  until the timer is destroyed; `UpdateTimer` takes no lock but `midiMessageMutex`, which
  `MidiThreads` shows to be released. The websocket thread is not fair: it may stop for ever, and
  does when it waits for the mutex it holds. `FadeEnds` and `TickIsCleared` say that even then a
  fade that runs comes to rest and is reported.
- `ButtonInspector`, `MidiPorts`: messages are handled, and the application starts a plugin that has
  ended again and shows it its buttons, as the Stream Deck application does. `SettingsArrive`
  is stated for runs in which only settings that can be stored are saved: others can keep the
  mutex, or end the process at every restart.
- `MidiThreads`: weak fairness of each thread that is at work, strong fairness of taking a mutex,
  which is contended by one other thread that releases it again and again. No message and no
  settings need ever come. If CoreMIDI waits for its callback (`waits`), `CallbackReturns` and
  `SettingsReturn` do not hold: the deletion waits for the callback and the callback for the
  mutex of the deletion. `TimerReturns` holds even then.
- `Timer`: the clock runs, the event loop and the joining thread are scheduled, nothing says when.

### Abstract specifications

`PeriodicSource` is a clock and a counter: a tick per period, none before its time, none lost.
`TicksInTime` says that the event loop implements it, with `m_ticks` as the counter and the timer's
own event as the stop, and with it the liveness: however late, every tick comes. `MidiWire` has
a message per sender that is either handed over whole or lost; `WholeMessages` says that the byte
by byte composition in the shared vector implements it, whatever happens to the port in between.

### Runs that find what the code does not keep

| run | the code says | what happens |
|---|---|---|
| `MultiActionFade` | supported in multi-actions, "Toggle a MIDI CC message" | the step presses the fade button twice, so an idle fade never starts (CPP 953) |
| `StrayRead` | "create a vector of length setSize" | a release on the tick before the end reads entry `setSize` (CPP 1507) |
| `LockedContexts` | "unlock the context" | settings that throw leave the mutex locked; the next appearance blocks the thread (CPP 373) |
| `StaleSend` | "we have an updated value - send it" | the value is looked up again; settings in between make it the 0 of the new fade (CPP 346) |
| `PortInUse` | "mutex to lock the midi input so we don't crash" | a sender and a callback go on with ports that have been deleted (CPP 107, 172) |
| `PortExit` | "selectedOutPortIndex is out of range - something has gone wrong" | the list of a single device names port 1; opening it throws and the process exits (CPP 1262) |

Seen while modelling, in the model but without a run of their own:

- A release after a fade has ended starts it once more from its beginning (CPP 1110; the comment at
  1107 says "fade OUT after fading IN").
- A fade IN that is turned back ends at the entry after its first value, not at the first value
  itself: it ends on index 0 without a message (CPP 1496-1506, where the assignment is commented
  out).
- A momentary button looks at `ccMode`, not at `toggleFade`: with a fade time of 0, which is to be
  ignored (CPP 706), it starts the fade of its previous settings, or an empty one (CPP 914).
- A fade time below one sample interval ends the process, and again after each restart as long as
  the settings stay (CPP 1415).
- A button without settings sends NOTE ON whatever its action (the defaults of H 126).
- Without a MIDI input the output is never opened; with equal settings received again nothing
  is tried again, also when the device has come back (CPP 495-533).
- If the chosen device is gone and the index still names one, another device is opened (CPP 133-141).
- The first global settings that are saved may have "undefined" as the name of the virtual port,
  since the empty object has none (PI 653).
- A velocity of 0 or a fade time of 0 that was saved is shown as 1 and saved as 1 with the next
  change of any other field (PI 80, 327).
- Sending on an output that is not connected drops the message, although `rtmidi17.hpp` (468-471)
  says that an exception is thrown.

## 4. The proofs

The theorems hold for every value of the constants: any finite or infinite set of buttons, any of
the six actions per button, any payloads, tables and curves; any devices, names and numbers of
saves; any messages; any tick, durations and number of events. The assumptions are those the
modules state and TLC evaluates: `FadeAssumption` (times and curves are integers, the default 0 is
among them, a curve starts at 0, never falls and stays between 0 and 1), `ButtonAssumption`,
`PayloadAssumption` (what is saved for a setting is a value of its type, or null),
`InputAssumption` and `InspectorAssumption` (what a field of the form holds is a value of its
setting's type or null, a second is a fade time), `PortsAssumption` (names, the texts for none
and the unsaved settings are distinct), `ThreadsAssumption` (messages are not empty and made of
bytes), `TimerAssumption` (a tick takes time, a duration at least a tick, which the code asserts).

| module | theorem | says |
|---|---|---|
| `StreamDeckMidiButton_proofs` | `TypeCorrect`, `IndexSafe`, `RangeSafe` | `TypeOK`, `IndexInBounds`, `ValueInRange` |
| `ButtonState_proofs` | `FadesConfigured` | `FadeIsConfigured` |
| `ButtonKeys_proofs` | `ResumesSafe`, `HeldForward`, `LastEntryHeld`, `Approaches` | `ResumesInItsDirection`, `HeldFadesForward`, `HoldsLastEntry`, `FadeApproaches` |
| `ButtonKeys_proofs` | `ControllerFollows` | `ControllerFollowsFade` |
| `ButtonKeys_proofs` | `ToggleEnds`, `NoteEnds` | `ToggleEndsItsNote`, `NoteEndsWithKey` |
| `ButtonKeys_proofs` | `OnlyTurnedReadsBeyond`, `TogglesReadInTable`, `StorableNeverBlocks` | what it takes for the runs `StrayRead` and `LockedContexts` to go wrong |
| `ButtonInspector_proofs` | `TypeCorrect`, `UsesSaved`, `FormIsSaved`, `OneSetting` | `TypeOK`, `PluginUsesSaved`, `FormShowsSaved`, `ChangesOneSetting` |
| `Timer_proofs` | `TypeCorrect`, `KeepsSchedule`, `CancelTakesEffect`, `NeverAhead` | `TypeOK`, `OnSchedule`, `CancelledStops`, and that the timer implements the safety of `PeriodicSource` |
| `MidiPorts_proofs` | `TypeCorrect`, `FollowsSaved`, `PortsTogether`, `NamedOpens` | `TypeOK`, `PluginFollowsSaved`, `PortsBelongTogether`, `NamedPortOpens` |
| `MidiThreads_proofs` | `TypeCorrect`, `HandlerIsSafe`, `MessagesAreWhole` | `TypeOK`, `HandlerSeesPort`, and that the threads implement `MidiWire` |

Each rests on an inductive invariant that says more than the property:

- *Fades.* `ButtonInv == TypeOK /\ FadesGood /\ TimerAtFade /\ CallsAtFades`. `IndexInBounds` needs
  the type of each fade; `ValueInRange` needs the index in the table, to know that an entry is
  read, and the arithmetic of `FadeSet_proofs` (a part of a way, rounded up or down, stays on the
  way). `TypeOK` needs that the timer and the pending calls of a handler are at buttons that
  *have* a fade, since they read it without asking; that holds because no step takes an entry out
  of the map, which the lemmas carry along as `FadesKept`.
- *Settings.* `FadeIsConfigured` is proved from `crashed \/ FadesMatch`, which speaks of the
  fade of every button with a positive time; every step of a fade keeps its table (`SameTable`), and
  a store with a positive time stores both entries, neither, or ends the process (`PositiveTime`).
- *Keys.* Sixteen actions of any number of buttons would give each invariant as many cases, so
  every step is first seen from one button `c`: `StepAtButton` shows that it is one of the nine
  cases of `AtButton(c)` (left alone, configured, three kinds of press, two of release, a call on
  its fade, a tick), each saying what becomes of the settings, the fade, the key and the *task* of
  `c`, which is the call its handler makes next. `KeysInv` then has one part per property.
  `Resumes` says of a toggle's fade what its direction is with and without a press under way; it
  needs `NeverTurned`, since nothing but a momentary key ever turns a fade back. `Follows` says
  the same of a momentary fade at each place of the release that turns it. `Marks` ties the
  index, the current value and the previous value together for a fade that goes forward, and says of
  any fade that the previous value of the *other* direction is the reset value; only so does it
  survive the tick that ends a fade and the press that then turns its direction. `FadeApproaches`
  follows with `NextEntryApproaches`: the table is monotone, since a part of a way grows with the
  part and rounding keeps the order. `HandlerShape` says what can still be to do: one call, or in a
  multi-action two.
- *Notes.* `NotesHeld` says for a button and a note no other can play: if the note sounds, the
  entry of the button has this note and the next press (the release) ends it. For that nobody else
  may send the note: `NotesInv` says that an entry is made of saved settings or of inserted
  defaults, which send velocity 0 only, and that the timer thread sends for buttons with a
  controller only (`RestsAt`: the fade of any other is never started). `Persists` shows that an
  entry, once there, is replaced by saved settings or keeps its note.
- *Controllers.* `ControllersFollow` has the property for each button (`FollowsItsFade`) and
  `RunsWhenTurned`: a fade that a release has found running still runs when it is turned, unless
  it was overtaken, and that of a mode without fade has never moved. `StaysPut` shows with `Marks`
  that a step which changes what is claimed of a button's controller is a tick that is reported or
  a store, after which the new fade has not moved (`SilentTick`: a value that is not reported is
  the one before). `OthersMove` shows that no other step sends anything for the controller of the
  button, and `SendsNext` that what is due is sent by the timer thread's next step.
- *What the findings need.* `OnlyTurnedReadsBeyond`: the step that reads beyond a table is always
  the tick of a momentary fade on its way back; with no such button `TogglesReadInTable` has
  `ValueInRange` without its exception. `StorableNeverBlocks`: if nothing is saved that
  `StoreButtonSettings` throws at, the mutex is free between handlers and the websocket thread never
  blocks on it. These are hypotheses on the constants: there is no `"CC"` button, and there is no
  payload that throws. A user with toggles and notes only, who empties no field of the form and
  enters no negative time, satisfies both.
- *Inspector.* The proof's `Inv` says that the last message about a button on the way to the plugin
  carries what is saved (`CarriesSaved`), and of a plugin that runs that for each button it
  has what is saved, awaits it, could not convert it, or does not know the button (`Known`).
  The exit is covered by `Gone`. `FormIsSaved` needs that what fills each field of the form
  and what reads it are inverse, action by action, but for the values `||` replaces.
- *Timer.* `TimerInv` ties `now`, `m_ticks`, the deadline and the drift together at each place of
  the loop (`InTime`): the deadline is never before the next tick's time, because the drift is never
  more than the time gone by. `Counted` keeps the account of each event: calls times interval plus
  `elapsed` is the number of visits; it holds in the middle of a tick, too, for events visited
  already and those still to be visited (`Seen`). What visits and does not visit an event is the
  iterator: `FirstIs` says that `First` is the least event from a number on, which exists since
  the numbers are well-founded, so that no event is passed over.
- *Ports.* `PluginInv == PluginTyped /\ Gone /\ LastIs(toPlugin, saved) /\ FollowsInv /\
  PortsBelongTogether`. `LastIs` is what makes it inductive: the last settings in the queue are the
  ones saved last, so that the step which takes the last of them from the queue hands the right ones
  to the plugin. `Gone` says that an exit leaves nothing of the queue and the copy behind.
- *Threads.* `ThreadsInv` says who holds which mutex by where each thread is, that a pointer
  dangles between a `delete` and a `new` only, and how much of its message the holder of
  `midiMessageMutex` has in the vector. The last gives the refinement: at `Transmit` the vector
  is the sender's message.

Only model-checked: all liveness (`FadeEnds`, `TickIsCleared`, `SettingsArrive`, `VirtualOpens`,
`CallbackReturns`, `SettingsReturn`, `TimerReturns`, `DestroyReturns`, the liveness in
`TicksInTime`), which is beyond TLAPS. Every invariant and every action property of the passing
runs is proved.

## 5. How the models fit together

Each module takes as given what another shows. `StreamDeckMidiButton` lets any payload arrive at any
moment, which covers all that `ButtonInspector` can deliver; its timer is called at any moment,
which covers the schedule of `Timer`; its messages are sent in one step, which `WholeMessages`
justifies. `MidiPorts` opens ports in one step, and the websocket thread handles nothing else in
the meantime; what the other threads see in between is in `MidiThreads`. The one thing that is in
no module is a handler that blocks in `MidiThreads` while a fade runs in `StreamDeckMidiButton`;
that the fade goes on there without the websocket thread is `FadeEnds`.

## 6. Not modelled

- The vendored libraries (asio, websocketpp, the JSON library, RtMidi, most of rtmidi17), which are
  nearly all lines of the tree: third-party code, of which only the calls the plugin makes are
  modelled. `RtMidi.cpp` is in the tree and not used. rtmidi17's parsing of MIDI packets is its own.
- The loop of `HandleMidiInput` over the buttons (CPP 260-307): it is not reached, see `MidiThreads`.
- The data races themselves: an operation on a map or a set is one step, and so is `UpdateFade`;
  what a torn read gives is up to the library. The constructor's store beyond its tables.
- The icon that `SendToPlugin` sets when the property inspector reports an MMC action (CPP
  1157-1161, 1202-1242); the `operator[]` in it may insert default settings, as that of a release
  does (CPP 1082).
- `printDebug`, and debug texts. (A save that changes only this saves the form as it stands, which
  is `ChangeDebug`.)
- JSON access, registration and the sending of JSON in the connection manager; icons and base64;
  path handling, the localizer and `main`; what the property inspector only shows.
