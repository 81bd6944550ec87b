----------------------- MODULE MCStreamDeckMidiButton -----------------------
(***************************************************************************)
(* Instances of StreamDeckMidiButton for TLC.                              *)
(*                                                                         *)
(* Curves: e^(fadeCurve * intervalSize) is 2 for curve 1 and 1/2 for curve *)
(* -1, so that the fraction (e^ci - 1) / (e^cn - 1) of the constructor is  *)
(* a ratio of integers.                                                    *)
(***************************************************************************)
EXTENDS StreamDeckMidiButton, TLC

MCCurveProgress(k, i, n) == IF k > 0 THEN 2^i - 1 ELSE 2^(n - i) * (2^i - 1)
MCCurveSpan(k, n) == 2^n - 1

Times == {-4, 0, 1, 4, 6}
Curves == {-1, 0, 1}

\* What the property inspector saves for a CC button and a CC toggle button.
CCPayload(cc, from, to, mode, time, curve) ==
    [statusByte |-> 176, dataByte1 |-> cc, dataByte2 |-> from, dataByte2Alt |-> to,
     ccMode |-> mode, fadeTime |-> time, fadeCurve |-> curve]

TogglePayload(cc, from, to, fade, time, curve) ==
    [statusByte |-> 176, dataByte1 |-> cc, dataByte2 |-> from, dataByte2Alt |-> to,
     toggleFade |-> fade, fadeTime |-> time, fadeCurve |-> curve]

NotePayload(note, velocity, mode) ==
    [statusByte |-> 144, dataByte1 |-> note, dataByte2 |-> velocity, noteOffMode |-> mode]

\* A field the user has emptied: parseInt gives NaN, which is saved as null.
EmptiedPayload == [statusByte |-> 176, dataByte1 |-> Null]

One == {1}
Two == {1, 2}
Six == 1..6

OneCC == [c \in One |-> "CC"]
OneToggle == [c \in One |-> "CC_TOGGLE"]
ToggleAndNote == <<"CC_TOGGLE", "NOTE_ON">>
AllActions == <<"CC", "CC_TOGGLE", "NOTE_ON", "NOTE_ON_TOGGLE", "PROGRAM_CHANGE", "MMC">>

\* Momentary fades, up and down, straight and curved, and a mode without fade.
MomentaryPayloads ==
    {CCPayload(7, 2, 4, 2, 6, -1), CCPayload(7, 1, 4, 3, 4, 0), CCPayload(7, 2, 0, 1, 4, 0)}

\* A toggle button, with fades up and down, and without.
TogglePayloads ==
    {TogglePayload(8, 0, 2, TRUE, 4, 0), TogglePayload(8, 2, 1, TRUE, 6, 1),
     TogglePayload(8, 0, 2, TRUE, 0, 0)}

\* A button for each action.  One of the fading buttons is in use, or both with a
\* short fade each that stay visible, run on to their end and are not configured again
\* once they have moved their controllers, or the two that send notes, or the two
\* others; the settings of the rest stay as they are.
AllPayloads ==
    <<MomentaryPayloads, TogglePayloads,
      {NotePayload(60, 100, 2), NotePayload(60, 50, 2)},
      {NotePayload(62, 100, 0), NotePayload(62, 0, 0)},
      {<<>>, [statusByte |-> 192, dataByte1 |-> 5]}, {[dataByte5 |-> 2]}>>

\* What the buttons that are not in use keep; none of it asks for a fade.
First == [c \in Six |-> CHOOSE p \in AllPayloads[c] : ~SettingsFrom(p).toggleFade]

ShortFades == [First EXCEPT ![1] = CCPayload(7, 1, 4, 3, 4, 0),
                            ![2] = TogglePayload(8, 0, 2, TRUE, 4, 0)]

OneGroupGiven ==
    {ShortFades} \cup UNION {{[First EXCEPT ![pair[1]] = p, ![pair[2]] = q] :
               <<p, q>> \in AllPayloads[pair[1]] \X AllPayloads[pair[2]]} :
           pair \in {<<1, 1>>, <<2, 2>>, <<3, 4>>, <<5, 6>>}}

InUse(group) ==
    /\ \A c \in Six \ group :
           storedButtonSettings[c] = NoEntry /\ saved[c] = First[c]
    /\ timer.it \in group \/ (timer.pc = "idle" /\ timer.it = 1)

OneGroup ==
    \/ \E group \in {{1}, {2}, {3, 4}, {5, 6}} : InUse(group)
    \/ /\ InUse({1, 2}) /\ saved = ShortFades
       /\ ~overtaken /\ held # {1, 2} /\ Fading \subseteq mVisibleContexts
       /\ storedFadeSettings[1] # NoEntry => ~storedFadeSettings[1].reverseFade
       /\ \A c \in Fading : storedFadeSettings[c].currentValue = 0
              => \A m \in controllers : m[2] # TargetOf(c)[2] \/ m[3] = 0

\* Settings whose storing throws, before or after they are in the map; the
\* values of one are no bytes.
FailingPayloads ==
    <<{TogglePayload(7, 1, 300, TRUE, 4, 0), TogglePayload(7, 1, 2, TRUE, -4, 0)},
      {EmptiedPayload, NotePayload(60, 200, 1)}>>

RaisedPayloads == <<{TogglePayload(7, 2, 4, TRUE, 4, 0)}>>
PlainPayloads == <<{CCPayload(7, 1, 3, 2, 4, 0)}>>
EmptiedPayloads == <<{EmptiedPayload, CCPayload(7, 1, 3, 2, 4, 0)}>>

AnyGiven ==
    {given \in [Contexts -> UNION {Payloads[c] : c \in Contexts}] :
        \A c \in Contexts : given[c] \in Payloads[c]}

WildValues == {300}
TameValues == {0}

=============================================================================
