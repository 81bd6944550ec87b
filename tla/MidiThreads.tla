---------------------------- MODULE MidiThreads -----------------------------
(***************************************************************************)
(* The three threads that meet at the MIDI ports of the plugin             *)
(* (StreamDeckMidiButton.cpp).  The websocket thread, "socket", replaces   *)
(* both ports whenever the global settings change, and sends the messages  *)
(* of the keys; the "timer" thread sends those of the fades; a thread of   *)
(* CoreMIDI, "core", calls the input port's callback (rtmidi17,            *)
(* coreaudio.hpp), which calls HandleMidiInput.                            *)
(*                                                                         *)
(* midiMessageMutex guards the vector all messages are put together in,    *)
(* midiUpdateMutex the input port; nothing guards the output port.  Using  *)
(* a port that has been deleted ends the process, or does nothing.         *)
(***************************************************************************)
EXTENDS Naturals, Sequences

CONSTANTS
    Messages,       \* the messages that are sent, as sequences of bytes
    DisposeWaits,   \* whether CoreMIDI waits for a callback when its port is disposed of
    None,           \* no message
    MaxSettings, MaxSent, MaxReceived   \* bounds on what the threads do

Senders == {"socket", "timer"}
Threads == Senders \cup {"core"}
Dirs == {"IN", "OUT"}
Ports == 0 .. MaxSettings   \* the ports of a direction, in the order they are made

ASSUME ThreadsAssumption ==
    /\ Messages \subseteq Seq(0 .. 255) \ {<<>>} /\ None \notin Messages
    /\ DisposeWaits \subseteq BOOLEAN
    /\ MaxSettings \in Nat /\ MaxSent \in Nat /\ MaxReceived \in Nat

VARIABLES
    pc,              \* where each thread is
    crashed,         \* the process has ended
    midi,            \* the pointers midiIn and midiOut
    exist,           \* the ports that are not deleted
    open,            \* those that are connected
    userCallback,    \* the input ports for which a callback is set
    midiUpdateMutex, midiMessageMutex,   \* the thread that holds it, or "free"
    midiMessage,     \* the vector the messages are put together in
    message, pushed, \* the message a sender puts together, and how much of it
    target,          \* the port a sender has loaded from midiOut
    procRef,         \* the port whose callback CoreMIDI has called
    wire,            \* history: the messages that have left the plugin
    waits,           \* the choice from DisposeWaits
    settings, sent, received   \* how much the threads have done

ports == <<midi, exist, open, userCallback>>
sending == <<midiMessageMutex, midiMessage, message, pushed, target, wire>>
receiving == <<procRef, received>>
vars == <<pc, crashed, ports, midiUpdateMutex, sending, receiving, waits, settings, sent>>

Composing == {"lockMessage", "clear", "push", "load", "transmit"}
SocketLabels == {"lock", "delete", "new", "open", "unlock", "deleteOut", "newOut", "openOut"}
CoreLabels == {"parse", "wait", "read", "unlock", "return"}
Labels == {"idle", "unlockMessage"} \cup Composing \cup SocketLabels \cup CoreLabels

\* A port that has been deleted is not connected any more.
PortsTyped ==
    /\ midi \in [Dirs -> Ports]
    /\ exist \in [Dirs -> SUBSET Ports]
    /\ open \in [Dirs -> SUBSET Ports]
    /\ \A d \in Dirs : open[d] \subseteq exist[d]
    /\ userCallback \in SUBSET Ports

SendingTyped ==
    /\ midiMessageMutex \in {"free"} \cup Senders
    /\ midiMessage \in Seq(0 .. 255)
    /\ message \in [Senders -> Messages \cup {None}]
    /\ pushed \in [Senders -> Nat]
    /\ target \in [Senders -> Ports]
    /\ wire \in Seq(Seq(0 .. 255))

CountsTyped ==
    /\ midiUpdateMutex \in {"free", "socket", "core"}
    /\ procRef \in Ports
    /\ settings \in 0 .. MaxSettings /\ sent \in [Senders -> 0 .. MaxSent]
    /\ received \in 0 .. MaxReceived

TypeOK ==
    /\ pc \in [Threads -> Labels]
    /\ crashed \in BOOLEAN /\ waits \in BOOLEAN
    /\ PortsTyped /\ SendingTyped /\ CountsTyped

\* The constructor makes both ports and opens none.
Init ==
    /\ pc = [t \in Threads |-> "idle"]
    /\ crashed = FALSE
    /\ midi = [d \in Dirs |-> 0]
    /\ exist = [d \in Dirs |-> {0}]
    /\ open = [d \in Dirs |-> {}]
    /\ userCallback = {}
    /\ midiUpdateMutex = "free" /\ midiMessageMutex = "free"
    /\ midiMessage = <<>>
    /\ message = [t \in Senders |-> None]
    /\ pushed = [t \in Senders |-> 0]
    /\ target = [t \in Senders |-> 0]
    /\ procRef = 0 /\ wire = <<>>
    /\ waits \in DisposeWaits
    /\ settings = 0 /\ sent = [t \in Senders |-> 0] /\ received = 0

\* A step of a thread: none is made when the process has ended.
Goto(t, from, to) == ~crashed /\ pc[t] = from /\ pc' = [pc EXCEPT ![t] = to]

\* The process may go on when a port that has been deleted is used, or end.
Use(d, n) == IF n \in exist[d] THEN crashed' = FALSE ELSE crashed' \in BOOLEAN

-----------------------------------------------------------------------------
(* The websocket thread: DidReceiveGlobalSettings calls InitialiseMidi for *)
(* the input, and for the output if the input was opened.                  *)

DidReceiveGlobalSettings ==
    /\ settings < MaxSettings
    /\ settings' = settings + 1
    /\ Goto("socket", "idle", "lock")
    /\ UNCHANGED <<crashed, ports, midiUpdateMutex, sending, receiving, waits, sent>>

\* Mutant: the input is replaced without its mutex.
LockUpdate_NoMutex ==
    /\ Goto("socket", "lock", "delete")
    /\ UNCHANGED <<crashed, ports, midiUpdateMutex, sending, receiving, waits, settings, sent>>

LockUpdate ==
    /\ Goto("socket", "lock", "delete")
    /\ midiUpdateMutex = "free" /\ midiUpdateMutex' = "socket"
    /\ UNCHANGED <<crashed, ports, sending, receiving, waits, settings, sent>>

Deleted(d) ==
    /\ exist' = [exist EXCEPT ![d] = @ \ {midi[d]}]
    /\ open' = [open EXCEPT ![d] = @ \ {midi[d]}]
    /\ UNCHANGED <<midi, userCallback>>

\* Mutant: the destructor does not disconnect the port.
DeleteIn_KeepsOpen ==
    /\ Goto("socket", "delete", "new")
    /\ exist' = [exist EXCEPT !["IN"] = @ \ {midi["IN"]}]
    /\ UNCHANGED <<crashed, midi, open, userCallback, midiUpdateMutex, sending, receiving,
                   waits, settings, sent>>

\* The destructor disposes of the port, which may wait for its callback.
DeleteIn ==
    /\ Goto("socket", "delete", "new")
    /\ waits => ~(pc["core"] # "idle" /\ procRef = midi["IN"])
    /\ Deleted("IN")
    /\ UNCHANGED <<crashed, midiUpdateMutex, sending, receiving, waits, settings, sent>>

New(d) ==
    /\ midi' = [midi EXCEPT ![d] = settings]
    /\ exist' = [exist EXCEPT ![d] = @ \cup {settings}]
    /\ UNCHANGED open

NewIn ==
    /\ Goto("socket", "new", "open")
    /\ New("IN")
    /\ userCallback' = userCallback \cup {settings}
    /\ UNCHANGED <<crashed, midiUpdateMutex, sending, receiving, waits, settings, sent>>

\* The port is opened unless there is no device.
Opened(d) ==
    /\ open' \in {open, [open EXCEPT ![d] = @ \cup {midi[d]}]}
    /\ UNCHANGED <<midi, exist, userCallback>>

OpenIn ==
    /\ Goto("socket", "open", "unlock")
    /\ Opened("IN")
    /\ UNCHANGED <<crashed, midiUpdateMutex, sending, receiving, waits, settings, sent>>

\* Mutant: the mutex is not released when no device was found.
UnlockUpdate_OnSuccess ==
    /\ IF midi["IN"] \in open["IN"]
       THEN Goto("socket", "unlock", "deleteOut") /\ midiUpdateMutex' = "free"
       ELSE Goto("socket", "unlock", "idle") /\ UNCHANGED midiUpdateMutex
    /\ UNCHANGED <<crashed, ports, sending, receiving, waits, settings, sent>>

UnlockUpdate ==
    /\ Goto("socket", "unlock", IF midi["IN"] \in open["IN"] THEN "deleteOut" ELSE "idle")
    /\ midiUpdateMutex' = "free"
    /\ UNCHANGED <<crashed, ports, sending, receiving, waits, settings, sent>>

DeleteOut ==
    /\ Goto("socket", "deleteOut", "newOut")
    /\ Deleted("OUT")
    /\ UNCHANGED <<crashed, midiUpdateMutex, sending, receiving, waits, settings, sent>>

NewOut ==
    /\ Goto("socket", "newOut", "openOut")
    /\ New("OUT")
    /\ UNCHANGED <<crashed, userCallback, midiUpdateMutex, sending, receiving, waits,
                   settings, sent>>

OpenOut ==
    /\ Goto("socket", "openOut", "idle")
    /\ Opened("OUT")
    /\ UNCHANGED <<crashed, midiUpdateMutex, sending, receiving, waits, settings, sent>>

InitialiseMidi ==
    \/ LockUpdate \/ DeleteIn \/ NewIn \/ OpenIn \/ UnlockUpdate
    \/ DeleteOut \/ NewOut \/ OpenOut

-----------------------------------------------------------------------------
(* The senders: the handlers of the keys and UpdateTimer *)

\* A key is pressed or released, or a fade has a new value.
Compose(t) ==
    /\ sent[t] < MaxSent
    /\ sent' = [sent EXCEPT ![t] = @ + 1]
    /\ Goto(t, "idle", "lockMessage")
    /\ \E m \in Messages : message' = [message EXCEPT ![t] = m]
    /\ UNCHANGED <<crashed, ports, midiUpdateMutex, midiMessageMutex, midiMessage, pushed,
                   target, wire, receiving, waits, settings>>

\* Mutant: the timer thread puts its messages together without the mutex.
LockMessage_NotTimer(t) ==
    /\ Goto(t, "lockMessage", "clear")
    /\ IF t = "timer" THEN UNCHANGED midiMessageMutex
       ELSE midiMessageMutex = "free" /\ midiMessageMutex' = t
    /\ UNCHANGED <<crashed, ports, midiUpdateMutex, midiMessage, message, pushed, target,
                   wire, receiving, waits, settings, sent>>

LockMessage(t) ==
    /\ Goto(t, "lockMessage", "clear")
    /\ midiMessageMutex = "free" /\ midiMessageMutex' = t
    /\ UNCHANGED <<crashed, ports, midiUpdateMutex, midiMessage, message, pushed, target,
                   wire, receiving, waits, settings, sent>>

Clear(t) ==
    /\ Goto(t, "clear", "push")
    /\ midiMessage' = <<>>
    /\ pushed' = [pushed EXCEPT ![t] = 0]
    /\ UNCHANGED <<crashed, ports, midiUpdateMutex, midiMessageMutex, message, target, wire,
                   receiving, waits, settings, sent>>

push_back(t) ==
    /\ Goto(t, "push", IF pushed[t] + 1 = Len(message[t]) THEN "load" ELSE "push")
    /\ midiMessage' = Append(midiMessage, message[t][pushed[t] + 1])
    /\ pushed' = [pushed EXCEPT ![t] = @ + 1]
    /\ UNCHANGED <<crashed, ports, midiUpdateMutex, midiMessageMutex, message, target, wire,
                   receiving, waits, settings, sent>>

\* SendMidiMessage takes the port from midiOut, and then sends on it.
Load(t) ==
    /\ Goto(t, "load", "transmit")
    /\ target' = [target EXCEPT ![t] = midi["OUT"]]
    /\ UNCHANGED <<crashed, ports, midiUpdateMutex, midiMessageMutex, midiMessage, message,
                   pushed, wire, receiving, waits, settings, sent>>

Transmit(t) ==
    /\ Goto(t, "transmit", "unlockMessage")
    /\ Use("OUT", target[t])
    /\ wire' = IF target[t] \in open["OUT"] THEN Append(wire, midiMessage) ELSE wire
    /\ UNCHANGED <<ports, midiUpdateMutex, midiMessageMutex, midiMessage, message, pushed,
                   target, receiving, waits, settings, sent>>

\* Mutant: the mutex is kept when the message was not sent.
UnlockMessage_OnSuccess(t) ==
    /\ Goto(t, "unlockMessage", "idle")
    /\ midiMessageMutex' = IF target[t] \in open["OUT"] THEN "free" ELSE midiMessageMutex
    /\ UNCHANGED <<crashed, ports, midiUpdateMutex, midiMessage, message, pushed, target,
                   wire, receiving, waits, settings, sent>>

UnlockMessage(t) ==
    /\ Goto(t, "unlockMessage", "idle")
    /\ midiMessageMutex' = "free"
    /\ UNCHANGED <<crashed, ports, midiUpdateMutex, midiMessage, message, pushed, target,
                   wire, receiving, waits, settings, sent>>

Send(t) ==
    \/ LockMessage(t) \/ Clear(t) \/ push_back(t) \/ Load(t) \/ Transmit(t)
    \/ UnlockMessage(t)

-----------------------------------------------------------------------------
(* The thread of CoreMIDI *)

\* A message arrives at a port that is open: midiInputCallback is called with it.
Receive ==
    /\ received < MaxReceived
    /\ received' = received + 1
    /\ Goto("core", "idle", "parse")
    /\ procRef' \in open["IN"]
    /\ UNCHANGED <<crashed, ports, midiUpdateMutex, sending, waits, settings, sent>>

\* The callback function is kept in the port.
CallHandler ==
    /\ Goto("core", "parse", "wait")
    /\ Use("IN", procRef)
    /\ UNCHANGED <<ports, midiUpdateMutex, sending, receiving, waits, settings, sent>>

HandleLock ==
    /\ Goto("core", "wait", "read")
    /\ midiUpdateMutex = "free" /\ midiUpdateMutex' = "core"
    /\ UNCHANGED <<crashed, ports, sending, receiving, waits, settings, sent>>

\* What midiIn->get_message returns: nothing, when a callback is set for the port,
\* and else what is in its queue.
get_message == IF midi["IN"] \in userCallback THEN {} ELSE {procRef}

\* HandleMidiInput asks the port midiIn for the message; there is never one.
HandleRead ==
    /\ Goto("core", "read", "unlock")
    /\ Use("IN", midi["IN"])
    /\ UNCHANGED <<ports, midiUpdateMutex, sending, receiving, waits, settings, sent>>

\* Mutant: the mutex is released only when there was a message.
HandleUnlock_OnMessage ==
    /\ Goto("core", "unlock", "return")
    /\ midiUpdateMutex' = IF get_message = {} THEN midiUpdateMutex ELSE "free"
    /\ UNCHANGED <<crashed, ports, sending, receiving, waits, settings, sent>>

HandleUnlock ==
    /\ Goto("core", "unlock", "return")
    /\ midiUpdateMutex' = "free"
    /\ UNCHANGED <<crashed, ports, sending, receiving, waits, settings, sent>>

\* midiInputCallback clears the message, and keeps the time of it, in the port.
Return ==
    /\ Goto("core", "return", "idle")
    /\ Use("IN", procRef)
    /\ UNCHANGED <<ports, midiUpdateMutex, sending, receiving, waits, settings, sent>>

HandleMidiInput == CallHandler \/ HandleLock \/ HandleRead \/ HandleUnlock \/ Return

-----------------------------------------------------------------------------

Next ==
    \/ DidReceiveGlobalSettings \/ InitialiseMidi
    \/ \E t \in Senders : Compose(t) \/ Send(t)
    \/ Receive \/ HandleMidiInput

Spec == Init /\ [][Next]_vars

\* The operating system lets every thread run, and a mutex that is free often
\* enough is got; no message and no settings need ever come.
FairSpec ==
    /\ Spec
    /\ WF_vars(InitialiseMidi) /\ SF_vars(LockUpdate)
    /\ WF_vars(HandleMidiInput) /\ SF_vars(HandleLock)
    /\ \A t \in Senders : WF_vars(Send(t)) /\ SF_vars(LockMessage(t))

-----------------------------------------------------------------------------

\* Whenever the settings change, HandleMidiInput finds an input port that exists
\* where midiIn points to: the websocket thread replaces it under the mutex.
HandlerSeesPort == pc["core"] = "read" => midi["IN"] \in exist["IN"]

\* However the two senders and the changes of the settings interleave, what leaves
\* the plugin is whole messages, each one once and those of a thread in its order.
Wire == INSTANCE MidiWire WITH
            outbox <- [t \in Senders |-> IF pc[t] \in Composing THEN message[t] ELSE None]

WholeMessages == Wire!Spec

\* The callback of an input message ends, whatever the other threads do, unless
\* CoreMIDI waits for it while the thread that deletes the port has the mutex.
CallbackReturns == ~waits /\ pc["core"] # "idle" ~> pc["core"] = "idle" \/ crashed

\* The websocket thread gets both ports replaced and goes on with its messages, on
\* the same condition.
SettingsReturn == ~waits /\ pc["socket"] # "idle" ~> pc["socket"] = "idle" \/ crashed

\* A fade's message that is put together leaves the thread free to go on, although
\* the other sender uses the same mutex, and even if CoreMIDI and the websocket
\* thread wait for each other.
TimerReturns == pc["timer"] # "idle" ~> pc["timer"] = "idle" \/ crashed

-----------------------------------------------------------------------------
(* What a comment of the plugin says, and the code does not keep *)

\* StreamDeckMidiButton.h: "mutex to lock the midi input so we don't crash"; no
\* thread is at work on a port that has been deleted.
UsesLivePorts ==
    /\ pc["core"] # "idle" => procRef \in exist["IN"]
    /\ \A t \in Senders : pc[t] = "transmit" => target[t] \in exist["OUT"]

=============================================================================
