------------------------------ MODULE MidiWire ------------------------------
(***************************************************************************)
(* What the threads that send MIDI messages promise the receiver: each     *)
(* hands over one message at a time, and what arrives is these messages,   *)
(* each whole, once at most, and those of a thread in its order.  A        *)
(* message may be lost: the port may be closed.                            *)
(***************************************************************************)
EXTENDS Sequences

CONSTANTS Senders, Messages, None

VARIABLES
    outbox,   \* the message each sender is handing over, or None
    wire      \* the messages that have arrived

vars == <<outbox, wire>>

Init == outbox = [t \in Senders |-> None] /\ wire = <<>>

Submit(t) ==
    /\ outbox[t] = None
    /\ \E m \in Messages : outbox' = [outbox EXCEPT ![t] = m]
    /\ UNCHANGED wire

HandOver(t) ==
    /\ outbox[t] # None
    /\ wire' \in {wire, Append(wire, outbox[t])}
    /\ outbox' = [outbox EXCEPT ![t] = None]

Next == \E t \in Senders : Submit(t) \/ HandOver(t)

Spec == Init /\ [][Next]_vars

=============================================================================
