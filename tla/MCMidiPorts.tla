---------------------------- MODULE MCMidiPorts -----------------------------
(***************************************************************************)
(* Instances of MidiPorts for TLC.                                         *)
(***************************************************************************)
EXTENDS MidiPorts

CONSTANTS a, b, c

Devices(outputs, inputs) == [d \in Dirs |-> IF d = "OUT" THEN outputs ELSE inputs]

\* Two outputs that are renumbered, of which one may be gone; an input that may be
\* gone as well, or have the name of an output.
MCConfigs ==
    {Devices(<<a, b>>, <<c>>), Devices(<<b, a>>, <<c, a>>), Devices(<<b>>, <<>>),
     Devices(<<>>, <<c>>)}

OneDevice == {Devices(<<a>>, <<a>>)}

MCTyped == {"Keys"}
MCUnset == "undefined"

=============================================================================
