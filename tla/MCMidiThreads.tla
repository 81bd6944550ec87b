--------------------------- MODULE MCMidiThreads ----------------------------
(***************************************************************************)
(* Instances of MidiThreads for TLC.                                       *)
(***************************************************************************)
EXTENDS MidiThreads

\* A controller's value, and a program.
MCMessages == {<<176, 7, 64>>, <<192, 5>>}

=============================================================================
