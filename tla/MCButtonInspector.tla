-------------------------- MODULE MCButtonInspector --------------------------
(***************************************************************************)
(* Instances of ButtonInspector for TLC.  No table is calculated here, so  *)
(* that the curve does not matter.                                         *)
(***************************************************************************)
EXTENDS ButtonInspector

Times == {-4, 0, 1, 400}
Curves == {0}
MCCurveProgress(k, i, n) == i
MCCurveSpan(k, n) == n

Two == {1, 2}
OneFades == <<"CC_TOGGLE", "NOTE_ON">>

\* Times that cannot be stored among them, and a field that is emptied.
MCInputs ==
    [statusByte |-> {2}, dataByte1 |-> {60}, dataByte2 |-> {0, Null}, dataByte2Alt |-> {},
     dataByte5 |-> {2}, noteOffMode |-> {2}, ccMode |-> {2}, toggleFade |-> BOOLEAN,
     fadeTime |-> Times, fadeCurve |-> {}]

=============================================================================
