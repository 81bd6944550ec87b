--------------------------- MODULE StoredSettings ---------------------------
(***************************************************************************)
(* The settings of a button: what StoreButtonSettings makes of the JSON    *)
(* object that the property inspector has saved for the button, and when   *)
(* it does not come to its end.                                            *)
(***************************************************************************)
EXTENDS FadeSet

CONSTANT Null     \* a JSON null, which is how NaN is saved

Actions == {"NOTE_ON", "NOTE_ON_TOGGLE", "CC", "CC_TOGGLE", "PROGRAM_CHANGE", "MMC"}
FadeModes == {2, 3}

ButtonSettings ==
    [statusByte : Int, dataByte1 : Int, dataByte2 : Int, dataByte2Alt : Int,
     dataByte5 : Int, noteOffMode : Int, state : {0, 1}, ccMode : Int,
     toggleFade : BOOLEAN, fadeTime : FadeTimes, fadeCurve : FadeCurves]

DefaultSettings ==
    [statusByte |-> 144, dataByte1 |-> 0, dataByte2 |-> 0, dataByte2Alt |-> 0,
     dataByte5 |-> 0, noteOffMode |-> 0, state |-> 0, ccMode |-> 0,
     toggleFade |-> FALSE, fadeTime |-> 0, fadeCurve |-> 0]

\* The conversion of a null to a number throws, before anything is stored.
Malformed(p) == \E name \in DOMAIN p : p[name] = Null

\* A setting that is absent keeps its default.
Read(p, name) == IF name \in DOMAIN p THEN p[name] ELSE DefaultSettings[name]

WantsFade(p) ==
    IF "ccMode" \in DOMAIN p THEN p.ccMode \in FadeModes ELSE Read(p, "toggleFade")

\* The settings that are stored; a fade time of 0 switches toggleFade off.
SettingsFrom(p) ==
    [statusByte |-> Read(p, "statusByte"), dataByte1 |-> Read(p, "dataByte1"),
     dataByte2 |-> Read(p, "dataByte2"), dataByte2Alt |-> Read(p, "dataByte2Alt"),
     dataByte5 |-> Read(p, "dataByte5"), noteOffMode |-> Read(p, "noteOffMode"),
     state |-> 0, ccMode |-> Read(p, "ccMode"),
     toggleFade |-> WantsFade(p) /\ Read(p, "fadeTime") # 0,
     fadeTime |-> Read(p, "fadeTime"), fadeCurve |-> Read(p, "fadeCurve")]

StoreThrows(p) ==
    Malformed(p) \/ (SettingsFrom(p).toggleFade /\ LengthError(SettingsFrom(p).fadeTime))

StoreCrashes(p) ==
    ~Malformed(p) /\ SettingsFrom(p).toggleFade /\ NullStore(SettingsFrom(p).fadeTime)

=============================================================================
