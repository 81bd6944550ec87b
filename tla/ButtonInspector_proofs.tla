------------------------ MODULE ButtonInspector_proofs ------------------------
(***************************************************************************)
(* The settings that come to the plugin, for any number of buttons, any    *)
(* inputs, and any number of messages on their way.                        *)
(***************************************************************************)
EXTENDS ButtonInspector, TLAPS, SequenceTheorems, FiniteSetTheorems

-----------------------------------------------------------------------------
(* Forms *)

\* What a field can hold.
Field(name) == IF name = "statusByte" THEN Int ELSE Values(name) \cup {Null}

Forms(a) ==
    {f \in [Fields[a] -> Int \cup BOOLEAN \cup {Null}] :
        \A name \in Fields[a] : f[name] \in Field(name)}

\* What can be saved for a button: nothing yet, or a form.
Saves(c) == {<<>>} \cup Forms(ActionOf[c])

Names ==
    {"statusByte", "dataByte1", "dataByte2", "dataByte2Alt", "dataByte5", "noteOffMode",
     "ccMode", "toggleFade", "fadeTime", "fadeCurve"}

LEMMA FieldNames == ASSUME NEW a \in Actions PROVE Fields[a] \subseteq Names
BY DEF Actions, Fields, Common, Names

LEMMA FieldHolds ==
    ASSUME NEW name \in Names
    PROVE  Field(name) \subseteq Int \cup BOOLEAN \cup {Null}
BY FadeAssumption, InspectorAssumption DEF Field, Values, Names

LEMMA BaseIsInt == ASSUME NEW a \in Actions, "statusByte" \in Fields[a] PROVE Base[a] \in Int
BY DEF Actions, Base, Fields

LEMMA FallbackFits ==
    ASSUME NEW a \in Actions, NEW name \in Names
    PROVE  Fallback(a, name) \in Field(name)
<1>1. CASE name = "toggleFade"
  <2>1. Fallback(a, name) = FALSE
    BY <1>1 DEF Fallback
  <2>2. Field(name) = BOOLEAN \cup {Null}
    BY <1>1 DEF Field, Values
  <2> QED  BY <2>1, <2>2
<1>2. CASE name = "fadeTime"
  <2>1. Fallback(a, name) = Second
    BY <1>2 DEF Fallback
  <2> QED  BY <1>2, <2>1, InspectorAssumption DEF Field, Values
<1>3. CASE name \notin {"toggleFade", "fadeTime"}
  <2>1. Fallback(a, name) \in {0, 1}
    BY <1>3 DEF Fallback
  <2>2. name = "fadeCurve" => Fallback(a, name) = 0
    BY DEF Fallback
  <2> QED  BY <1>3, <2>1, <2>2, FadeAssumption DEF Field, Values
<1> QED  BY <1>1, <1>2, <1>3


\* The form that is filled with settings has values of the right type ...
LEMMA ShownForm ==
    ASSUME NEW c \in Contexts, NEW p \in Saves(c)
    PROVE  Shown(ActionOf[c], p) \in Forms(ActionOf[c])
<1> DEFINE a == ActionOf[c]
<1>1. a \in Actions
  BY InspectorAssumption
<1>2. p = <<>> \/ p \in Forms(a)
  BY DEF Saves
<1> HIDE DEF a
<1>3. ASSUME NEW name \in Fields[a], ~Falsy(a, p, name)
      PROVE  /\ p[name] \in Field(name)
             /\ name = "statusByte" => p[name] - Base[a] \in Int
  <2>1. name \in DOMAIN p
    BY <1>3 DEF Falsy
  <2>2. p # <<>>
    BY <2>1
  <2>3. p[name] \in Field(name)
    BY <1>2, <1>3, <2>2 DEF Forms
  <2>4. name = "statusByte" => p[name] \in Int
    BY <2>3 DEF Field
  <2> QED  BY <1>1, <1>3, <2>3, <2>4, BaseIsInt
<1>4. ASSUME NEW name \in Fields[a]
      PROVE  (IF Falsy(a, p, name) THEN Fallback(a, name)
              ELSE IF name = "statusByte" THEN p[name] - Base[a] ELSE p[name]) \in Field(name)
  BY <1>1, <1>3, <1>4, FieldNames, FallbackFits DEF Field
<1>5. Shown(a, p) \in Forms(a)
  BY <1>1, <1>4, FieldNames, FieldHolds DEF Forms, Shown
<1> QED  BY <1>5 DEF a

\* ... and so have the settings read from a form.
LEMMA FormRead ==
    ASSUME NEW a \in Actions, NEW f \in Forms(a)
    PROVE  FormSettings(a, f) \in Forms(a)
<1>1. ASSUME NEW name \in Fields[a]
      PROVE  (IF name = "statusByte" THEN f[name] + Base[a] ELSE f[name]) \in Field(name)
  <2>1. f[name] \in Field(name)
    BY DEF Forms
  <2>2. CASE name = "statusByte"
    <3>1. f[name] \in Int /\ Base[a] \in Int /\ Field(name) = Int
      BY <1>1, <2>1, <2>2, BaseIsInt DEF Field
    <3> QED  BY <2>2, <3>1
  <2> QED  BY <2>1, <2>2
<1> QED  BY <1>1, FieldNames, FieldHolds DEF Forms, FormSettings

LEMMA FormChanged ==
    ASSUME NEW a \in Actions, NEW f \in Forms(a), NEW name \in DOMAIN f, NEW v \in Inputs[name]
    PROVE  [f EXCEPT ![name] = v] \in Forms(a)
<1>1. name \in Fields[a]
  BY DEF Forms
<1>2. v \in Field(name)
  BY <1>1, InputAssumption DEF Field
<1>3. v \in Int \cup BOOLEAN \cup {Null}
  BY <1>1, <1>2, FieldNames, FieldHolds
<1> QED  BY <1>2, <1>3 DEF Forms

-----------------------------------------------------------------------------
(* What is stored *)

LEMMA SettingRead ==
    ASSUME NEW c \in Contexts, NEW p \in Saves(c), ~Malformed(p), NEW name \in Names
    PROVE  Read(p, name) \in Values(name)
<1>1. CASE name \in DOMAIN p
  <2>1. p # <<>>
    BY <1>1
  <2>2. p[name] \in Field(name) /\ p[name] # Null
    BY <1>1, <2>1 DEF Saves, Forms, Malformed
  <2>3. p[name] \in Values(name)
    BY <2>2 DEF Field, Values
  <2> QED  BY <1>1, <2>3 DEF Read
<1>2. CASE name \notin DOMAIN p
  <2>1. Read(p, name) = DefaultSettings[name]
    BY <1>2 DEF Read
  <2>2. CASE name = "toggleFade"
    BY <2>1, <2>2 DEF DefaultSettings, Values
  <2>3. CASE name # "toggleFade"
    <3>1. /\ DefaultSettings[name] \in Int
          /\ name \in {"fadeTime", "fadeCurve"} => DefaultSettings[name] = 0
      BY <2>3 DEF DefaultSettings, Names
    <3> QED  BY <2>1, <2>3, <3>1, FadeAssumption DEF Values
  <2> QED  BY <2>2, <2>3
<1> QED  BY <1>1, <1>2

\* Settings that were saved, and can be converted, are settings of a button.
LEMMA SettingsFit ==
    ASSUME NEW c \in Contexts, NEW p \in Saves(c), ~Malformed(p)
    PROVE  SettingsFrom(p) \in ButtonSettings /\ SettingsFrom(p) # NoEntry
<1>1. ASSUME NEW name \in Names PROVE Read(p, name) \in Values(name)
  BY <1>1, SettingRead
<1>2. /\ Read(p, "statusByte") \in Int /\ Read(p, "dataByte1") \in Int
      /\ Read(p, "dataByte2") \in Int /\ Read(p, "dataByte2Alt") \in Int
      /\ Read(p, "dataByte5") \in Int /\ Read(p, "noteOffMode") \in Int
      /\ Read(p, "ccMode") \in Int
  BY <1>1 DEF Names, Values
<1>3. Read(p, "fadeTime") \in FadeTimes /\ Read(p, "fadeCurve") \in FadeCurves
  BY <1>1 DEF Names, Values
<1>4. Read(p, "toggleFade") \in BOOLEAN
  BY <1>1 DEF Names, Values
<1>5. WantsFade(p) \in BOOLEAN
  <2>1. CASE "ccMode" \in DOMAIN p
    <3>1. WantsFade(p) = (p.ccMode \in FadeModes)
      BY <2>1 DEF WantsFade
    <3> QED  BY <3>1
  <2>2. CASE "ccMode" \notin DOMAIN p
    BY <1>4, <2>2 DEF WantsFade
  <2> QED  BY <2>1, <2>2
<1>6. SettingsFrom(p) \in ButtonSettings
  BY <1>2, <1>3, <1>5 DEF SettingsFrom, ButtonSettings
<1> QED  BY <1>6, InspectorAssumption

LEMMA DefaultFits == DefaultSettings \in ButtonSettings
BY FadeAssumption DEF DefaultSettings, ButtonSettings

-----------------------------------------------------------------------------
(* The queue of messages *)

AllSaves == UNION {Saves(c) : c \in Contexts}
Messages == [event : Events, at : Contexts, settings : AllSaves]

QueueTyped(q) == q \in Seq(Messages) /\ \A i \in DOMAIN q : q[i].settings \in Saves(q[i].at)

\* The events with which the plugin stores the settings, whatever it has.
Storing == {"willAppear", "didReceiveSettings"}

StoresAt(q, c, i) == q[i].at = c /\ q[i].event \in Storing
Awaits(q, c) == \E i \in DOMAIN q : StoresAt(q, c, i)
Mentions(q, c) == \E i \in DOMAIN q : q[i].at = c

\* A message carries the settings s that are saved, or one that follows it and
\* will be stored does.
CarriesSaved(q, s) ==
    \A i \in DOMAIN q :
        q[i].settings = s[q[i].at] \/ \E j \in DOMAIN q : j > i /\ StoresAt(q, q[i].at, j)

LEMMA Appended ==
    ASSUME NEW q, QueueTyped(q), NEW m \in Messages, m.settings \in Saves(m.at)
    PROVE  LET r == Append(q, m) IN
           /\ QueueTyped(r)
           /\ \A c : Awaits(q, c) => Awaits(r, c)
           /\ m.event \in Storing => Awaits(r, m.at)
           /\ \A c : c # m.at /\ ~Mentions(q, c) => ~Mentions(r, c)
<1> DEFINE r == Append(q, m)
           n == Len(q)
<1>1. /\ r \in Seq(Messages) /\ n \in Nat /\ DOMAIN q = 1..n /\ DOMAIN r = 1..(n + 1)
      /\ r[n + 1] = m /\ \A i \in 1..n : r[i] = q[i]
  BY AppendProperties DEF QueueTyped
<1> HIDE DEF r, n
<1>2. 1..n \subseteq 1..(n + 1) /\ n + 1 \in 1..(n + 1)
      /\ \A i \in 1..(n + 1) : i \in 1..n \/ i = n + 1
  BY <1>1
<1>3. QueueTyped(r)
  BY <1>1, <1>2 DEF QueueTyped
<1>4. /\ \A c : Awaits(q, c) => Awaits(r, c)
      /\ m.event \in Storing => Awaits(r, m.at)
      /\ \A c : c # m.at /\ ~Mentions(q, c) => ~Mentions(r, c)
  BY <1>1, <1>2 DEF Awaits, StoresAt, Mentions
<1> QED  BY <1>3, <1>4 DEF r

\* A message about a button carries what is saved for the button.  Settings that
\* differ from those saved before come with a message that will be stored.
LEMMA AppendedCarries ==
    ASSUME NEW q, QueueTyped(q), NEW m \in Messages, NEW s, NEW t, CarriesSaved(q, s),
           m.settings = t[m.at], \A c \in Contexts \ {m.at} : t[c] = s[c],
           t[m.at] = s[m.at] \/ m.event \in Storing
    PROVE  CarriesSaved(Append(q, m), t)
<1> DEFINE r == Append(q, m)
           n == Len(q)
<1>1. /\ n \in Nat /\ DOMAIN q = 1..n /\ DOMAIN r = 1..(n + 1)
      /\ r[n + 1] = m /\ \A i \in 1..n : r[i] = q[i] /\ q[i] \in Messages
  BY AppendProperties, ElementOfSeq DEF QueueTyped
<1>0. \A i \in 1..n : q[i].at \in Contexts
  BY <1>1 DEF Messages
<1> HIDE DEF r, n
<1>2. ASSUME NEW i \in 1..n
      PROVE  r[i].settings = t[r[i].at] \/ \E j \in DOMAIN r : j > i /\ StoresAt(r, r[i].at, j)
  <2>1. CASE q[i].settings = s[q[i].at]
    <3>1. CASE q[i].at = m.at /\ m.event \in Storing
      <4>1. n + 1 \in DOMAIN r /\ n + 1 > i /\ StoresAt(r, r[i].at, n + 1)
        BY <1>1, <3>1 DEF StoresAt
      <4> QED  BY <4>1
    <3>2. CASE ~(q[i].at = m.at /\ m.event \in Storing)
      <4>1. t[q[i].at] = s[q[i].at]
        BY <1>0, <3>2
      <4> QED  BY <1>1, <2>1, <4>1
    <3> QED  BY <3>1, <3>2
  <2>2. CASE \E j \in DOMAIN q : j > i /\ StoresAt(q, q[i].at, j)
    BY <1>1, <2>2 DEF StoresAt
  <2> QED  BY <1>1, <2>1, <2>2 DEF CarriesSaved
<1>3. \A i \in DOMAIN r : i \in 1..n \/ i = n + 1
  BY <1>1
<1>4. CarriesSaved(r, t)
  BY <1>1, <1>2, <1>3 DEF CarriesSaved
<1> QED  BY <1>4 DEF r

\* When a message has been taken from the queue the rest is as it was, and unless
\* there is one left that will be stored the one that was taken is up to date.
LEMMA Taken ==
    ASSUME NEW q, QueueTyped(q), q # <<>>, NEW s, CarriesSaved(q, s)
    PROVE  LET h == Head(q)
               r == Tail(q)
           IN  /\ h \in Messages /\ h.settings \in Saves(h.at)
               /\ QueueTyped(r) /\ CarriesSaved(r, s)
               /\ \A c : Mentions(r, c) => Mentions(q, c)
               /\ \A c : Awaits(q, c) /\ ~Awaits(r, c) => h.at = c /\ h.event \in Storing
               /\ Mentions(q, h.at)
               /\ ~Awaits(r, h.at) => h.settings = s[h.at]
<1> DEFINE h == Head(q)
           r == Tail(q)
           n == Len(q)
<1>1. /\ n \in Nat /\ n >= 1 /\ DOMAIN q = 1..n /\ DOMAIN r = 1..(n - 1)
      /\ h = q[1] /\ \A i \in 1..(n - 1) : r[i] = q[i + 1]
      /\ r \in Seq(Messages) /\ h \in Messages
  BY HeadTailProperties, EmptySeq DEF QueueTyped
<1>0. \A i \in 1..n : q[i].settings \in Saves(q[i].at)
  BY <1>1 DEF QueueTyped
<1> HIDE DEF h, r, n
<1>2. \A i \in 1..n : i = 1 \/ (i - 1 \in 1..(n - 1) /\ r[i - 1] = q[i])
  BY <1>1
<1>3. \A i \in 1..(n - 1) : i + 1 \in 1..n /\ r[i] = q[i + 1]
  BY <1>1
<1>4. QueueTyped(r) /\ h.settings \in Saves(h.at)
  <2>1. 1 \in 1..n
    BY <1>1
  <2> QED  BY <1>0, <1>1, <1>3, <2>1 DEF QueueTyped
<1>5. ASSUME NEW i \in DOMAIN q, NEW c, NEW j \in DOMAIN q, j > i, StoresAt(q, c, j)
      PROVE  j - 1 \in DOMAIN r /\ StoresAt(r, c, j - 1)
  BY <1>1, <1>2, <1>5 DEF StoresAt
<1>6. CarriesSaved(r, s)
  <2> SUFFICES ASSUME NEW i \in DOMAIN r, r[i].settings # s[r[i].at]
               PROVE  \E j \in DOMAIN r : j > i /\ StoresAt(r, r[i].at, j)
    BY DEF CarriesSaved
  <2>1. i + 1 \in DOMAIN q /\ r[i] = q[i + 1] /\ i \in Int
    BY <1>1, <1>3
  <2>2. PICK j \in DOMAIN q : j > i + 1 /\ StoresAt(q, r[i].at, j)
    BY <2>1 DEF CarriesSaved
  <2>3. j - 1 \in DOMAIN r /\ StoresAt(r, r[i].at, j - 1)
    BY <1>5, <2>1, <2>2
  <2>4. j - 1 > i
    BY <1>1, <2>1, <2>2
  <2> QED  BY <2>3, <2>4
<1>7. /\ \A c : Mentions(r, c) => Mentions(q, c)
      /\ Mentions(q, h.at)
  BY <1>1, <1>3 DEF Mentions
<1>8. ASSUME NEW c, Awaits(q, c), ~Awaits(r, c) PROVE h.at = c /\ h.event \in Storing
  BY <1>1, <1>2, <1>8 DEF Awaits, StoresAt
<1>9. ASSUME ~Awaits(r, h.at) PROVE h.settings = s[h.at]
  <2>1. 1 \in DOMAIN q
    BY <1>1
  <2>2. h.settings = s[h.at] \/ \E j \in DOMAIN q : j > 1 /\ StoresAt(q, h.at, j)
    BY <1>1, <2>1 DEF CarriesSaved
  <2> QED  BY <1>5, <1>9, <2>1, <2>2 DEF Awaits
<1> QED  BY <1>1, <1>4, <1>6, <1>7, <1>8, <1>9 DEF h, r

-----------------------------------------------------------------------------
(* The inductive invariant *)

\* The application and the inspector.
SavedTyped == saved \in [Contexts -> AllSaves] /\ \A c \in Contexts : saved[c] \in Saves(c)

InspectorTyped ==
    /\ visible \subseteq Contexts /\ IsFiniteSet(visible)
    /\ shown \in visible \cup {Nothing}
    /\ shown # Nothing => form \in Forms(ActionOf[shown])
    /\ saves \in 0 .. MaxSaves

PluginTyped ==
    /\ alive \in BOOLEAN
    /\ mVisibleContextsMutex \in {"free", "held"}
    /\ storedButtonSettings \in [Contexts -> ButtonSettings \cup {NoEntry}]

QueueInv == QueueTyped(toPlugin) /\ CarriesSaved(toPlugin, saved)

\* The plugin will store what is saved for button c, or has stored it, unless it
\* cannot be converted; or it knows of no button c.
KnownAt(c) ==
    \/ Awaits(toPlugin, c)
    \/ Malformed(saved[c])
    \/ storedButtonSettings[c] = SettingsFrom(saved[c])
    \/ c \notin visible /\ storedButtonSettings[c] = NoEntry /\ ~Mentions(toPlugin, c)

Known == alive => \A c \in Contexts : KnownAt(c)

\* A process that has ended leaves nothing behind.
Gone ==
    ~alive => /\ toPlugin = <<>> /\ mVisibleContextsMutex = "free"
              /\ storedButtonSettings = [c \in Contexts |-> NoEntry]

Inv ==
    /\ SavedTyped /\ InspectorTyped /\ PluginTyped
    /\ QueueInv /\ Known /\ Gone /\ FormShowsSaved

LEMMA EmptyQueue ==
    /\ QueueTyped(<<>>) /\ \A s : CarriesSaved(<<>>, s)
    /\ \A c : ~Mentions(<<>>, c) /\ ~Awaits(<<>>, c)
BY EmptySeq DEF QueueTyped, CarriesSaved, Mentions, Awaits

-----------------------------------------------------------------------------
(* The steps of the application and its user *)

\* A message is sent, with what is saved from then on.  If the button is not shown
\* the message is one that will be stored.
LEMMA TellKeepsQueue ==
    ASSUME PluginTyped, QueueInv, Known, Gone, NEW m \in Messages, Tell(m),
           m.settings \in Saves(m.at), m.settings = saved'[m.at],
           \A c \in Contexts \ {m.at} :
               saved'[c] = saved[c] /\ (c \in visible <=> c \in visible'),
           saved'[m.at] = saved[m.at] \/ m.event \in Storing,
           m.at \in visible \/ m.event \in Storing,
           UNCHANGED plugin
    PROVE  PluginTyped' /\ QueueInv' /\ Known' /\ Gone'
<1>1. PluginTyped'
  BY DEF PluginTyped, plugin
<1>2. CASE ~alive
  <2>1. toPlugin' = <<>> /\ ~alive'
    BY <1>2 DEF Tell, Gone, plugin
  <2> QED  BY <1>1, <1>2, <2>1, EmptyQueue DEF QueueInv, Known, Gone, plugin
<1>3. CASE alive
  <2> DEFINE r == Append(toPlugin, m)
  <2>1. toPlugin' = r /\ alive'
    BY <1>3 DEF Tell, plugin
  <2>2. /\ QueueTyped(r)
        /\ \A c : Awaits(toPlugin, c) => Awaits(r, c)
        /\ m.event \in Storing => Awaits(r, m.at)
        /\ \A c : c # m.at /\ ~Mentions(toPlugin, c) => ~Mentions(r, c)
    BY Appended DEF QueueInv
  <2>3. CarriesSaved(r, saved')
    BY AppendedCarries DEF QueueInv
  <2> HIDE DEF r
  <2>4. ASSUME NEW c \in Contexts PROVE KnownAt(c)'
    <3>1. KnownAt(c)
      BY <1>3 DEF Known
    <3>2. CASE c = m.at /\ m.event \in Storing
      BY <2>1, <2>2, <3>2 DEF KnownAt
    <3>3. CASE c = m.at /\ m.event \notin Storing
      <4>1. saved'[c] = saved[c] /\ c \in visible
        BY <3>3
      <4> QED  BY <2>1, <2>2, <3>1, <4>1 DEF KnownAt, plugin
    <3>4. CASE c # m.at
      <4>1. saved'[c] = saved[c] /\ (c \in visible <=> c \in visible')
        BY <3>4
      <4> QED  BY <2>1, <2>2, <3>1, <3>4, <4>1 DEF KnownAt, plugin
    <3> QED  BY <3>2, <3>3, <3>4
  <2> QED  BY <1>1, <2>1, <2>2, <2>3, <2>4 DEF QueueInv, Known, Gone
<1> QED  BY <1>2, <1>3 DEF PluginTyped

LEMMA MessageTyped ==
    ASSUME SavedTyped, NEW c \in Contexts, NEW event \in Events
    PROVE  /\ Message(event, c, saved[c]) \in Messages
           /\ Message(event, c, saved[c]).at = c
           /\ Message(event, c, saved[c]).event = event
           /\ Message(event, c, saved[c]).settings = saved[c]
           /\ saved[c] \in Saves(c)
BY DEF Message, Messages, SavedTyped, AllSaves

LEMMA ButtonsKeepInv ==
    ASSUME Inv, NEW c \in Contexts, Appear(c) \/ Disappear(c) \/ Press(c) \/ Release(c)
    PROVE  Inv'
<1> USE DEF Inv
<1>1. PICK event \in Events :
        /\ Tell(Message(event, c, saved[c])) /\ UNCHANGED <<saved, saves, plugin>>
        /\ \/ event \in Storing /\ visible' = visible \cup {c} /\ UNCHANGED inspector
           \/ /\ c \in visible /\ visible' = visible \ {c}
              /\ IF shown = c THEN shown' = Nothing /\ form' = <<>> ELSE UNCHANGED inspector
           \/ c \in visible /\ visible' = visible /\ UNCHANGED inspector
  BY DEF Appear, Disappear, Press, Release, Events, Storing
<1> DEFINE m == Message(event, c, saved[c])
<1>2. m \in Messages /\ m.at = c /\ m.event = event /\ m.settings = saved[c] /\ saved[c] \in Saves(c)
  BY MessageTyped
<1> HIDE DEF m
<1>3. PluginTyped' /\ QueueInv' /\ Known' /\ Gone'
  <2>1. Tell(m)
    BY <1>1 DEF m
  <2>2. \A d \in Contexts \ {c} : d \in visible <=> d \in visible'
    BY <1>1
  <2>3. c \in visible \/ event \in Storing
    BY <1>1
  <2> QED  BY <1>1, <1>2, <2>1, <2>2, <2>3, TellKeepsQueue
<1>4. SavedTyped'
  BY <1>1 DEF SavedTyped
<1>5. InspectorTyped' /\ FormShowsSaved'
  <2>1. visible' \subseteq Contexts /\ IsFiniteSet(visible')
    BY <1>1, FS_AddElement, FS_RemoveElement DEF InspectorTyped
  <2>2. \/ UNCHANGED inspector /\ (shown \in visible => shown \in visible')
        \/ shown' = Nothing
    BY <1>1 DEF inspector
  <2> QED  BY <1>1, <2>1, <2>2 DEF InspectorTyped, FormShowsSaved, inspector
<1> QED  BY <1>3, <1>4, <1>5

\* What the form shows of settings it was filled with.
LEMMA ShowsSaved ==
    ASSUME NEW c \in Contexts, NEW p \in Saves(c), NEW name \in Fields[ActionOf[c]]
    PROVE  LET a == ActionOf[c]
           IN  \/ FormSettings(a, Shown(a, p))[name] = p[name]
               \/ Falsy(a, p, name) /\ Shown(a, p)[name] = Fallback(a, name)
<1> DEFINE a == ActionOf[c]
<1>1. CASE Falsy(a, p, name)
  BY <1>1 DEF Shown
<1>2. CASE ~Falsy(a, p, name)
  <2>1. name \in DOMAIN p
    BY <1>2 DEF Falsy
  <2>2. p \in Forms(a)
    <3>1. p # <<>>
      BY <2>1
    <3> QED  BY <3>1 DEF Saves
  <2>3. CASE name = "statusByte"
    <3>1. Shown(a, p)[name] = p[name] - Base[a]
      BY <1>2, <2>3 DEF Shown
    <3>2. FormSettings(a, Shown(a, p))[name] = (p[name] - Base[a]) + Base[a]
      BY <2>3, <3>1 DEF FormSettings
    <3>3. p[name] \in Int
      BY <2>2, <2>3 DEF Forms, Field
    <3>4. Base[a] \in Int
      <4>1. a \in Actions
        BY InspectorAssumption
      <4> QED  BY <2>3, <4>1, BaseIsInt
    <3>5. ASSUME NEW x \in Int, NEW y \in Int PROVE (x - y) + y = x
      OBVIOUS
    <3> QED  BY <3>2, <3>3, <3>4, <3>5
  <2>4. CASE name # "statusByte"
    BY <1>2, <2>4 DEF Shown, FormSettings
  <2> QED  BY <2>3, <2>4
<1> QED  BY <1>1, <1>2

LEMMA ConnectedKeepsInv ==
    ASSUME Inv, NEW c \in Contexts, connected(c)
    PROVE  Inv'
<1> USE DEF Inv
<1>1. c \in visible /\ shown' = c /\ form' = Shown(ActionOf[c], saved[c])
      /\ UNCHANGED <<saved, visible, toPlugin, plugin, saves>>
  BY DEF connected
<1>2. saved[c] \in Saves(c)
  BY DEF SavedTyped
<1>3. InspectorTyped'
  BY <1>1, <1>2, ShownForm DEF InspectorTyped
<1>4. FormShowsSaved'
  BY <1>1, <1>2, ShowsSaved DEF FormShowsSaved
<1>5. SavedTyped' /\ PluginTyped' /\ QueueInv' /\ Gone'
  BY <1>1 DEF SavedTyped, PluginTyped, QueueInv, Gone, plugin
<1>6. Known'
  BY <1>1 DEF Known, KnownAt, plugin
<1> QED  BY <1>3, <1>4, <1>5, <1>6

LEMMA SaveKeepsInv ==
    ASSUME Inv, NEW name \in DOMAIN form, NEW v \in Inputs[name], saveSettings(name, v)
    PROVE  Inv'
<1> USE DEF Inv
<1> DEFINE c == shown
           a == ActionOf[c]
           p == FormSettings(a, form')
           m == Message("didReceiveSettings", c, saved'[c])
<1>1. /\ c # Nothing /\ saves < MaxSaves /\ saves' = saves + 1
      /\ form' = [form EXCEPT ![name] = v] /\ saved' = [saved EXCEPT ![c] = p]
      /\ Tell(m) /\ UNCHANGED <<visible, shown, plugin>>
  BY DEF saveSettings
<1>2. c \in visible /\ c \in Contexts /\ form \in Forms(a)
  BY <1>1 DEF InspectorTyped
<1>3. a \in Actions
  BY <1>2, InspectorAssumption
<1> HIDE DEF a, p, c
<1>4. form' \in Forms(a)
  BY <1>1, <1>2, <1>3, FormChanged
<1>5. p \in Forms(a)
  BY <1>3, <1>4, FormRead DEF p
<1>6. saved'[c] = p /\ p \in Saves(c) /\ \A d \in Contexts \ {c} : saved'[d] = saved[d]
  BY <1>1, <1>2, <1>5 DEF SavedTyped, Saves, a
<1>7. SavedTyped'
  BY <1>1, <1>2, <1>6 DEF SavedTyped, AllSaves
<1>8. InspectorTyped'
  <2>1. saves' \in 0 .. MaxSaves
    BY <1>1, InspectorAssumption DEF InspectorTyped
  <2> QED  BY <1>1, <1>4, <2>1 DEF InspectorTyped, a, c
<1>9. FormShowsSaved'
  BY <1>1, <1>6 DEF FormShowsSaved, p, a, c
<1>10. PluginTyped' /\ QueueInv' /\ Known' /\ Gone'
  <2>1. m \in Messages /\ m.at = c /\ m.event = "didReceiveSettings" /\ m.settings = saved'[c]
    BY <1>2, <1>6 DEF Message, Messages, AllSaves, Events
  <2> HIDE DEF m
  <2>2. m.event \in Storing
    BY <2>1 DEF Storing
  <2> QED  BY <1>1, <1>6, <2>1, <2>2, TellKeepsQueue
<1> QED  BY <1>7, <1>8, <1>9, <1>10

-----------------------------------------------------------------------------
(* The steps of the plugin *)

\* The first message is taken from the queue, and e is stored for its button; if no
\* message to be stored is left, e is what is saved, or what was stored before.
LEMMA HandledKeepsInv ==
    ASSUME Inv, alive, toPlugin # <<>>, NEW e \in ButtonSettings \cup {NoEntry},
           toPlugin' = Tail(toPlugin),
           storedButtonSettings' = [storedButtonSettings EXCEPT ![Head(toPlugin).at] = e],
           mVisibleContextsMutex' \in {"free", "held"},
           UNCHANGED <<saved, visible, inspector, saves, alive>>,
           LET h == Head(toPlugin)
           IN  \/ Malformed(h.settings) /\ h.event \in Storing
               \/ h.event \in Storing /\ e = SettingsFrom(h.settings)
               \/ h.event \notin Storing /\ (storedButtonSettings[h.at] = NoEntry \/ e = storedButtonSettings[h.at])
    PROVE  Inv'
<1> USE DEF Inv
<1> DEFINE h == Head(toPlugin)
           r == Tail(toPlugin)
<1>1. /\ h \in Messages /\ h.settings \in Saves(h.at)
      /\ QueueTyped(r) /\ CarriesSaved(r, saved)
      /\ \A c : Mentions(r, c) => Mentions(toPlugin, c)
      /\ \A c : Awaits(toPlugin, c) /\ ~Awaits(r, c) => h.at = c /\ h.event \in Storing
      /\ Mentions(toPlugin, h.at)
      /\ ~Awaits(r, h.at) => h.settings = saved[h.at]
  BY Taken DEF QueueInv
<1>2. PICK b \in Contexts : b = h.at
  BY <1>1 DEF Messages
<1>3. storedButtonSettings' = [storedButtonSettings EXCEPT ![b] = e] /\ toPlugin' = r
  BY <1>2
<1> HIDE DEF h, r
<1>4. KnownAt(b)'
  <2> SUFFICES ASSUME ~Awaits(r, b), ~Malformed(saved[b]) PROVE e = SettingsFrom(saved[b])
    BY <1>2, <1>3 DEF KnownAt, PluginTyped
  <2>1. h.settings = saved[b]
    BY <1>1, <1>2
  <2>2. CASE h.event \in Storing
    BY <2>1, <2>2 DEF h
  <2>3. CASE h.event \notin Storing
    <3>1. KnownAt(b) /\ ~Awaits(toPlugin, b) /\ Mentions(toPlugin, b)
      BY <1>1, <1>2, <2>3 DEF Known
    <3>2. storedButtonSettings[b] = SettingsFrom(saved[b])
      BY <3>1 DEF KnownAt
    <3>3. SettingsFrom(saved[b]) # NoEntry
      BY <1>2, SettingsFit DEF SavedTyped
    <3> QED  BY <1>2, <2>3, <3>2, <3>3 DEF h
  <2> QED  BY <2>2, <2>3
<1>5. ASSUME NEW c \in Contexts, c # b PROVE KnownAt(c)'
  <2>1. KnownAt(c) /\ storedButtonSettings'[c] = storedButtonSettings[c]
    BY <1>3, <1>5 DEF Known, PluginTyped
  <2>2. /\ Awaits(toPlugin, c) => Awaits(r, c)
        /\ ~Mentions(toPlugin, c) => ~Mentions(r, c)
    BY <1>1, <1>2, <1>5
  <2> QED  BY <1>3, <2>1, <2>2 DEF KnownAt
<1>6. Known' /\ Gone'
  BY <1>4, <1>5 DEF Known, Gone
<1>7. PluginTyped'
  BY <1>2, <1>3 DEF PluginTyped
<1>8. QueueInv'
  BY <1>1, <1>3 DEF QueueInv
<1>9. SavedTyped' /\ InspectorTyped' /\ FormShowsSaved'
  BY DEF SavedTyped, InspectorTyped, FormShowsSaved, inspector
<1> QED  BY <1>6, <1>7, <1>8, <1>9

LEMMA ExitKeepsInv ==
    ASSUME Inv, Exit, UNCHANGED <<saved, visible, inspector, saves>>
    PROVE  Inv'
<1> USE DEF Inv
<1>1. PluginTyped' /\ Known' /\ Gone'
  BY DEF Exit, PluginTyped, Known, Gone
<1>2. QueueInv'
  BY EmptyQueue DEF Exit, QueueInv
<1>3. SavedTyped' /\ InspectorTyped' /\ FormShowsSaved'
  BY DEF SavedTyped, InspectorTyped, FormShowsSaved, inspector
<1> QED  BY <1>1, <1>2, <1>3

LEMMA OnMessageKeepsInv ==
    ASSUME Inv, OnMessage
    PROVE  Inv'
<1> DEFINE h == Head(toPlugin)
           c == h.at
           p == h.settings
           s == storedButtonSettings[c]
<1>1. /\ alive /\ toPlugin # <<>> /\ UNCHANGED <<saved, visible, inspector, saves>>
      /\ \/ h.event = "willAppear" /\ WillAppearForAction(c, p)
         \/ h.event = "willDisappear" /\ WillDisappearForAction
         \/ h.event = "didReceiveSettings" /\ DidReceiveSettings(c, p)
         \/ h.event = "keyDown" /\ KeyDownForAction(c, p)
         \/ h.event = "keyUp" /\ KeyUpForAction(c)
  BY DEF OnMessage
<1>2. c \in Contexts /\ p \in Saves(c)
  <2>1. h \in Messages /\ h.settings \in Saves(h.at)
    BY <1>1, Taken DEF Inv, QueueInv
  <2> QED  BY <2>1 DEF Messages
<1>3. s \in ButtonSettings \cup {NoEntry} /\ mVisibleContextsMutex \in {"free", "held"}
      /\ storedButtonSettings = [storedButtonSettings EXCEPT ![c] = s]
  BY <1>2 DEF Inv, PluginTyped
<1>4. ~Malformed(p) => SettingsFrom(p) \in ButtonSettings
  BY <1>2, SettingsFit
<1>5. CASE Exit
  BY <1>1, <1>5, ExitKeepsInv
<1>6. ASSUME StoreButtonSettings(c, p), mVisibleContextsMutex' \in {"free", "held"},
             h.event \notin Storing => s = NoEntry
      PROVE  Inv'
  <2> DEFINE e == IF Malformed(p) THEN s ELSE SettingsFrom(p)
  <2>1. storedButtonSettings' = [storedButtonSettings EXCEPT ![c] = e]
        /\ toPlugin' = Tail(toPlugin) /\ UNCHANGED alive
    BY <1>6 DEF StoreButtonSettings
  <2>2. e \in ButtonSettings \cup {NoEntry}
    BY <1>3, <1>4
  <2>3. Malformed(p) \/ e = SettingsFrom(p)
    OBVIOUS
  <2> HIDE DEF e
  <2> QED  BY <1>1, <1>6, <2>1, <2>2, <2>3, HandledKeepsInv
<1>7. CASE h.event = "willAppear" /\ WillAppearForAction(c, p)
  <2>1. Stores(c, p) /\ (StoreCrashes(p) \/ mVisibleContextsMutex' = IF StoreThrows(p) THEN "held" ELSE "free")
    BY <1>7 DEF WillAppearForAction
  <2>2. CASE StoreCrashes(p)
    BY <1>5, <2>1, <2>2 DEF Stores
  <2>3. CASE ~StoreCrashes(p)
    <3>1. StoreButtonSettings(c, p)
      BY <2>1, <2>3 DEF Stores
    <3>2. mVisibleContextsMutex' \in {"free", "held"}
      BY <1>3, <2>1, <2>3
    <3>3. h.event \in Storing
      BY <1>7 DEF Storing
    <3> QED  BY <1>6, <3>1, <3>2, <3>3
  <2> QED  BY <2>2, <2>3
<1>8. CASE h.event = "didReceiveSettings" /\ DidReceiveSettings(c, p)
  <2>1. Stores(c, p) /\ (StoreCrashes(p) \/ UNCHANGED mVisibleContextsMutex)
    BY <1>8 DEF DidReceiveSettings
  <2>2. CASE StoreCrashes(p)
    BY <1>5, <2>1, <2>2 DEF Stores
  <2>3. CASE ~StoreCrashes(p)
    <3>1. StoreButtonSettings(c, p)
      BY <2>1, <2>3 DEF Stores
    <3>2. mVisibleContextsMutex' \in {"free", "held"}
      BY <1>3, <2>1, <2>3
    <3>3. h.event \in Storing
      BY <1>8 DEF Storing
    <3> QED  BY <1>6, <3>1, <3>2, <3>3
  <2> QED  BY <2>2, <2>3
<1>9. CASE h.event = "willDisappear" /\ WillDisappearForAction
  BY <1>1, <1>3, <1>9, HandledKeepsInv DEF WillDisappearForAction, plugin, Storing
<1>10. CASE h.event = "keyDown" /\ KeyDownForAction(c, p)
  <2>1. CASE s = NoEntry
    BY <1>3, <1>5, <1>6, <1>10, <2>1 DEF KeyDownForAction, Storing
  <2>2. CASE s # NoEntry
    BY <1>1, <1>3, <1>10, <2>2, HandledKeepsInv DEF KeyDownForAction, Storing
  <2> QED  BY <2>1, <2>2
<1>11. CASE h.event = "keyUp" /\ KeyUpForAction(c)
  <2> DEFINE e == IF s = NoEntry /\ ActionOf[c] \in {"NOTE_ON", "CC"} THEN DefaultSettings ELSE s
  <2>1. /\ storedButtonSettings' = [storedButtonSettings EXCEPT ![c] = e]
        /\ toPlugin' = Tail(toPlugin) /\ UNCHANGED <<alive, mVisibleContextsMutex>>
    BY <1>11 DEF KeyUpForAction
  <2>2. e \in ButtonSettings \cup {NoEntry} /\ (s = NoEntry \/ e = s)
    BY <1>3, DefaultFits
  <2>3. h.event \notin Storing
    BY <1>11 DEF Storing
  <2> HIDE DEF e
  <2> QED  BY <1>1, <1>3, <2>1, <2>2, <2>3, HandledKeepsInv
<1> QED  BY <1>1, <1>7, <1>8, <1>9, <1>10, <1>11

LEMMA RestartKeepsInv ==
    ASSUME Inv, Restart
    PROVE  Inv'
<1> USE DEF Inv
<1> DEFINE n == Cardinality(visible)
<1>1. n \in Nat
  BY FS_CardinalityType DEF InspectorTyped
<1>2. PICK order \in [1 .. n -> visible] :
        /\ \A c \in visible : \E i \in DOMAIN order : order[i] = c
        /\ toPlugin' = [i \in DOMAIN order |-> Message("willAppear", order[i], saved[order[i]])]
  BY DEF Restart
<1>3. ~alive /\ alive' = TRUE
      /\ UNCHANGED <<saved, visible, inspector, mVisibleContextsMutex, storedButtonSettings, saves>>
  BY DEF Restart
<1> HIDE DEF n
<1>4. ASSUME NEW i \in 1 .. n
      PROVE  LET m == Message("willAppear", order[i], saved[order[i]])
             IN  /\ toPlugin'[i] = m /\ m \in Messages
                 /\ m.at = order[i] /\ m.event = "willAppear"
                 /\ m.settings = saved[order[i]] /\ m.settings \in Saves(m.at)
  <2>1. order[i] \in Contexts
    BY DEF InspectorTyped
  <2>2. toPlugin'[i] = Message("willAppear", order[i], saved[order[i]])
    BY <1>2
  <2> QED  BY <2>1, <2>2, MessageTyped DEF Events
<1>5. DOMAIN (toPlugin') = 1 .. n
  BY <1>2
<1>6. toPlugin' \in Seq(Messages)
  BY <1>1, <1>2, <1>4, IsASeq
<1>7. QueueInv'
  BY <1>3, <1>4, <1>5, <1>6 DEF QueueInv, QueueTyped, CarriesSaved
<1>8. ASSUME NEW c \in Contexts PROVE KnownAt(c)'
  <2>1. CASE c \in visible
    <3>1. PICK i \in 1 .. n : order[i] = c
      BY <1>2, <2>1
    <3>2. StoresAt(toPlugin', c, i)
      BY <1>4, <3>1 DEF StoresAt, Storing
    <3> QED  BY <1>5, <3>2 DEF KnownAt, Awaits
  <2>2. CASE c \notin visible
    <3>1. ~Mentions(toPlugin', c)
      BY <1>4, <1>5, <2>2 DEF Mentions
    <3>2. storedButtonSettings'[c] = NoEntry
      BY <1>3 DEF Gone
    <3> QED  BY <1>3, <2>2, <3>1, <3>2 DEF KnownAt
  <2> QED  BY <2>1, <2>2
<1>9. Known' /\ Gone' /\ PluginTyped'
  BY <1>3, <1>8 DEF Known, Gone, PluginTyped
<1>10. SavedTyped' /\ InspectorTyped' /\ FormShowsSaved'
  BY <1>3 DEF SavedTyped, InspectorTyped, FormShowsSaved, inspector
<1> QED  BY <1>7, <1>9, <1>10

-----------------------------------------------------------------------------

LEMMA InitInv == Init => Inv
<1> SUFFICES ASSUME Init PROVE Inv
  OBVIOUS
<1>1. SavedTyped /\ FormShowsSaved
  BY DEF Init, SavedTyped, FormShowsSaved, Saves, AllSaves
<1>2. InspectorTyped
  BY InspectorAssumption, FS_EmptySet DEF Init, InspectorTyped
<1>3. PluginTyped /\ Gone
  BY DEF Init, PluginTyped, Gone
<1>4. QueueInv /\ Known
  BY EmptyQueue DEF Init, QueueInv, Known, KnownAt
<1> QED  BY <1>1, <1>2, <1>3, <1>4 DEF Inv

LEMMA NextInv == Inv /\ [Next]_vars => Inv'
<1> SUFFICES ASSUME Inv, [Next]_vars PROVE Inv'
  OBVIOUS
<1>1. CASE Next
  BY <1>1, ButtonsKeepInv, ConnectedKeepsInv, SaveKeepsInv, OnMessageKeepsInv, RestartKeepsInv
     DEF Next, Change
<1>2. CASE UNCHANGED vars
  <2>1. Known'
    BY <1>2 DEF vars, plugin, Inv, Known, KnownAt
  <2> QED  BY <1>2, <2>1 DEF vars, plugin, inspector, Inv, SavedTyped, InspectorTyped,
                         PluginTyped, QueueInv, Gone, FormShowsSaved
<1> QED  BY <1>1, <1>2

\* In every state the form, the saved settings, the messages on their way and what the
\* plugin has stored agree as far as no message is still to come.
THEOREM InspectorInvariant == Spec => []Inv
BY InitInv, NextInv, PTL DEF Spec

\* Forms, messages and stored settings keep their types, whatever fields are emptied
\* and in whatever order the messages of several buttons come.
THEOREM TypeCorrect == Spec => []TypeOK
<1>1. Inv => TypeOK
  <2> SUFFICES ASSUME Inv PROVE TypeOK
    OBVIOUS
  <2>1. ASSUME NEW c \in Contexts
        PROVE  DOMAIN saved[c] = {} \/ DOMAIN saved[c] = Fields[ActionOf[c]]
    BY <2>1 DEF Inv, SavedTyped, Saves, Forms
  <2>2. ASSUME NEW i \in DOMAIN toPlugin
        PROVE  toPlugin[i].event \in Events /\ toPlugin[i].at \in Contexts
    <3>1. toPlugin[i] \in Messages
      BY ElementOfSeq DEF Inv, QueueInv, QueueTyped
    <3> QED  BY <3>1 DEF Messages
  <2> QED  BY <2>1, <2>2 DEF Inv, InspectorTyped, PluginTyped, TypeOK, Forms
<1> QED  BY <1>1, InspectorInvariant, PTL

\* Whatever the order of appearances, saves, presses, releases and restarts, the
\* plugin has what was saved last for a button of which nothing is on its way.
THEOREM UsesSaved == Spec => []PluginUsesSaved
<1>1. Inv => PluginUsesSaved
  BY DEF Inv, Known, KnownAt, PluginUsesSaved, OnTheWay, Awaits, StoresAt, Mentions
<1> QED  BY <1>1, InspectorInvariant, PTL

\* What one function fills the form with, the other one reads from it.
THEOREM FormIsSaved == Spec => []FormShowsSaved
<1>1. Inv => FormShowsSaved
  BY DEF Inv
<1> QED  BY <1>1, InspectorInvariant, PTL

\* A change of one field reaches the saved settings as that change and no other, of
\* the button that is shown and no other, unless || had replaced a value.
THEOREM OneSetting == Spec => ChangesOneSetting
<1> DEFINE One(c) ==
        saved'[c] # saved[c] =>
            /\ c = shown
            /\ saved[c] # <<>> => \A name, other \in Fields[ActionOf[c]] :
                   saved'[c][name] # saved[c][name] /\ saved'[c][other] # saved[c][other]
                       => \/ name = other
                          \/ \E n \in {name, other} : Falsy(ActionOf[c], saved[c], n)
<1>1. ASSUME Inv, [Next]_vars, NEW c \in Contexts PROVE One(c)
  <2>1. CASE UNCHANGED saved
    BY <2>1
  <2>2. CASE Change
    <3>1. PICK name \in DOMAIN form : \E v \in Inputs[name] : saveSettings(name, v)
      BY <2>2 DEF Change
    <3>2. PICK v \in Inputs[name] : saveSettings(name, v)
      BY <3>1
    <3> DEFINE a == ActionOf[shown]
    <3>3. /\ shown # Nothing /\ form' = [form EXCEPT ![name] = v]
          /\ saved' = [saved EXCEPT ![shown] = FormSettings(a, form')]
      BY <3>2 DEF saveSettings
    <3>4. CASE c # shown
      BY <3>3, <3>4 DEF Inv, SavedTyped
    <3>5. CASE c = shown
      <4>1. saved'[c] = FormSettings(a, form')
        BY <1>1, <3>3, <3>5 DEF Inv, SavedTyped
      <4>2. form \in Forms(a)
        BY <1>1, <3>3 DEF Inv, InspectorTyped
      <4>3. ASSUME saved[c] # <<>>, NEW other \in Fields[a], other # name,
                   saved'[c][other] # saved[c][other]
            PROVE  Falsy(a, saved[c], other)
        <5>1. form'[other] = form[other]
          BY <3>3, <4>2, <4>3 DEF Forms
        <5>2. FormSettings(a, form')[other] = FormSettings(a, form)[other]
          BY <4>3, <5>1 DEF FormSettings
        <5> QED  BY <1>1, <3>3, <3>5, <4>1, <4>3, <5>2 DEF Inv, FormShowsSaved
      <4> QED  BY <3>5, <4>3
    <3> QED  BY <3>4, <3>5
  <2>3. UNCHANGED saved \/ Change
    BY <1>1 DEF Next, Appear, Disappear, Press, Release, connected, OnMessage, Restart, vars
  <2> QED  BY <2>1, <2>2, <2>3
<1>2. Inv /\ [Next]_vars => [\A c \in Contexts : One(c)]_vars
  BY <1>1
<1> QED  BY <1>2, InspectorInvariant, PTL DEF Spec, ChangesOneSetting

=============================================================================
