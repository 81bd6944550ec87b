--------------------------- MODULE MidiPorts_proofs ---------------------------
(***************************************************************************)
(* The plugin works with the ports the user has saved: for any devices,    *)
(* names and numbers of messages, exits and restarts.                      *)
(***************************************************************************)
EXTENDS MidiPorts, SequenceTheorems, WellFoundedInduction, TLAPS

-----------------------------------------------------------------------------
(* The ends of a set of indices *)

\* A set of natural numbers that is not empty has a least element.
LEMMA LeastIndex ==
    ASSUME NEW S, S \subseteq Nat, S # {}
    PROVE  \E m \in S : \A k \in S : m <= k
<1> DEFINE R == OpToRel(<, Nat)
<1>1. IsWellFoundedOn(R, Nat)
  BY NatLessThanWellFounded
<1> HIDE DEF R
<1>2. PICK m \in S : \A k \in S : <<k, m>> \notin R
  BY <1>1, WFMin
<1>3. ASSUME NEW k \in S, k < m PROVE <<k, m>> \in R
  BY <1>3 DEF R, OpToRel
<1>4. \A k \in S : ~(k < m)
  BY <1>2, <1>3
<1>5. m \in Nat /\ \A k \in S : k \in Nat
  OBVIOUS
<1> QED  BY <1>4, <1>5

\* A set of indices that is not empty has a last element.
LEMMA LastIndex ==
    ASSUME NEW n \in Nat, NEW S, S \subseteq 0 .. n, S # {}
    PROVE  \E m \in S : \A k \in S : k <= m
<1> DEFINE T == {n - k : k \in S}
<1>1. T \subseteq Nat /\ T # {}
  <2>1. ASSUME NEW k \in S PROVE n - k \in Nat
    <3>1. k \in 0 .. n
      OBVIOUS
    <3> QED  BY <3>1
  <2> QED  BY <2>1
<1>2. PICK t \in T : \A u \in T : t <= u
  <2> HIDE DEF T
  <2> QED  BY <1>1, LeastIndex
<1>3. PICK m \in S : t = n - m
  OBVIOUS
<1>4. ASSUME NEW k \in S PROVE k <= m
  <2>1. n - k \in T
    OBVIOUS
  <2>2. n - m <= n - k
    BY <1>2, <1>3, <2>1
  <2>3. m \in 0 .. n /\ k \in 0 .. n
    OBVIOUS
  <2> QED  BY <2>2, <2>3
<1> QED  BY <1>4

-----------------------------------------------------------------------------
(* The index of a port *)

\* The names in a list of devices, and its indices.
LEMMA DeviceList ==
    ASSUME devices \in Configs, NEW d \in Dirs
    PROVE  /\ devices[d] \in Seq(Names) /\ Len(devices[d]) \in Nat
           /\ DOMAIN devices[d] = 1 .. Len(devices[d])
           /\ 0 .. Len(devices[d]) - 1 \subseteq Indices
           /\ \A i \in 1 .. Len(devices[d]) : devices[d][i] \in Names
<1>1. devices[d] \in Seq(Names)
  BY PortsAssumption
<1>2. /\ Len(devices[d]) \in Nat /\ DOMAIN devices[d] = 1 .. Len(devices[d])
      /\ \A i \in 1 .. Len(devices[d]) : devices[d][i] \in Names
  BY <1>1, LenProperties
<1>3. DOMAIN devices[d] \subseteq Indices
  BY DEF Indices
<1>4. ASSUME NEW i \in 0 .. Len(devices[d]) - 1 PROVE i \in Indices
  <2>1. CASE i = 0
    BY <2>1 DEF Indices
  <2>2. CASE i # 0
    BY <1>2, <1>3, <2>2
  <2> QED  BY <2>1, <2>2
<1> QED  BY <1>1, <1>2, <1>4

\* The search for the name of a port ends at a port of that name, or nowhere.
LEMMA IndexOfName ==
    ASSUME devices \in Configs, NEW d \in Dirs, NEW s
    PROVE  /\ \/ PortIndex(d, s) = s.index[d]
              \/ /\ PortIndex(d, s) \in 0 .. Len(devices[d]) - 1
                 /\ devices[d][PortIndex(d, s) + 1] = s.name[d]
           /\ (\E i \in DOMAIN devices[d] : devices[d][i] = s.name[d])
                 => get_port_name(d, PortIndex(d, s)) = s.name[d]
<1> DEFINE n == Len(devices[d])
           named == {i \in 0 .. n - 1 : devices[d][i + 1] = s.name[d]}
<1>1. n \in Nat /\ DOMAIN devices[d] = 1 .. n
  BY DeviceList
<1>2. CASE s.name[d] = get_port_name(d, s.index[d]) \/ named = {}
  <2>1. PortIndex(d, s) = s.index[d]
    BY <1>2 DEF PortIndex
  <2>2. ASSUME NEW i \in DOMAIN devices[d], devices[d][i] = s.name[d] PROVE i - 1 \in named
    BY <1>1, <2>2
  <2> QED  BY <1>2, <2>1, <2>2
<1>3. CASE ~(s.name[d] = get_port_name(d, s.index[d]) \/ named = {})
  <2>1. PortIndex(d, s) = CHOOSE m \in named : \A i \in named : i <= m
    BY <1>3 DEF PortIndex
  <2>2. named \subseteq 0 .. n /\ named # {}
    BY <1>1, <1>3
  <2>3. \E m \in named : \A i \in named : i <= m
    <3> HIDE DEF named
    <3> QED  BY <1>1, <2>2, LastIndex
  <2>4. PortIndex(d, s) \in named
    <3> HIDE DEF named
    <3> QED  BY <2>1, <2>3
  <2>5. PortIndex(d, s) \in 0 .. n - 1 /\ devices[d][PortIndex(d, s) + 1] = s.name[d]
    BY <2>4
  <2> QED  BY <1>1, <2>5 DEF get_port_name
<1> QED  BY <1>2, <1>3

\* The index that is found, by the name or as it was given, is one of the Indices.
LEMMA IndexTyped ==
    ASSUME devices \in Configs, NEW d \in Dirs, NEW s \in PluginSettings
    PROVE  PortIndex(d, s) \in Indices
<1>1. s.index[d] \in Indices
  BY DEF PluginSettings
<1> QED  BY <1>1, IndexOfName, DeviceList

\* get_port_name returns a name for every index.
LEMMA PortNameTyped ==
    ASSUME devices \in Configs, NEW d \in Dirs, NEW i \in Indices
    PROVE  get_port_name(d, i) \in Names \cup {NoName}
<1>1. i \in Nat
  <2>1. ASSUME NEW c \in Configs, NEW e \in Dirs PROVE DOMAIN c[e] \subseteq Nat
    <3>1. c[e] \in Seq(Names)
      BY PortsAssumption
    <3> QED  BY <3>1, LenProperties
  <2> QED  BY <2>1 DEF Indices
<1> QED  BY <1>1, DeviceList DEF get_port_name

-----------------------------------------------------------------------------
(* Handling settings *)

\* The settings the plugin takes over have all their fields.
LEMMA ReceivedTyped ==
    ASSUME mGlobalSettings \in PluginSettings, NEW s \in Settings \cup {Unsaved}
    PROVE  Received(s) \in PluginSettings
<1>1. CASE s = Unsaved
  BY <1>1 DEF Received
<1>2. CASE s # Unsaved
  <2> DEFINE name == [d \in Dirs |->
                 IF d \in DOMAIN s.name THEN s.name[d] ELSE mGlobalSettings.name[d]]
  <2>1. s \in Settings
    BY <1>2
  <2>2. s.name \in NameSettings /\ mGlobalSettings.name \in [Dirs -> OptionNames]
    BY <2>1 DEF Settings, PluginSettings
  <2>3. PICK given \in SUBSET Dirs : s.name \in [given -> OptionNames]
    BY <2>2 DEF NameSettings
  <2>4. name \in [Dirs -> OptionNames]
    BY <2>2, <2>3
  <2>5. Received(s) = [s EXCEPT !.name = name]
    BY <1>2 DEF Received
  <2> HIDE DEF name
  <2> QED  BY <2>1, <2>4, <2>5 DEF Settings, PluginSettings
<1> QED  BY <1>1, <1>2

\* What InitialiseMidi leaves of a port and of the settings.
LEMMA InitialisedTyped ==
    ASSUME devices \in Configs, port \in [Dirs -> Ports], NEW d \in Dirs,
           NEW s \in PluginSettings
    PROVE  Initialised(d, s) \in Ports /\ Indexed(d, s) \in PluginSettings
<1>1. PortIndex(d, s) \in Indices
  BY IndexTyped
<1>2. get_port_name(d, PortIndex(d, s)) \in Names \cup {NoName}
  BY <1>1, PortNameTyped
<1>3. Initialised(d, s) \in Ports
  BY <1>2 DEF Initialised, Ports, Closed, PluginSettings
<1>4. Indexed(d, s) \in PluginSettings
  BY <1>1 DEF Indexed, PluginSettings
<1> QED  BY <1>3, <1>4

IndexFor(d, name, index) ==
    LET named == {i \in 0 .. Len(devices[d]) - 1 : devices[d][i + 1] = name}
    IN  IF name = get_port_name(d, index) \/ named = {} THEN index
        ELSE CHOOSE last \in named : \A i \in named : i <= last

\* PortIndex depends on the name and the index of its own direction only.
LEMMA IndexByNameAndIndex ==
    ASSUME NEW d, NEW s
    PROVE  PortIndex(d, s) = IndexFor(d, s.name[d], s.index[d])
BY DEF PortIndex, IndexFor

\* A port's index is searched for by its own name and index only.
LEMMA IndexedApart ==
    ASSUME devices \in Configs, NEW s \in PluginSettings,
           NEW r, r = Indexed("OUT", Indexed("IN", s)), NEW d \in Dirs
    PROVE  /\ r.useVirtualPort = s.useVirtualPort /\ r.portName = s.portName
           /\ r.name = s.name
           /\ \/ r.index[d] = s.index[d]
              \/ ~s.useVirtualPort /\ devices[d] # <<>> /\ r.index[d] = PortIndex(d, s)
<1> DEFINE q == Indexed("IN", s)
<1>0. r = Indexed("OUT", q)
  OBVIOUS
<1>1. /\ q \in PluginSettings /\ q.useVirtualPort = s.useVirtualPort
      /\ q.portName = s.portName /\ q.name = s.name
      /\ q.index["OUT"] = s.index["OUT"]
      /\ q.index["IN"] = s.index["IN"]
           \/ /\ ~s.useVirtualPort /\ devices["IN"] # <<>>
              /\ q.index["IN"] = PortIndex("IN", s)
  <2>1. PortIndex("IN", s) \in Indices
    BY IndexTyped DEF Dirs
  <2> QED  BY <2>1 DEF Indexed, PluginSettings, Dirs
<1> HIDE DEF q
<1>2. PortIndex("OUT", q) = PortIndex("OUT", s)
  <2>1. q.name["OUT"] = s.name["OUT"] /\ q.index["OUT"] = s.index["OUT"]
    BY <1>1
  <2> QED  BY <2>1, IndexByNameAndIndex
<1>3. /\ r.useVirtualPort = q.useVirtualPort /\ r.portName = q.portName /\ r.name = q.name
      /\ r.index["IN"] = q.index["IN"]
      /\ r.index["OUT"] = q.index["OUT"]
           \/ /\ ~q.useVirtualPort /\ devices["OUT"] # <<>>
              /\ r.index["OUT"] = PortIndex("OUT", q)
  BY <1>0, <1>1 DEF Indexed, PluginSettings, Dirs
<1> QED  BY <1>1, <1>2, <1>3 DEF Dirs, q

-----------------------------------------------------------------------------
(* The messages to the plugin *)

Messages == SettingsMessages \cup {GetMidiPorts}
Replies == SettingsMessages \cup ReplyMessages

IsSettings(m) == m.event = "didReceiveGlobalSettings"
SettingsIn(q) == \E i \in 1 .. Len(q) : IsSettings(q[i])

\* The last settings that are on their way are v.
LastIs(q, v) ==
    \A i \in 1 .. Len(q) :
        IsSettings(q[i]) /\ (\A j \in i + 1 .. Len(q) : ~IsSettings(q[j]))
        => q[i].settings = v

\* Messages behind a queue: the last settings among them are the last of all.
LEMMA MessagesSent ==
    ASSUME NEW q \in Seq(Messages), NEW m \in Seq(Messages), NEW v,
           LastIs(m, v), SettingsIn(m) \/ LastIs(q, v)
    PROVE  /\ q \o m \in Seq(Messages)
           /\ LastIs(q \o m, v)
           /\ SettingsIn(q \o m) <=> SettingsIn(q) \/ SettingsIn(m)
<1> DEFINE r == q \o m
<1>1. /\ r \in Seq(Messages) /\ Len(q) \in Nat /\ Len(m) \in Nat
      /\ Len(r) = Len(q) + Len(m)
      /\ \A i \in 1 .. Len(q) + Len(m) :
             r[i] = IF i <= Len(q) THEN q[i] ELSE m[i - Len(q)]
  BY ConcatProperties, LenProperties
<1> HIDE DEF r
<1>2. \A i \in 1 .. Len(q) : i \in 1 .. Len(r) /\ r[i] = q[i]
  BY <1>1
<1>3. ASSUME NEW i \in 1 .. Len(m)
      PROVE  Len(q) + i \in 1 .. Len(r) /\ r[Len(q) + i] = m[i]
  <2>1. /\ Len(q) + i \in 1 .. Len(q) + Len(m)
        /\ ~(Len(q) + i <= Len(q)) /\ (Len(q) + i) - Len(q) = i
    BY <1>1
  <2> QED  BY <1>1, <2>1
<1>4. SettingsIn(r) <=> SettingsIn(q) \/ SettingsIn(m)
  <2>1. ASSUME SettingsIn(r) PROVE SettingsIn(q) \/ SettingsIn(m)
    <3>1. PICK i \in 1 .. Len(r) : IsSettings(r[i])
      BY <2>1 DEF SettingsIn
    <3>2. CASE i <= Len(q)
      BY <1>1, <3>1, <3>2 DEF SettingsIn
    <3>3. CASE i > Len(q)
      <4>1. i - Len(q) \in 1 .. Len(m) /\ r[i] = m[i - Len(q)]
        BY <1>1, <3>3
      <4> QED  BY <3>1, <4>1 DEF SettingsIn
    <3> QED  BY <1>1, <3>2, <3>3
  <2> QED  BY <1>2, <1>3, <2>1 DEF SettingsIn
<1>5. ASSUME NEW i \in 1 .. Len(r), IsSettings(r[i]),
             \A j \in i + 1 .. Len(r) : ~IsSettings(r[j])
      PROVE  r[i].settings = v
  <2>1. CASE i <= Len(q)
    <3>1. ASSUME NEW k \in 1 .. Len(m) PROVE ~IsSettings(m[k])
      <4>1. Len(q) + k \in i + 1 .. Len(r)
        BY <1>1, <2>1
      <4> QED  BY <1>3, <1>5, <4>1
    <3>2. LastIs(q, v)
      BY <3>1 DEF SettingsIn
    <3>3. \A j \in i + 1 .. Len(q) : ~IsSettings(q[j])
      BY <1>1, <1>2, <1>5
    <3> QED  BY <1>1, <1>5, <2>1, <3>2, <3>3 DEF LastIs
  <2>2. CASE i > Len(q)
    <3> DEFINE k == i - Len(q)
    <3>1. k \in 1 .. Len(m) /\ r[i] = m[k]
      BY <1>1, <2>2
    <3>2. ASSUME NEW j \in k + 1 .. Len(m) PROVE ~IsSettings(m[j])
      <4>1. Len(q) + j \in i + 1 .. Len(r) /\ j \in 1 .. Len(m)
        BY <1>1, <2>2
      <4> QED  BY <1>3, <1>5, <4>1
    <3> HIDE DEF k
    <3> QED  BY <1>5, <3>1, <3>2 DEF LastIs
  <2> QED  BY <1>1, <2>1, <2>2
<1> QED  BY <1>1, <1>4, <1>5 DEF LastIs, r

\* A queue without its head keeps its last settings, unless they were the head.
LEMMA MessageHandled ==
    ASSUME NEW q \in Seq(Messages), q # <<>>, NEW v, LastIs(q, v)
    PROVE  /\ Head(q) \in Messages /\ Tail(q) \in Seq(Messages)
           /\ LastIs(Tail(q), v)
           /\ SettingsIn(q) => SettingsIn(Tail(q)) \/ IsSettings(Head(q))
           /\ IsSettings(Head(q)) /\ ~SettingsIn(Tail(q)) => Head(q).settings = v
<1> DEFINE t == Tail(q)
<1>1. /\ Head(q) \in Messages /\ t \in Seq(Messages)
      /\ Len(q) \in Nat \ {0} /\ Len(t) = Len(q) - 1
      /\ \A i \in 1 .. Len(t) : t[i] = q[i + 1]
  BY HeadTailProperties, LenProperties, EmptySeq
<1>2. Head(q) = q[1]
  BY <1>1
<1> HIDE DEF t
<1>3. \A i \in 2 .. Len(q) : i - 1 \in 1 .. Len(t) /\ q[i] = t[i - 1]
  BY <1>1
<1>4. ASSUME NEW i \in 1 .. Len(t), IsSettings(t[i]),
             \A j \in i + 1 .. Len(t) : ~IsSettings(t[j])
      PROVE  t[i].settings = v
  <2>1. i + 1 \in 1 .. Len(q) /\ q[i + 1] = t[i]
    BY <1>1
  <2>2. ASSUME NEW j \in (i + 1) + 1 .. Len(q) PROVE ~IsSettings(q[j])
    <3>1. j - 1 \in i + 1 .. Len(t) /\ j \in 2 .. Len(q)
      BY <1>1
    <3> QED  BY <1>3, <1>4, <3>1
  <2> QED  BY <1>4, <2>1, <2>2 DEF LastIs
<1>5. SettingsIn(q) => SettingsIn(t) \/ IsSettings(q[1])
  <2> SUFFICES ASSUME NEW i \in 1 .. Len(q), IsSettings(q[i]), i # 1 PROVE SettingsIn(t)
    BY DEF SettingsIn
  <2>1. i \in 2 .. Len(q)
    BY <1>1
  <2> QED  BY <1>3, <2>1 DEF SettingsIn
<1>6. ASSUME IsSettings(q[1]), ~SettingsIn(t) PROVE q[1].settings = v
  <2>1. ASSUME NEW j \in 1 + 1 .. Len(q) PROVE ~IsSettings(q[j])
    BY <1>1, <1>3, <1>6 DEF SettingsIn
  <2>2. 1 \in 1 .. Len(q)
    BY <1>1
  <2> QED  BY <1>6, <2>1, <2>2 DEF LastIs
<1> QED  BY <1>1, <1>2, <1>4, <1>5, <1>6 DEF LastIs, t

\* What the application sends: settings, and a request for the ports after them.
LEMMA MessagesTyped ==
    ASSUME NEW v \in Settings \cup {Unsaved}
    PROVE  LET m == [event |-> "didReceiveGlobalSettings", settings |-> v] IN
           /\ \A q \in {<<m>>, <<m>> \o <<GetMidiPorts>>, <<m>> \o <<>>} :
                  q \in Seq(Messages) /\ LastIs(q, v) /\ SettingsIn(q)
           /\ \A q \in {<<>>, <<GetMidiPorts>>} :
                  q \in Seq(Messages) /\ LastIs(q, v) /\ ~SettingsIn(q)
<1> DEFINE m == [event |-> "didReceiveGlobalSettings", settings |-> v]
           g == GetMidiPorts
<1>1. m \in Messages /\ IsSettings(m) /\ m.settings = v
  BY DEF Messages, SettingsMessages, IsSettings
<1>2. g \in Messages /\ ~IsSettings(g)
  BY DEF Messages, GetMidiPorts, IsSettings
<1> HIDE DEF m, g
<1>3. <<>> \in Seq(Messages) /\ <<m>> \in Seq(Messages) /\ <<g>> \in Seq(Messages)
  BY <1>1, <1>2
<1>4. /\ LastIs(<<m>>, v) /\ SettingsIn(<<m>>)
      /\ LastIs(<<>>, v) /\ ~SettingsIn(<<>>)
      /\ LastIs(<<g>>, v) /\ ~SettingsIn(<<g>>)
  BY <1>1, <1>2 DEF LastIs, SettingsIn
<1>5. \A q \in {<<g>>, <<>>} :
          <<m>> \o q \in Seq(Messages) /\ LastIs(<<m>> \o q, v) /\ SettingsIn(<<m>> \o q)
  BY <1>3, <1>4, MessagesSent
<1> QED  BY <1>3, <1>4, <1>5 DEF m, g

-----------------------------------------------------------------------------
(* The inductive invariant of the plugin: what it has followed, or is about *)
(* to, are the settings that were saved last.                               *)

PluginTyped ==
    /\ devices \in Configs
    /\ saved \in Settings \cup {Unsaved}
    /\ toPlugin \in Seq(Messages)
    /\ alive \in BOOLEAN /\ initialSetup \in BOOLEAN
    /\ mGlobalSettings \in PluginSettings
    /\ port \in [Dirs -> Ports]

\* A process that has ended has left nothing behind.
Gone == ~alive => ~initialSetup /\ toPlugin = <<>>

\* The plugin's copy g of the settings, and the ports p, are those of v.
Follows(v, g, p) ==
    /\ g.useVirtualPort = v.useVirtualPort
    /\ g.portName = v.portName
    /\ \A d \in DOMAIN v.name : g.name[d] = v.name[d]
    /\ \A d \in Dirs : g.index[d] = v.index[d] \/ p[d] = [kind |-> "device", name |-> g.name[d]]

FollowsInv ==
    alive /\ initialSetup /\ saved # Unsaved /\ ~SettingsIn(toPlugin)
        => Follows(saved, mGlobalSettings, port)

PluginInv == PluginTyped /\ Gone /\ LastIs(toPlugin, saved) /\ FollowsInv /\ PortsBelongTogether

\* The application sends the plugin messages, the last settings among which are v.
LEMMA PluginTold ==
    ASSUME PluginInv, NEW v \in Settings \cup {Unsaved}, NEW messages \in Seq(Messages),
           ToPlugin(messages), saved' = v, LastIs(messages, v),
           SettingsIn(messages) \/ v = saved, UNCHANGED <<devices, alive, mGlobalSettings, port>>,
           \/ UNCHANGED initialSetup
           \/ alive /\ initialSetup' = TRUE /\ SettingsIn(messages)
    PROVE  PluginInv'
<1>1. PortsBelongTogether'
  BY DEF PluginInv, PortsBelongTogether
<1>2. CASE alive
  <2>1. toPlugin' = toPlugin \o messages
    BY <1>2 DEF ToPlugin
  <2>2. /\ toPlugin' \in Seq(Messages) /\ LastIs(toPlugin', v)
        /\ SettingsIn(toPlugin') <=> SettingsIn(toPlugin) \/ SettingsIn(messages)
    BY <2>1, MessagesSent DEF PluginInv, PluginTyped
  <2>3. FollowsInv'
    BY <2>2 DEF PluginInv, FollowsInv
  <2> QED  BY <1>1, <1>2, <2>2, <2>3 DEF PluginInv, PluginTyped, Gone
<1>3. CASE ~alive
  <2>1. toPlugin' = <<>> /\ ~initialSetup'
    BY <1>3 DEF ToPlugin, PluginInv, Gone
  <2>2. <<>> \in Seq(Messages) /\ LastIs(<<>>, v)
    BY DEF LastIs
  <2> QED  BY <1>1, <1>3, <2>1, <2>2 DEF PluginInv, PluginTyped, Gone, FollowsInv
<1> QED  BY <1>2, <1>3 DEF PluginInv, PluginTyped

\* What the plugin takes over of settings that were saved.
LEMMA ReceivedFollows ==
    ASSUME mGlobalSettings \in PluginSettings, NEW v \in Settings, NEW p
    PROVE  Follows(v, Received(v), p) /\ Received(v).index = v.index
<1> DEFINE name == [d \in Dirs |->
               IF d \in DOMAIN v.name THEN v.name[d] ELSE mGlobalSettings.name[d]]
<1>1. Received(v) = [v EXCEPT !.name = name]
  BY PortsAssumption DEF Received
<1>2. DOMAIN v.name \subseteq Dirs
  BY DEF Settings, NameSettings
<1>3. \A d \in DOMAIN v.name : name[d] = v.name[d]
  BY <1>2
<1> HIDE DEF name
<1> QED  BY <1>1, <1>3 DEF Follows, Settings

\* The ports are opened by settings s.
LEMMA PortsOpened ==
    ASSUME PluginTyped, NEW s \in PluginSettings, NEW v, Follows(v, s, port'),
           s.index = v.index, PortsBelongTogether, OpensPorts(s), UNCHANGED devices
    PROVE  /\ mGlobalSettings' \in PluginSettings /\ port' \in [Dirs -> Ports]
           /\ Follows(v, mGlobalSettings', port')
           /\ PortsBelongTogether'
<1>1. CASE Initialised("IN", s) = Closed
  <2>1. mGlobalSettings' = s /\ port' = [port EXCEPT !["IN"] = Closed]
    BY <1>1 DEF OpensPorts
  <2>2. Closed \in Ports /\ Closed.kind = "closed"
    BY DEF Closed, Ports
  <2> QED  BY <2>1, <2>2 DEF PluginTyped, PortsBelongTogether, Dirs
<1>2. CASE Initialised("IN", s) # Closed
  <2> DEFINE r == Indexed("OUT", Indexed("IN", s))
  <2>1. mGlobalSettings' = r /\ port' = [d \in Dirs |-> Initialised(d, s)]
    BY <1>2 DEF OpensPorts
  <2>2. r \in PluginSettings /\ port' \in [Dirs -> Ports]
    BY <2>1, InitialisedTyped DEF PluginTyped, Dirs
  <2>3. /\ r.useVirtualPort = s.useVirtualPort /\ r.portName = s.portName /\ r.name = s.name
        /\ \A d \in Dirs :
              \/ r.index[d] = s.index[d]
              \/ ~s.useVirtualPort /\ devices[d] # <<>> /\ r.index[d] = PortIndex(d, s)
    <3> HIDE DEF r
    <3>1. devices \in Configs
      BY DEF PluginTyped
    <3>2. r = Indexed("OUT", Indexed("IN", s))
      BY DEF r
    <3>3. "IN" \in Dirs
      BY DEF Dirs
    <3> QED  BY <3>1, <3>2, <3>3, IndexedApart
  <2> HIDE DEF r
  <2>4. ASSUME NEW d \in Dirs
        PROVE  r.index[d] = v.index[d] \/ port'[d] = [kind |-> "device", name |-> r.name[d]]
    <3> SUFFICES ASSUME r.index[d] # s.index[d]
                 PROVE  port'[d] = [kind |-> "device", name |-> s.name[d]]
      BY <2>3
    <3>1. ~s.useVirtualPort /\ devices[d] # <<>> /\ PortIndex(d, s) # s.index[d]
      BY <2>3
    <3>2. get_port_name(d, PortIndex(d, s)) = s.name[d]
      <4>1. Len(devices[d]) \in Nat
        BY DeviceList DEF PluginTyped
      <4>2. /\ PortIndex(d, s) \in 0 .. Len(devices[d]) - 1
            /\ devices[d][PortIndex(d, s) + 1] = s.name[d]
        BY <3>1, IndexOfName DEF PluginTyped
      <4> QED  BY <4>1, <4>2 DEF get_port_name
    <3> QED  BY <2>1, <3>1, <3>2 DEF Initialised
  <2>5. PortsBelongTogether'
    BY <2>1 DEF PortsBelongTogether, Initialised, Closed, Dirs
  <2>6. Follows(v, r, port')
    BY <2>3, <2>4 DEF Follows
  <2> QED  BY <2>1, <2>2, <2>5, <2>6
<1> QED  BY <1>1, <1>2

\* The plugin handles settings: if no others are behind them they are the saved ones.
LEMMA SettingsHandled ==
    ASSUME PluginInv, alive, toPlugin # <<>>, IsSettings(Head(toPlugin)),
           DidReceiveGlobalSettings(Head(toPlugin).settings)
    PROVE  PluginInv'
<1> DEFINE v == Head(toPlugin).settings
           s == Received(v)
<1>1. /\ Head(toPlugin) \in Messages /\ Tail(toPlugin) \in Seq(Messages)
      /\ LastIs(Tail(toPlugin), saved)
      /\ ~SettingsIn(Tail(toPlugin)) => v = saved
  BY MessageHandled DEF PluginInv, PluginTyped
<1>2. v \in Settings \cup {Unsaved}
  BY <1>1 DEF Messages, SettingsMessages, GetMidiPorts, IsSettings
<1>3. s \in PluginSettings
  BY <1>2, ReceivedTyped DEF PluginInv, PluginTyped
<1>4. ASSUME v # Unsaved, NEW p PROVE Follows(v, s, p) /\ s.index = v.index
  BY <1>2, <1>4, ReceivedFollows DEF PluginInv, PluginTyped
<1>5. UNCHANGED <<devices, saved>> /\ (KeepsPorts(s) \/ OpensPorts(s) \/ Exits(s))
  BY DEF DidReceiveGlobalSettings
<1> HIDE DEF v, s
<1>6. CASE KeepsPorts(s)
  <2>1. /\ s = mGlobalSettings /\ toPlugin' = Tail(toPlugin)
        /\ UNCHANGED <<alive, initialSetup, mGlobalSettings, port>>
    BY <1>6 DEF KeepsPorts, Changed, plugin
  <2>2. FollowsInv'
    BY <1>1, <1>4, <1>5, <2>1 DEF FollowsInv
  <2>3. PortsBelongTogether'
    BY <2>1 DEF PluginInv, PortsBelongTogether
  <2> QED  BY <1>1, <1>5, <2>1, <2>2, <2>3 DEF PluginInv, PluginTyped, Gone
<1>7. CASE OpensPorts(s)
  <2>1. toPlugin' = Tail(toPlugin) /\ UNCHANGED <<alive, initialSetup>>
    BY <1>7 DEF OpensPorts
  <2>2. /\ mGlobalSettings' \in PluginSettings /\ port' \in [Dirs -> Ports]
        /\ PortsBelongTogether'
    <3>1. Follows(s, s, port')
      BY DEF Follows
    <3> QED  BY <1>3, <1>5, <1>7, <3>1, PortsOpened DEF PluginInv
  <2>3. ASSUME v # Unsaved PROVE Follows(v, mGlobalSettings', port')
    <3>1. Follows(v, s, port') /\ s.index = v.index
      BY <1>4, <2>3
    <3> QED  BY <1>3, <1>5, <1>7, <3>1, PortsOpened DEF PluginInv
  <2>4. FollowsInv'
    BY <1>1, <1>5, <2>1, <2>3 DEF FollowsInv
  <2> QED  BY <1>1, <1>5, <2>1, <2>2, <2>4 DEF PluginInv, PluginTyped, Gone
<1>8. CASE Exits(s)
  <2>1. /\ alive' = FALSE /\ initialSetup' = FALSE /\ mGlobalSettings' = DefaultSettings
        /\ port' = [d \in Dirs |-> Closed] /\ toPlugin' = <<>>
    BY <1>8 DEF Exits
  <2>2. DefaultSettings \in PluginSettings /\ Closed \in Ports /\ Closed.kind = "closed"
    BY DEF DefaultSettings, PluginSettings, PortNames, Indices, OptionNames, Closed, Ports
  <2>3. <<>> \in Seq(Messages) /\ LastIs(<<>>, saved)
    BY DEF LastIs
  <2>4. PortsBelongTogether'
    BY <2>1, <2>2 DEF PortsBelongTogether, Dirs
  <2> QED  BY <1>5, <2>1, <2>2, <2>3, <2>4 DEF PluginInv, PluginTyped, Gone, FollowsInv
<1> QED  BY <1>5, <1>6, <1>7, <1>8

\* The plugin answers a request for its ports.
LEMMA RequestHandled ==
    ASSUME PluginInv, alive, toPlugin # <<>>, ~IsSettings(Head(toPlugin)), SendToPlugin
    PROVE  PluginInv'
<1>1. /\ Tail(toPlugin) \in Seq(Messages) /\ LastIs(Tail(toPlugin), saved)
      /\ SettingsIn(toPlugin) => SettingsIn(Tail(toPlugin))
  BY MessageHandled DEF PluginInv, PluginTyped
<1>2. toPlugin' = Tail(toPlugin)
      /\ UNCHANGED <<devices, saved, alive, initialSetup, mGlobalSettings, port>>
  BY DEF SendToPlugin, plugin
<1>3. PortsBelongTogether'
  BY <1>2 DEF PluginInv, PortsBelongTogether
<1> QED  BY <1>1, <1>2, <1>3 DEF PluginInv, PluginTyped, Gone, FollowsInv

-----------------------------------------------------------------------------
(* The types of the property inspector *)

FormTyped(f) ==
    /\ f \in [shown : BOOLEAN, useVirtualPort : BOOLEAN, portName : PortNames,
              selector : [Dirs -> Selectors]]
    /\ \A d \in Dirs : f.selector[d].chosen \in DOMAIN f.selector[d].list \cup {NoChoice}

InspectorInv ==
    /\ toInspector \in Seq(Replies)
    /\ FormTyped(form)
    /\ plugs \in 0 .. MaxPlugs /\ saves \in 0 .. MaxSaves /\ opens \in 0 .. MaxOpens

\* The form an inspector starts with.
LEMMA EmptyFormTyped ==
    ASSUME NEW shown \in BOOLEAN
    PROVE  FormTyped(EmptyForm(shown))
<1>1. [n \in {} |-> 0] \in Lists
  <2>1. [n \in {} |-> 0] \in [{} -> Indices] /\ {} \in SUBSET OptionNames
    OBVIOUS
  <2> QED  BY <2>1 DEF Lists
<1>2. EmptySelector \in Selectors /\ EmptySelector.chosen = NoChoice
  BY <1>1 DEF EmptySelector, Selectors
<1> QED  BY <1>2 DEF FormTyped, EmptyForm, PortNames

\* A form with another selector for the direction d.
LEMMA SelectorReplaced ==
    ASSUME FormTyped(form), NEW d \in Dirs, NEW list \in Lists,
           NEW chosen \in DOMAIN list \cup {NoChoice},
           NEW f, f = [form EXCEPT !.selector[d] = [list |-> list, chosen |-> chosen]]
    PROVE  FormTyped(f)
<1>1. DOMAIN list \subseteq OptionNames
  BY DEF Lists
<1>2. [list |-> list, chosen |-> chosen] \in Selectors
  BY <1>1 DEF Selectors
<1> QED  BY <1>2 DEF FormTyped

\* What the form holds can be saved.
LEMMA FormSettingsTyped ==
    ASSUME NEW f, FormTyped(f)
    PROVE  FormSettings(f) \in Settings
<1> DEFINE Chosen(d) == f.selector[d].chosen # NoChoice
           named == {d \in Dirs : Chosen("OUT") /\ (d = "OUT" \/ Chosen("IN"))}
           index == [d \in Dirs |->
               IF Chosen(d) THEN f.selector[d].list[f.selector[d].chosen] ELSE 0]
           name == [d \in named |-> f.selector[d].chosen]
<1>1. ASSUME NEW d \in Dirs, Chosen(d)
      PROVE  /\ f.selector[d].chosen \in OptionNames
             /\ f.selector[d].list[f.selector[d].chosen] \in Indices
  <2>1. /\ f.selector[d].list \in Lists
        /\ f.selector[d].chosen \in DOMAIN f.selector[d].list
    BY <1>1 DEF FormTyped, Selectors
  <2> QED  BY <2>1 DEF Lists
<1>2. index \in [Dirs -> Indices]
  BY <1>1 DEF Indices
<1>3. name \in NameSettings
  <2>1. \A d \in named : d \in Dirs /\ Chosen(d)
    BY DEF Dirs
  <2>2. \A d \in named : f.selector[d].chosen \in OptionNames
    BY <1>1, <2>1
  <2>3. name \in [named -> OptionNames] /\ named \in SUBSET Dirs
    BY <2>2
  <2> HIDE DEF named, name
  <2> QED  BY <2>3 DEF NameSettings
<1>4. FormSettings(f) = [useVirtualPort |-> f.useVirtualPort, portName |-> f.portName,
                         index |-> index, name |-> name]
  BY DEF FormSettings
<1> HIDE DEF index, name
<1> QED  BY <1>2, <1>3, <1>4 DEF FormTyped, Settings

\* What GetMidiPortList lists has an index for each of its names.
LEMMA PortListTyped ==
    ASSUME devices \in Configs, NEW d \in Dirs
    PROVE  PortList(d) \in Lists
<1> DEFINE n == Len(devices[d])
           names == {devices[d][i] : i \in DOMAIN devices[d]}
           First(m) == CHOOSE i \in 0 .. n - 1 :
               devices[d][i + 1] = m /\ \A j \in 0 .. i - 1 : devices[d][j + 1] # m
<1>1. /\ n \in Nat /\ DOMAIN devices[d] = 1 .. n /\ 0 .. n - 1 \subseteq Indices
      /\ \A i \in 1 .. n : devices[d][i] \in Names
  BY DeviceList
<1>2. CASE n = 0
  <2>1. [m \in {ErrorName} |-> 0] \in [{ErrorName} -> Indices] /\ {ErrorName} \in SUBSET OptionNames
    BY DEF Indices, OptionNames
  <2>2. [m \in {ErrorName} |-> 0] \in Lists
    BY <2>1 DEF Lists
  <2>3. PortList(d) = [m \in {ErrorName} |-> 0]
    BY <1>2 DEF PortList
  <2> QED  BY <2>2, <2>3
<1>3. CASE n = 1
  <2>1. [m \in {NoName} |-> 1] \in [{NoName} -> Indices] /\ {NoName} \in SUBSET OptionNames
    BY DEF Indices, OptionNames
  <2>2. [m \in {NoName} |-> 1] \in Lists
    BY <2>1 DEF Lists
  <2>3. PortList(d) = [m \in {NoName} |-> 1]
    BY <1>3 DEF PortList
  <2> QED  BY <2>2, <2>3
<1>4. CASE n # 0 /\ n # 1
  <2>1. ASSUME NEW m \in names PROVE First(m) \in Indices
    <3> DEFINE at == {i \in 0 .. n - 1 : devices[d][i + 1] = m}
    <3>1. PICK i \in 1 .. n : devices[d][i] = m
      BY <1>1
    <3>2. i - 1 \in 0 .. n - 1 /\ (i - 1) + 1 = i
      BY <1>1
    <3>3. at \subseteq Nat /\ at # {}
      <4>1. i - 1 \in at
        BY <3>1, <3>2
      <4>2. \A k \in at : k \in 0 .. n - 1
        OBVIOUS
      <4> HIDE DEF at
      <4> QED  BY <1>1, <4>1, <4>2
    <3>4. PICK k \in at : \A j \in at : k <= j
      <4> HIDE DEF at
      <4> QED  BY <3>3, LeastIndex
    <3>5. \A j \in 0 .. k - 1 : devices[d][j + 1] # m
      BY <1>1, <3>4
    <3>6. First(m) \in 0 .. n - 1
      BY <3>4, <3>5
    <3> QED  BY <1>1, <3>6
  <2>2. PortList(d) = [m \in names |-> First(m)]
    BY <1>4 DEF PortList
  <2>3. names \in SUBSET OptionNames
    BY <1>1 DEF OptionNames
  <2> HIDE DEF names, First
  <2> QED  BY <2>1, <2>2, <2>3 DEF Lists
<1> QED  BY <1>2, <1>3, <1>4

-----------------------------------------------------------------------------
(* Every step keeps the invariant of the plugin and that of the inspector *)

Inv == PluginInv /\ InspectorInv

\* The program starts in the invariant.
LEMMA Initially == Init => Inv
<1> SUFFICES ASSUME Init PROVE Inv
  OBVIOUS
<1>1. DefaultSettings \in PluginSettings /\ Closed \in Ports /\ Closed.kind = "closed"
  BY DEF DefaultSettings, PluginSettings, PortNames, Indices, OptionNames, Closed, Ports
<1>2. PluginTyped /\ Gone /\ FollowsInv
  <2>1. toPlugin \in Seq(Messages)
    BY EmptySeq DEF Init
  <2> QED  BY <1>1, <2>1 DEF Init, PluginTyped, Gone, FollowsInv
<1>3. LastIs(toPlugin, saved)
  BY DEF Init, LastIs
<1>4. PortsBelongTogether
  BY <1>1 DEF Init, PortsBelongTogether, Dirs
<1>5. FormTyped(form)
  BY EmptyFormTyped DEF Init
<1>6. InspectorInv
  <2>1. toInspector \in Seq(Replies)
    BY EmptySeq DEF Init
  <2>2. plugs \in 0 .. MaxPlugs /\ saves \in 0 .. MaxSaves /\ opens \in 0 .. MaxOpens
    BY PortsAssumption DEF Init
  <2> QED  BY <1>5, <2>1, <2>2 DEF InspectorInv
<1> QED  BY <1>2, <1>3, <1>4, <1>6 DEF Inv, PluginInv

\* The steps the plugin has no part in.
LEMMA PluginIdle ==
    ASSUME PluginInv, UNCHANGED <<devices, saved, toPlugin, plugin>>
    PROVE  PluginInv'
BY DEF PluginInv, PluginTyped, Gone, FollowsInv, PortsBelongTogether, plugin

\* The steps the inspector has no part in.
LEMMA InspectorIdle ==
    ASSUME InspectorInv, UNCHANGED <<toInspector, form, counts>>
    PROVE  InspectorInv'
BY DEF InspectorInv, counts

\* A button appears, and the plugin asks for the settings.
LEMMA WillAppearStep ==
    ASSUME Inv, WillAppear
    PROVE  Inv'
<1> DEFINE m == [event |-> "didReceiveGlobalSettings", settings |-> saved]
<1>1. saved \in Settings \cup {Unsaved}
  BY DEF Inv, PluginInv, PluginTyped
<1>2. <<m>> \in Seq(Messages) /\ LastIs(<<m>>, saved) /\ SettingsIn(<<m>>)
  BY <1>1, MessagesTyped
<1>3. /\ alive /\ initialSetup' = TRUE /\ ToPlugin(<<m>>)
      /\ UNCHANGED <<devices, saved, toInspector, alive, mGlobalSettings, port, form, counts>>
  BY DEF WillAppear
<1> HIDE DEF m
<1>4. PluginInv'
  BY <1>1, <1>2, <1>3, PluginTold DEF Inv
<1> QED  BY <1>3, <1>4, InspectorIdle DEF Inv

\* The lists and the selected indices reach the inspector.
LEMMA RepliesSent ==
    ASSUME PluginTyped, toInspector \in Seq(Replies)
    PROVE  toInspector \o Reply("OUT") \o Reply("IN") \in Seq(Replies)
<1>1. ASSUME NEW d \in Dirs PROVE Reply(d) \in Seq(Replies)
  <2>1. PortList(d) \in Lists /\ mGlobalSettings.index[d] \in Indices
    BY PortListTyped DEF PluginTyped, PluginSettings
  <2>2. /\ [event |-> "midiPorts", dir |-> d, list |-> PortList(d)] \in Replies
        /\ [event |-> "midiPortSelected", dir |-> d,
            index |-> mGlobalSettings.index[d]] \in Replies
    BY <2>1 DEF Replies, ReplyMessages
  <2> QED  BY <2>2 DEF Reply
<1>2. Reply("OUT") \in Seq(Replies) /\ Reply("IN") \in Seq(Replies)
  BY <1>1 DEF Dirs
<1> QED  BY <1>2, ConcatProperties

\* The plugin handles a message.
LEMMA OnMessageStep ==
    ASSUME Inv, OnMessage
    PROVE  Inv'
<1>1. alive /\ toPlugin # <<>>
  BY DEF OnMessage
<1>2. CASE /\ Head(toPlugin).event = "didReceiveGlobalSettings"
           /\ DidReceiveGlobalSettings(Head(toPlugin).settings)
  <2>1. PluginInv'
    BY <1>1, <1>2, SettingsHandled DEF Inv, IsSettings
  <2>2. UNCHANGED <<toInspector, form, counts>>
    BY <1>2 DEF DidReceiveGlobalSettings
  <2> QED  BY <2>1, <2>2, InspectorIdle DEF Inv
<1>3. CASE Head(toPlugin).event = "getMidiPorts" /\ SendToPlugin
  <2>1. PluginInv'
    BY <1>1, <1>3, RequestHandled DEF Inv, IsSettings
  <2>2. toInspector' = toInspector \o Reply("OUT") \o Reply("IN") /\ UNCHANGED <<form, counts>>
    BY <1>3 DEF SendToPlugin
  <2>3. toInspector' \in Seq(Replies)
    BY <2>2, RepliesSent DEF Inv, PluginInv, InspectorInv
  <2> QED  BY <2>1, <2>2, <2>3 DEF Inv, InspectorInv, counts
<1> QED  BY <1>2, <1>3 DEF OnMessage

\* The plugin is started again.
LEMMA RestartStep ==
    ASSUME Inv, Restart
    PROVE  Inv'
<1>1. PluginInv'
  BY DEF Inv, PluginInv, PluginTyped, Gone, FollowsInv, PortsBelongTogether, Restart
<1>2. UNCHANGED <<toInspector, form, counts>>
  BY DEF Restart
<1> QED  BY <1>1, <1>2, InspectorIdle DEF Inv

\* An inspector is opened.
LEMMA connectedStep ==
    ASSUME Inv, connected
    PROVE  Inv'
<1>1. PluginInv'
  BY PluginIdle DEF Inv, connected, plugin
<1>2. FormTyped(form')
  BY EmptyFormTyped DEF connected
<1>3. toInspector' \in Seq(Replies)
  <2> DEFINE m == [event |-> "didReceiveGlobalSettings", settings |-> saved]
  <2>1. m \in Replies
    BY DEF Inv, PluginInv, PluginTyped, Replies, SettingsMessages
  <2>2. toInspector' = <<m>>
    BY DEF connected
  <2> HIDE DEF m
  <2> QED  BY <2>1, <2>2
<1>4. /\ opens' \in 0 .. MaxOpens /\ UNCHANGED <<plugs, saves>>
  BY PortsAssumption DEF Inv, InspectorInv, connected
<1> QED  BY <1>1, <1>2, <1>3, <1>4 DEF Inv, InspectorInv

\* The inspector handles the settings, or what the plugin tells it of its ports.
LEMMA receivedDataFromPluginStep ==
    ASSUME Inv, receivedDataFromPlugin
    PROVE  Inv'
<1> DEFINE m == Head(toInspector)
<1>1. /\ m \in Replies /\ Tail(toInspector) \in Seq(Replies)
      /\ toInspector' = Tail(toInspector)
      /\ UNCHANGED <<devices, saved, plugin, counts>>
  BY HeadTailProperties, EmptySeq DEF Inv, InspectorInv, receivedDataFromPlugin
<1>2. FormTyped(form)
  BY DEF Inv, InspectorInv
<1>3. SUFFICES PluginInv' /\ FormTyped(form')
  BY <1>1 DEF Inv, InspectorInv, counts
<1>4. CASE /\ m.event = "didReceiveGlobalSettings"
           /\ InspectorDidReceiveGlobalSettings(m.settings)
  <2> DEFINE virtual == m.settings # Unsaved /\ m.settings.useVirtualPort
             name == IF m.settings = Unsaved THEN Unset ELSE m.settings.portName
             requests == IF virtual THEN <<>> ELSE <<GetMidiPorts>>
  <2>1. m.settings \in Settings \cup {Unsaved}
    BY <1>1, <1>4 DEF Replies, SettingsMessages, ReplyMessages
  <2>2. virtual \in BOOLEAN /\ name \in PortNames
    BY <2>1 DEF Settings, PortNames
  <2>3. form' = [form EXCEPT !.useVirtualPort = virtual, !.portName = name] /\ ToPlugin(requests)
    BY <1>4 DEF InspectorDidReceiveGlobalSettings
  <2>4. FormTyped(form')
    <3> HIDE DEF virtual, name
    <3> QED  BY <1>2, <2>2, <2>3 DEF FormTyped
  <2>5. PluginInv'
    <3>1. saved \in Settings \cup {Unsaved}
      BY DEF Inv, PluginInv, PluginTyped
    <3>2. requests \in Seq(Messages) /\ LastIs(requests, saved)
      <4>1. requests \in {<<>>, <<GetMidiPorts>>}
        OBVIOUS
      <4> QED  BY <3>1, <4>1, MessagesTyped
    <3>3. UNCHANGED <<devices, saved, alive, initialSetup, mGlobalSettings, port>>
      BY <1>1 DEF plugin
    <3> HIDE DEF requests
    <3> QED  BY <2>3, <3>1, <3>2, <3>3, PluginTold DEF Inv
  <2> QED  BY <2>4, <2>5
<1>5. CASE m.event = "midiPorts" /\ ReceivePorts(m.dir, m.list)
  <2>1. m.dir \in Dirs /\ m.list \in Lists
    BY <1>1, <1>5 DEF Replies, SettingsMessages, ReplyMessages
  <2>2. PICK first \in DOMAIN m.list :
            form' = [form EXCEPT !.selector[m.dir] = [list |-> m.list, chosen |-> first]]
    BY <1>5 DEF ReceivePorts
  <2>3. FormTyped(form')
    <3> HIDE DEF m
    <3> QED  BY <1>2, <2>1, <2>2, SelectorReplaced
  <2>4. PluginInv'
    BY <1>1, <1>5, PluginIdle DEF Inv, ReceivePorts
  <2> QED  BY <2>3, <2>4
<1>6. CASE m.event = "midiPortSelected" /\ ReceiveSelected(m.dir, m.index)
  <2> DEFINE list == form.selector[m.dir].list
             with == {n \in DOMAIN list : list[n] = m.index}
             chosen == IF with = {} THEN NoChoice ELSE CHOOSE n \in with : TRUE
  <2>1. m.dir \in Dirs
    BY <1>1, <1>6 DEF Replies, SettingsMessages, ReplyMessages
  <2>2. chosen \in DOMAIN list \cup {NoChoice}
    OBVIOUS
  <2>3. list \in Lists
    BY <1>2, <2>1 DEF FormTyped, Selectors
  <2>4. form' = [form EXCEPT !.selector[m.dir].chosen = chosen]
    BY <1>6 DEF ReceiveSelected
  <2>5. FormTyped(form')
    <3>1. form.selector[m.dir] = [list |-> list, chosen |-> form.selector[m.dir].chosen]
      BY <1>2, <2>1 DEF FormTyped, Selectors
    <3> HIDE DEF chosen, m
    <3>2. form' = [form EXCEPT !.selector[m.dir] = [list |-> list, chosen |-> chosen]]
      BY <1>2, <2>1, <2>4, <3>1 DEF FormTyped
    <3> HIDE DEF list
    <3> QED  BY <1>2, <2>1, <2>2, <2>3, <3>2, SelectorReplaced
  <2>6. PluginInv'
    BY <1>1, <1>6, PluginIdle DEF Inv, ReceiveSelected
  <2> QED  BY <2>5, <2>6
<1> QED  BY <1>4, <1>5, <1>6 DEF receivedDataFromPlugin

\* The form is saved as f: the settings reach the plugin as the last ones.
LEMMA saveGlobalSettingsStep ==
    ASSUME Inv, NEW f, FormTyped(f), saveGlobalSettings(f)
    PROVE  Inv'
<1> DEFINE v == FormSettings(f)
           m == [event |-> "didReceiveGlobalSettings", settings |-> v]
           messages == <<m>> \o (IF f.useVirtualPort THEN <<>> ELSE <<GetMidiPorts>>)
<1>1. v \in Settings
  BY FormSettingsTyped
<1> HIDE DEF v
<1>2. messages \in Seq(Messages) /\ LastIs(messages, v) /\ SettingsIn(messages)
  <2>1. messages \in {<<m>> \o <<GetMidiPorts>>, <<m>> \o <<>>}
    OBVIOUS
  <2> HIDE DEF messages
  <2> QED  BY <1>1, <2>1, MessagesTyped
<1>3. /\ saved' = v /\ ToPlugin(messages) /\ form' = f
      /\ saves < MaxSaves /\ saves' = saves + 1
      /\ UNCHANGED <<devices, toInspector, alive, initialSetup, mGlobalSettings, port, plugs, opens>>
  BY DEF saveGlobalSettings, plugin, v
<1> HIDE DEF messages
<1>4. PluginInv'
  BY <1>1, <1>2, <1>3, PluginTold DEF Inv
<1>5. saves' \in 0 .. MaxSaves
  BY <1>3, PortsAssumption DEF Inv, InspectorInv
<1> QED  BY <1>3, <1>4, <1>5 DEF Inv, InspectorInv

\* The user changes a field of the form.
LEMMA UserStep ==
    ASSUME Inv, User
    PROVE  Inv'
<1>1. FormTyped(form)
  BY DEF Inv, InspectorInv
<1>2. CASE ChangeDebug
  BY <1>1, <1>2, saveGlobalSettingsStep DEF ChangeDebug
<1>3. CASE ChangeVirtual
  <2> DEFINE f == [form EXCEPT !.useVirtualPort = ~@]
  <2>1. FormTyped(f)
    BY <1>1 DEF FormTyped
  <2>2. saveGlobalSettings(f)
    BY <1>3 DEF ChangeVirtual
  <2> HIDE DEF f
  <2> QED  BY <2>1, <2>2, saveGlobalSettingsStep
<1>4. ASSUME NEW n \in Typed, TypePortName(n) PROVE Inv'
  <2> DEFINE f == [form EXCEPT !.portName = n]
  <2>1. FormTyped(f)
    BY <1>1 DEF FormTyped, PortNames
  <2>2. saveGlobalSettings(f)
    BY <1>4 DEF TypePortName
  <2> HIDE DEF f
  <2> QED  BY <2>1, <2>2, saveGlobalSettingsStep
<1>5. ASSUME NEW d \in Dirs, NEW n \in DOMAIN form.selector[d].list, ChoosePort(d, n)
      PROVE  Inv'
  <2> DEFINE f == [form EXCEPT !.selector[d].chosen = n]
             list == form.selector[d].list
  <2>1. FormTyped(f)
    <3>1. /\ form.selector[d] = [list |-> list, chosen |-> form.selector[d].chosen]
          /\ list \in Lists /\ n \in DOMAIN list \cup {NoChoice}
      BY <1>1 DEF FormTyped, Selectors
    <3>2. f = [form EXCEPT !.selector[d] = [list |-> list, chosen |-> n]]
      BY <1>1, <3>1 DEF FormTyped
    <3> HIDE DEF f, list
    <3> QED  BY <1>1, <3>1, <3>2, SelectorReplaced
  <2>2. saveGlobalSettings(f)
    BY <1>5 DEF ChoosePort
  <2> HIDE DEF f
  <2> QED  BY <2>1, <2>2, saveGlobalSettingsStep
<1> QED  BY <1>2, <1>3, <1>4, <1>5 DEF User

\* Devices come and go.
LEMMA PlugStep ==
    ASSUME Inv, Plug
    PROVE  Inv'
<1>1. /\ devices' \in Configs /\ plugs' \in 0 .. MaxPlugs
      /\ UNCHANGED <<saved, toPlugin, toInspector, alive, initialSetup, mGlobalSettings, port,
                     form, saves, opens>>
  BY PortsAssumption DEF Inv, InspectorInv, Plug, plugin
<1>2. PluginInv'
  BY <1>1 DEF Inv, PluginInv, PluginTyped, Gone, FollowsInv, PortsBelongTogether
<1>3. InspectorInv'
  BY <1>1 DEF Inv, InspectorInv
<1> QED  BY <1>2, <1>3 DEF Inv

-----------------------------------------------------------------------------
(* The theorems *)

\* Whatever the devices are, however many messages are queued in whichever order,
\* and however often the process ends, the invariant holds.
THEOREM PortsInvariant == Spec => []Inv
<1>1. Inv /\ [Next]_vars => Inv'
  <2> SUFFICES ASSUME Inv, [Next]_vars PROVE Inv'
    OBVIOUS
  <2>1. CASE UNCHANGED vars
    BY <2>1, PluginIdle, InspectorIdle DEF Inv, vars
  <2> QED  BY <2>1, WillAppearStep, OnMessageStep, RestartStep, connectedStep,
              receivedDataFromPluginStep, UserStep, PlugStep DEF Next
<1> QED  BY <1>1, Initially, PTL DEF Spec

\* The variables keep their types: above all, what the inspector has chosen in a
\* selector is in the selector's list, whatever the plugin sends it (pi_mac.js,
\* receivedDataFromPlugin).
THEOREM TypeCorrect == Spec => []TypeOK
<1>1. Inv => TypeOK
  BY DEF Inv, PluginInv, PluginTyped, InspectorInv, FormTyped, TypeOK, Messages, Replies
<1> QED  BY <1>1, PortsInvariant, PTL

\* The plugin works with the settings that were saved last, once they have arrived
\* (DidReceiveGlobalSettings), but for the indices it corrects.
THEOREM FollowsSaved == Spec => []PluginFollowsSaved
<1>1. Inv => PluginFollowsSaved
  <2> SUFFICES ASSUME Inv, alive, initialSetup, saved # Unsaved,
                      \A i \in DOMAIN toPlugin : toPlugin[i].event # "didReceiveGlobalSettings"
               PROVE  Follows(saved, mGlobalSettings, port)
    BY DEF PluginFollowsSaved, Follows
  <2>1. ~SettingsIn(toPlugin)
    BY LenProperties DEF Inv, PluginInv, PluginTyped, SettingsIn, IsSettings
  <2> QED  BY <2>1 DEF Inv, PluginInv, FollowsInv
<1> QED  BY <1>1, PortsInvariant, PTL

\* An input and an output that are open belong to the same settings, although
\* InitialiseMidi may give up after the input.
THEOREM PortsTogether == Spec => []PortsBelongTogether
<1>1. Inv => PortsBelongTogether
  BY DEF Inv, PluginInv
<1> QED  BY <1>1, PortsInvariant, PTL

\* A port that is opened (InitialiseMidi) is the one with the saved name as long as
\* any device has that name, in whatever order the system lists the devices.
THEOREM NamedOpens == Spec => NamedPortOpens
<1> DEFINE Opens(d) ==
        /\ port'[d] # port[d] /\ port'[d].kind = "device"
        /\ \E i \in DOMAIN devices[d] : devices[d][i] = mGlobalSettings'.name[d]
        => port'[d].name = mGlobalSettings'.name[d]
<1>1. ASSUME Inv, NEW s \in PluginSettings, OpensPorts(s), NEW d \in Dirs PROVE Opens(d)
  <2> SUFFICES ASSUME port'[d] # port[d], port'[d].kind = "device",
                      \E i \in DOMAIN devices[d] : devices[d][i] = mGlobalSettings'.name[d]
               PROVE  port'[d].name = mGlobalSettings'.name[d]
    OBVIOUS
  <2>1. devices \in Configs /\ port \in [Dirs -> Ports]
    BY <1>1 DEF Inv, PluginInv, PluginTyped
  <2>2. Initialised("IN", s) # Closed
    BY <1>1, <2>1 DEF OpensPorts, Closed
  <2> DEFINE r == Indexed("OUT", Indexed("IN", s))
  <2>3. mGlobalSettings' = r /\ port'[d] = Initialised(d, s)
    BY <1>1, <2>2 DEF OpensPorts
  <2>4. r.name = s.name
    <3> HIDE DEF r
    <3>1. r = Indexed("OUT", Indexed("IN", s))
      BY DEF r
    <3> QED  BY <2>1, <3>1, IndexedApart
  <2> HIDE DEF r
  <2>5. port'[d].name = get_port_name(d, PortIndex(d, s))
    BY <2>3 DEF Initialised, Closed
  <2>6. get_port_name(d, PortIndex(d, s)) = s.name[d]
    BY <2>1, <2>3, <2>4, IndexOfName
  <2> QED  BY <2>3, <2>4, <2>5, <2>6
<1>2. ASSUME Inv, OnMessage, NEW d \in Dirs PROVE Opens(d)
  <2> DEFINE s == Received(Head(toPlugin).settings)
  <2>1. CASE SendToPlugin
    BY <2>1 DEF SendToPlugin, plugin
  <2>2. CASE Head(toPlugin).event = "didReceiveGlobalSettings" /\ KeepsPorts(s)
    BY <2>2 DEF KeepsPorts, plugin
  <2>3. CASE Head(toPlugin).event = "didReceiveGlobalSettings" /\ OpensPorts(s)
    <3>1. Head(toPlugin).settings \in Settings \cup {Unsaved}
      <4>1. Head(toPlugin) \in Messages
        BY <1>2, MessageHandled DEF Inv, PluginInv, PluginTyped, OnMessage
      <4> QED  BY <2>3, <4>1 DEF Messages, SettingsMessages, GetMidiPorts
    <3>2. s \in PluginSettings
      BY <1>2, <3>1, ReceivedTyped DEF Inv, PluginInv, PluginTyped
    <3> HIDE DEF s
    <3> QED  BY <1>1, <1>2, <2>3, <3>2
  <2>4. CASE Exits(s)
    BY <2>4 DEF Exits, Closed
  <2> QED  BY <1>2, <2>1, <2>2, <2>3, <2>4 DEF OnMessage, DidReceiveGlobalSettings
<1>3. ASSUME Inv, [Next]_vars, NEW d \in Dirs PROVE Opens(d)
  <2>1. CASE ~OnMessage
    <3>1. UNCHANGED port
      BY <1>3, <2>1 DEF Next, vars, plugin, WillAppear, Restart, connected,
         receivedDataFromPlugin, User, ChangeDebug, ChangeVirtual, TypePortName, ChoosePort,
         saveGlobalSettings, Plug
    <3> QED  BY <3>1
  <2> QED  BY <1>2, <1>3, <2>1
<1>4. Inv /\ [Next]_vars => [\A d \in Dirs : Opens(d)]_vars
  BY <1>3
<1> QED  BY <1>4, PortsInvariant, PTL DEF Spec, NamedPortOpens

=============================================================================
