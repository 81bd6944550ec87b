----------------------------- MODULE MidiPorts ------------------------------
(***************************************************************************)
(* How a MIDI port is chosen and opened: the property inspector            *)
(* (propertyinspector/js/pi_mac.js) shows the ports the plugin lists and   *)
(* saves the user's choice as the global settings, the Stream Deck         *)
(* application keeps them and passes them on, and the plugin               *)
(* (StreamDeckMidiButton.cpp) opens its input and its output port by them. *)
(* The messages between the three are queued; the devices come and go.     *)
(*                                                                         *)
(* A handler is one step here.  printDebug is not modelled: the user who   *)
(* changes it saves the form as it stands.                                 *)
(***************************************************************************)
EXTENDS Integers, Sequences

CONSTANTS
    Configs,      \* the devices that can be connected: a list of names per direction
    Typed,        \* the names the user types for the virtual port
    ErrorName,    \* the text the plugin lists when there is no port
    NoName,       \* the empty string
    Unset,        \* the string "undefined"
    Unsaved,      \* no global settings have been saved yet
    NoChoice,     \* no option of a selector is chosen
    MaxPlugs, MaxSaves, MaxOpens  \* bounds: on the devices, the user and the inspector

Dirs == {"OUT", "IN"}
Names == UNION {UNION {{c[d][i] : i \in DOMAIN c[d]} : d \in Dirs} : c \in Configs}

\* Indices into the lists, and those the plugin lists none or a single port by.
Indices == {0, 1} \cup UNION {UNION {DOMAIN c[d] : d \in Dirs} : c \in Configs}

DefaultPortName == "Streamdeck MIDI"
PortNames == Typed \cup {DefaultPortName, Unset}
OptionNames == Names \cup {ErrorName, NoName}

\* What the inspector saves: the name of a port may be missing.
NameSettings == UNION {[given -> OptionNames] : given \in SUBSET Dirs}
Settings == [useVirtualPort : BOOLEAN, portName : PortNames,
             index : [Dirs -> Indices], name : NameSettings]
PluginSettings == [useVirtualPort : BOOLEAN, portName : PortNames,
                   index : [Dirs -> Indices], name : [Dirs -> OptionNames]]

DefaultSettings == [useVirtualPort |-> FALSE, portName |-> DefaultPortName,
                    index |-> [d \in Dirs |-> 0], name |-> [d \in Dirs |-> NoName]]

ASSUME PortsAssumption ==
    /\ Configs \subseteq [Dirs -> Seq(Names)]
    /\ Unsaved \notin Settings
    /\ NoName \notin Names /\ ErrorName \notin Names /\ ErrorName # NoName
    /\ NoChoice \notin OptionNames
    /\ MaxPlugs \in Nat /\ MaxSaves \in Nat /\ MaxOpens \in Nat

VARIABLES
    devices,          \* the names of the devices, in the order of the system's list
    saved,            \* the global settings the application keeps
    toPlugin, toInspector,  \* the application's messages to the two
    alive,            \* the plugin's process runs
    initialSetup,     \* it has asked for the global settings
    mGlobalSettings,  \* its copy of the global settings
    port,             \* what midiOut and midiIn are connected to
    form,             \* the inspector: the fields, and per direction the selector
    plugs, saves, opens   \* how often the devices, the user and the inspector acted

plugin == <<alive, initialSetup, mGlobalSettings, port>>
counts == <<plugs, saves, opens>>
vars == <<devices, saved, toPlugin, toInspector, plugin, form, counts>>

Ports == [kind : {"closed", "device", "virtual"}, name : Names \cup PortNames \cup {NoName}]
Closed == [kind |-> "closed", name |-> NoName]
Lists == UNION {[names -> Indices] : names \in SUBSET OptionNames}
Selectors == [list : Lists, chosen : OptionNames \cup {NoChoice}]

\* The settings go to both, the lists and the selected indices to the inspector.
SettingsMessages == [event : {"didReceiveGlobalSettings"}, settings : Settings \cup {Unsaved}]
ReplyMessages ==
    [event : {"midiPorts"}, dir : Dirs, list : Lists]
        \cup [event : {"midiPortSelected"}, dir : Dirs, index : Indices]
GetMidiPorts == [event |-> "getMidiPorts"]

\* An option that is chosen is in its list, whatever the plugin has sent.
TypeOK ==
    /\ devices \in Configs
    /\ saved \in Settings \cup {Unsaved}
    /\ toPlugin \in Seq(SettingsMessages \cup {GetMidiPorts})
    /\ toInspector \in Seq(SettingsMessages \cup ReplyMessages)
    /\ alive \in BOOLEAN /\ initialSetup \in BOOLEAN
    /\ mGlobalSettings \in PluginSettings
    /\ port \in [Dirs -> Ports]
    /\ form \in [shown : BOOLEAN, useVirtualPort : BOOLEAN, portName : PortNames,
                 selector : [Dirs -> Selectors]]
    /\ \A d \in Dirs : form.selector[d].chosen \in DOMAIN form.selector[d].list \cup {NoChoice}
    /\ plugs \in 0 .. MaxPlugs /\ saves \in 0 .. MaxSaves /\ opens \in 0 .. MaxOpens

EmptySelector == [list |-> [n \in {} |-> 0], chosen |-> NoChoice]
EmptyForm(shown) ==
    [shown |-> shown, useVirtualPort |-> FALSE, portName |-> DefaultPortName,
     selector |-> [d \in Dirs |-> EmptySelector]]

Init ==
    /\ devices \in Configs
    /\ saved = Unsaved
    /\ toPlugin = <<>> /\ toInspector = <<>>
    /\ alive = TRUE /\ initialSetup = FALSE
    /\ mGlobalSettings = DefaultSettings
    /\ port = [d \in Dirs |-> Closed]
    /\ form = EmptyForm(FALSE)
    /\ plugs = 0 /\ saves = 0 /\ opens = 0

-----------------------------------------------------------------------------
(* InitialiseMidi *)

\* get_port_name warns about an index beyond the list and returns "".
get_port_name(d, i) == IF i < Len(devices[d]) THEN devices[d][i + 1] ELSE NoName

\* Mutant: the index is taken as it was saved.
PortIndex_AsSaved(d, s) == s.index[d]

\* The index the settings s lead to: that of the last port with the name, or the
\* index that was given when the two fit or no port has the name.
PortIndex(d, s) ==
    LET named == {i \in 0 .. Len(devices[d]) - 1 : devices[d][i + 1] = s.name[d]}
    IN  IF s.name[d] = get_port_name(d, s.index[d]) \/ named = {} THEN s.index[d]
        ELSE CHOOSE last \in named : \A i \in named : i <= last

\* open_port throws for an index beyond the list, and the process exits.
OpenFails(d, s) ==
    ~s.useVirtualPort /\ devices[d] # <<>> /\ PortIndex(d, s) >= Len(devices[d])

\* Mutant: the port that is open is deleted only when there is another.
Initialised_KeepsOpen(d, s) ==
    IF s.useVirtualPort THEN [kind |-> "virtual", name |-> s.portName]
    ELSE IF devices[d] = <<>> THEN port[d]
    ELSE [kind |-> "device", name |-> get_port_name(d, PortIndex(d, s))]

\* InitialiseMidi deletes the port it has, makes a new one, and opens it unless
\* there is no device, which is the only failure it returns.
Initialised(d, s) ==
    IF s.useVirtualPort THEN [kind |-> "virtual", name |-> s.portName]
    ELSE IF devices[d] = <<>> THEN Closed
    ELSE [kind |-> "device", name |-> get_port_name(d, PortIndex(d, s))]

\* The index that is found by the name replaces the one in the settings.
Indexed(d, s) ==
    IF s.useVirtualPort \/ devices[d] = <<>> THEN s
    ELSE [s EXCEPT !.index[d] = PortIndex(d, s)]

-----------------------------------------------------------------------------
(* The plugin *)

ToPlugin(messages) == toPlugin' = IF alive THEN toPlugin \o messages ELSE toPlugin

\* The first button that appears makes the plugin ask for the global settings.
WillAppear ==
    /\ alive /\ ~initialSetup
    /\ initialSetup' = TRUE
    /\ ToPlugin(<<[event |-> "didReceiveGlobalSettings", settings |-> saved]>>)
    /\ UNCHANGED <<devices, saved, toInspector, alive, mGlobalSettings, port, form, counts>>

\* The plugin's copy with the settings that were received; a name that is missing
\* leaves the one it has.
Received(s) ==
    IF s = Unsaved THEN mGlobalSettings
    ELSE [s EXCEPT !.name = [d \in Dirs |->
              IF d \in DOMAIN s.name THEN s.name[d] ELSE mGlobalSettings.name[d]]]

\* Mutant: a new name for the virtual port alone is not taken as a change.
Changed_NotPortName(s) == s # [mGlobalSettings EXCEPT !.portName = s.portName]

\* midiSettingsChanged
Changed(s) == s # mGlobalSettings

\* The input is initialised first: when it is not opened the output is left as it
\* is; when either throws the process exits.
Rejected(s) ==
    \/ OpenFails("IN", s)
    \/ Initialised("IN", s) # Closed /\ OpenFails("OUT", s)

KeepsPorts(s) ==
    /\ ~Changed(s)
    /\ toPlugin' = Tail(toPlugin)
    /\ UNCHANGED plugin

OpensPorts(s) ==
    /\ Changed(s) /\ ~Rejected(s)
    /\ LET in == Initialised("IN", s)
       IN  IF in = Closed
           THEN mGlobalSettings' = s /\ port' = [port EXCEPT !["IN"] = Closed]
           ELSE /\ mGlobalSettings' = Indexed("OUT", Indexed("IN", s))
                /\ port' = [d \in Dirs |-> Initialised(d, s)]
    /\ toPlugin' = Tail(toPlugin)
    /\ UNCHANGED <<alive, initialSetup>>

\* The process is gone with all it knew.
Exits(s) ==
    /\ Changed(s) /\ Rejected(s)
    /\ alive' = FALSE /\ initialSetup' = FALSE
    /\ mGlobalSettings' = DefaultSettings
    /\ port' = [d \in Dirs |-> Closed]
    /\ toPlugin' = <<>>

\* Mutant: the settings that are received are not taken over before the comparison.
DidReceiveGlobalSettings_Drops(settings) ==
    /\ KeepsPorts(mGlobalSettings)
    /\ UNCHANGED <<devices, saved, toInspector, form, counts>>

DidReceiveGlobalSettings(settings) ==
    /\ LET s == Received(settings) IN KeepsPorts(s) \/ OpensPorts(s) \/ Exits(s)
    /\ UNCHANGED <<devices, saved, toInspector, form, counts>>

\* GetMidiPortList: a single port is listed by the empty name, with the index 1.
PortList(d) ==
    LET names == {devices[d][i] : i \in DOMAIN devices[d]}
    IN  CASE Len(devices[d]) = 0 -> [n \in {ErrorName} |-> 0]
          [] Len(devices[d]) = 1 -> [n \in {NoName} |-> 1]
          [] OTHER -> [n \in names |-> CHOOSE i \in 0 .. Len(devices[d]) - 1 :
                          /\ devices[d][i + 1] = n
                          /\ \A j \in 0 .. i - 1 : devices[d][j + 1] # n]

Reply(d) == <<[event |-> "midiPorts", dir |-> d, list |-> PortList(d)],
              [event |-> "midiPortSelected", dir |-> d, index |-> mGlobalSettings.index[d]]>>

SendToPlugin ==
    /\ toInspector' = toInspector \o Reply("OUT") \o Reply("IN")
    /\ toPlugin' = Tail(toPlugin)
    /\ UNCHANGED <<devices, saved, plugin, form, counts>>

OnMessage ==
    /\ alive /\ toPlugin # <<>>
    /\ LET message == Head(toPlugin)
       IN  \/ message.event = "didReceiveGlobalSettings" /\ DidReceiveGlobalSettings(message.settings)
           \/ message.event = "getMidiPorts" /\ SendToPlugin

-----------------------------------------------------------------------------
(* The property inspector *)

\* The user selects a button: its inspector starts with an empty form.
connected ==
    /\ opens < MaxOpens
    /\ opens' = opens + 1
    /\ form' = EmptyForm(TRUE)
    /\ toInspector' = <<[event |-> "didReceiveGlobalSettings", settings |-> saved]>>
    /\ UNCHANGED <<devices, saved, toPlugin, plugin, plugs, saves>>

\* Settings that have never been saved are an empty object: portName is undefined.
InspectorDidReceiveGlobalSettings(settings) ==
    LET virtual == settings # Unsaved /\ settings.useVirtualPort
    IN  /\ form' = [form EXCEPT !.useVirtualPort = virtual,
                       !.portName = IF settings = Unsaved THEN Unset ELSE settings.portName]
        /\ ToPlugin(IF virtual THEN <<>> ELSE <<GetMidiPorts>>)

\* Mutant: the option that was chosen stays so.
ReceivePorts_KeepsChoice(d, list) ==
    form' = [form EXCEPT !.selector[d].list = list] /\ UNCHANGED toPlugin

\* The options of a selector are replaced; the first is chosen, by the order of
\* the names.
ReceivePorts(d, list) ==
    /\ \E first \in DOMAIN list :
           form' = [form EXCEPT !.selector[d] = [list |-> list, chosen |-> first]]
    /\ UNCHANGED toPlugin

\* The option with the index is chosen, if there is one.
ReceiveSelected(d, index) ==
    LET list == form.selector[d].list
        with == {n \in DOMAIN list : list[n] = index}
    IN  /\ form' = [form EXCEPT !.selector[d].chosen =
                       IF with = {} THEN NoChoice ELSE CHOOSE n \in with : TRUE]
        /\ UNCHANGED toPlugin

receivedDataFromPlugin ==
    /\ toInspector # <<>>
    /\ LET message == Head(toInspector)
       IN  \/ /\ message.event = "didReceiveGlobalSettings"
              /\ InspectorDidReceiveGlobalSettings(message.settings)
           \/ message.event = "midiPorts" /\ ReceivePorts(message.dir, message.list)
           \/ message.event = "midiPortSelected" /\ ReceiveSelected(message.dir, message.index)
    /\ toInspector' = Tail(toInspector)
    /\ UNCHANGED <<devices, saved, plugin, counts>>

\* The settings of a form: reading the name of a selector without a choice throws,
\* and the names are read OUT first.
FormSettings(f) ==
    LET Chosen(d) == f.selector[d].chosen # NoChoice
        named == {d \in Dirs : Chosen("OUT") /\ (d = "OUT" \/ Chosen("IN"))}
    IN  [useVirtualPort |-> f.useVirtualPort, portName |-> f.portName,
         index |-> [d \in Dirs |->
             IF Chosen(d) THEN f.selector[d].list[f.selector[d].chosen] ELSE 0],
         name |-> [d \in named |-> f.selector[d].chosen]]

\* The application keeps the settings and passes them on.
saveGlobalSettings(f) ==
    /\ form.shown /\ saves < MaxSaves
    /\ saves' = saves + 1
    /\ form' = f
    /\ saved' = FormSettings(f)
    /\ ToPlugin(<<[event |-> "didReceiveGlobalSettings", settings |-> FormSettings(f)]>>
                    \o (IF f.useVirtualPort THEN <<>> ELSE <<GetMidiPorts>>))
    /\ UNCHANGED <<devices, toInspector, plugin, plugs, opens>>

ChangeDebug == saveGlobalSettings(form)
ChangeVirtual == saveGlobalSettings([form EXCEPT !.useVirtualPort = ~@])

TypePortName(n) ==
    form.useVirtualPort /\ saveGlobalSettings([form EXCEPT !.portName = n])

ChoosePort(d, n) ==
    /\ ~form.useVirtualPort
    /\ n \in DOMAIN form.selector[d].list /\ n # form.selector[d].chosen
    /\ saveGlobalSettings([form EXCEPT !.selector[d].chosen = n])

-----------------------------------------------------------------------------
(* The devices and the process *)

Plug ==
    /\ plugs < MaxPlugs
    /\ plugs' = plugs + 1
    /\ devices' \in Configs
    /\ UNCHANGED <<saved, toPlugin, toInspector, plugin, form, saves, opens>>

\* The application starts a plugin that has ended again.
Restart ==
    /\ ~alive
    /\ alive' = TRUE
    /\ UNCHANGED <<devices, saved, toPlugin, toInspector, initialSetup, mGlobalSettings,
                   port, form, counts>>

User ==
    \/ ChangeDebug \/ ChangeVirtual
    \/ \E n \in Typed : TypePortName(n)
    \/ \E d \in Dirs : \E n \in DOMAIN form.selector[d].list : ChoosePort(d, n)

Next ==
    \/ WillAppear \/ OnMessage \/ Restart
    \/ connected \/ receivedDataFromPlugin \/ User
    \/ Plug

Spec == Init /\ [][Next]_vars

\* The programs handle their messages, and the application restarts the plugin and
\* shows it its buttons; the user and the devices may do nothing.
FairSpec == Spec /\ WF_vars(OnMessage) /\ WF_vars(WillAppear) /\ WF_vars(Restart)

-----------------------------------------------------------------------------

\* Whatever was saved and received in whichever order, across exits and restarts:
\* when no settings are on their way the plugin works with the ones the user saved
\* last, but for an index it has corrected when it opened the port of that name.
PluginFollowsSaved ==
    alive /\ initialSetup /\ saved # Unsaved
        /\ (\A i \in DOMAIN toPlugin : toPlugin[i].event # "didReceiveGlobalSettings")
    => /\ mGlobalSettings.useVirtualPort = saved.useVirtualPort
       /\ mGlobalSettings.portName = saved.portName
       /\ \A d \in DOMAIN saved.name : mGlobalSettings.name[d] = saved.name[d]
       /\ \A d \in Dirs : mGlobalSettings.index[d] = saved.index[d]
              \/ port[d] = [kind |-> "device", name |-> mGlobalSettings.name[d]]

\* An input that is open is never paired with the output of other settings,
\* whichever of the two could not be opened before: both are devices, or both are
\* the virtual port of the same name, or the output is closed.
PortsBelongTogether ==
    port["IN"].kind # "closed" /\ port["OUT"].kind # "closed"
    => /\ port["IN"].kind = port["OUT"].kind
       /\ port["IN"].kind = "virtual" => port["IN"].name = port["OUT"].name

\* However the devices were renumbered since the port was saved, a port that is
\* opened is the one with the saved name, as long as there is one.
NamedPortOpens ==
    [][\A d \in Dirs :
        /\ port'[d] # port[d] /\ port'[d].kind = "device"
        /\ \E i \in DOMAIN devices[d] : devices[d][i] = mGlobalSettings'.name[d]
        => port'[d].name = mGlobalSettings'.name[d]]_vars

\* A virtual port the user asks for is opened in the end, unless he changes his
\* mind, even if settings before it made the plugin exit.
VirtualOpens ==
    \A n \in PortNames :
        LET Asked == saved # Unsaved /\ saved.useVirtualPort /\ saved.portName = n
        IN  Asked ~> (~Asked \/ port = [d \in Dirs |-> [kind |-> "virtual", name |-> n]])

-----------------------------------------------------------------------------
(* What a comment of the plugin says, and the code does not keep *)

\* InitialiseMidi: "selectedOutPortIndex is out of range - something has gone wrong",
\* followed by a return of false: an index from the plugin's own list of ports
\* does not end the process.
OutOfRangeReported == alive

=============================================================================
