------------------------- MODULE MidiThreads_proofs -------------------------
(***************************************************************************)
(* The mutexes do what they are there for, for any messages, any number of *)
(* settings and any interleaving: HandleMidiInput always finds the input   *)
(* port, and the messages that leave the plugin are whole.                 *)
(***************************************************************************)
EXTENDS MidiThreads, TLAPS

\* The thread that is between lock and unlock has the mutex, and no other.
UpdateMutexHeld ==
    /\ pc["socket"] \in {"delete", "new", "open", "unlock"} <=> midiUpdateMutex = "socket"
    /\ pc["core"] \in {"read", "unlock"} <=> midiUpdateMutex = "core"

MessageMutexHeld ==
    \A t \in Senders :
        pc[t] \in {"clear", "push", "load", "transmit", "unlockMessage"}
            <=> midiMessageMutex = t

\* A pointer dangles between the delete and the new only.
PortsExist ==
    /\ pc["socket"] # "new" => midi["IN"] \in exist["IN"]
    /\ pc["socket"] # "newOut" => midi["OUT"] \in exist["OUT"]

\* How far thread t is with its message in the vector.
PutTogether(t) ==
    /\ pc[t] \in Composing => message[t] \in Messages
    /\ pc[t] = "push" =>
           /\ pushed[t] < Len(message[t])
           /\ Len(midiMessage) = pushed[t]
           /\ \A i \in 1 .. pushed[t] : midiMessage[i] = message[t][i]
    /\ pc[t] \in {"load", "transmit"} => midiMessage = message[t]

AllPutTogether == \A t \in Senders : PutTogether(t)

ThreadsInv ==
    TypeOK /\ UpdateMutexHeld /\ MessageMutexHeld /\ PortsExist /\ AllPutTogether

-----------------------------------------------------------------------------

\* An element of a sequence.
LEMMA ElementTyped ==
    ASSUME NEW S, NEW s \in Seq(S), NEW i \in 1 .. Len(s) PROVE s[i] \in S
OBVIOUS

\* The constructor leaves both mutexes free, and an input port.
LEMMA InitInv == Init => ThreadsInv
<1> SUFFICES ASSUME Init PROVE ThreadsInv
    OBVIOUS
<1>1. TypeOK
  <2>1. pc \in [Threads -> Labels]
      BY SMT DEF Init, Labels
  <2>2. crashed \in BOOLEAN /\ waits \in BOOLEAN
      BY ThreadsAssumption, Zenon DEF Init
  <2>3. PortsTyped
      BY ThreadsAssumption, SMT DEF Init, PortsTyped, Dirs, Ports
  <2>4. SendingTyped
      BY ThreadsAssumption, SMT DEF Init, SendingTyped, Senders, Ports
  <2>5. CountsTyped
      BY ThreadsAssumption, SMT DEF Init, CountsTyped, Senders, Ports
  <2> QED
      BY <2>1, <2>2, <2>3, <2>4, <2>5 DEF TypeOK
<1>2. UpdateMutexHeld /\ MessageMutexHeld /\ PortsExist /\ AllPutTogether
    BY SMT DEF Init, UpdateMutexHeld, MessageMutexHeld, PortsExist, AllPutTogether,
       PutTogether, Dirs, Threads, Senders, Labels, Composing, SocketLabels, CoreLabels
<1> QED
    BY <1>1, <1>2 DEF ThreadsInv

\* The step DidReceiveGlobalSettings keeps the invariant.
LEMMA DidReceiveGlobalSettingsKeeps == ASSUME ThreadsInv, DidReceiveGlobalSettings PROVE ThreadsInv'
<1>1. TypeOK'
  <2>1. (pc \in [Threads -> Labels])'
      BY SMT DEF DidReceiveGlobalSettings, Goto, ports, sending, receiving, ThreadsInv,
         TypeOK, Threads, Senders, Labels, Composing, SocketLabels, CoreLabels
  <2>2. (crashed \in BOOLEAN)' /\ (waits \in BOOLEAN)'
      BY Zenon DEF DidReceiveGlobalSettings, Goto, ports, sending, receiving,
         ThreadsInv, TypeOK
  <2>3. PortsTyped'
      BY ThreadsAssumption, SMT DEF DidReceiveGlobalSettings, Goto, ports, sending,
         receiving, ThreadsInv, TypeOK, PortsTyped, CountsTyped, PortsExist, Dirs, Ports
  <2>4. SendingTyped'
      BY ThreadsAssumption, SMT DEF DidReceiveGlobalSettings, Goto, ports, sending,
         receiving, ThreadsInv, TypeOK, SendingTyped, PortsTyped, AllPutTogether,
         PutTogether, Composing, Senders, Dirs, Ports
  <2>5. CountsTyped'
      BY ThreadsAssumption, SMT DEF DidReceiveGlobalSettings, Goto, ports, sending,
         receiving, ThreadsInv, TypeOK, CountsTyped, PortsTyped, Dirs, Senders, Ports
  <2> QED
      BY <2>1, <2>2, <2>3, <2>4, <2>5 DEF TypeOK
<1>2. UpdateMutexHeld' /\ MessageMutexHeld'
    BY SMT DEF DidReceiveGlobalSettings, Goto, ports, sending, receiving, ThreadsInv,
       TypeOK, CountsTyped, SendingTyped, UpdateMutexHeld, MessageMutexHeld, Threads,
       Senders, Labels, Composing, SocketLabels, CoreLabels
<1>3. PortsExist'
    BY SMT DEF DidReceiveGlobalSettings, Goto, ports, sending, receiving, ThreadsInv,
       TypeOK, PortsTyped, CountsTyped, PortsExist, Dirs, Ports, Threads, Senders,
       Labels, Composing, SocketLabels, CoreLabels
<1>4. AllPutTogether'
    BY ThreadsAssumption, SMT DEF DidReceiveGlobalSettings, Goto, ports, sending,
       receiving, ThreadsInv, TypeOK, SendingTyped, MessageMutexHeld, AllPutTogether,
       PutTogether, Threads, Senders, Labels, Composing, SocketLabels, CoreLabels
<1> QED
    BY <1>1, <1>2, <1>3, <1>4 DEF ThreadsInv

\* The step LockUpdate keeps the invariant.
LEMMA LockUpdateKeeps == ASSUME ThreadsInv, LockUpdate PROVE ThreadsInv'
<1>1. TypeOK'
  <2>1. (pc \in [Threads -> Labels])'
      BY SMT DEF LockUpdate, Goto, ports, sending, receiving, ThreadsInv, TypeOK,
         Threads, Senders, Labels, Composing, SocketLabels, CoreLabels
  <2>2. (crashed \in BOOLEAN)' /\ (waits \in BOOLEAN)'
      BY Zenon DEF LockUpdate, Goto, ports, sending, receiving, ThreadsInv, TypeOK
  <2>3. PortsTyped'
      BY ThreadsAssumption, SMT DEF LockUpdate, Goto, ports, sending, receiving,
         ThreadsInv, TypeOK, PortsTyped, CountsTyped, PortsExist, Dirs, Ports
  <2>4. SendingTyped'
      BY ThreadsAssumption, SMT DEF LockUpdate, Goto, ports, sending, receiving,
         ThreadsInv, TypeOK, SendingTyped, PortsTyped, Senders, Dirs, Ports
  <2>5. CountsTyped'
      BY ThreadsAssumption, SMT DEF LockUpdate, Goto, ports, sending, receiving,
         ThreadsInv, TypeOK, CountsTyped, PortsTyped, Dirs, Senders, Ports
  <2> QED
      BY <2>1, <2>2, <2>3, <2>4, <2>5 DEF TypeOK
<1>2. UpdateMutexHeld' /\ MessageMutexHeld'
    BY SMT DEF LockUpdate, Goto, ports, sending, receiving, ThreadsInv, TypeOK,
       CountsTyped, SendingTyped, UpdateMutexHeld, MessageMutexHeld, Threads, Senders,
       Labels, Composing, SocketLabels, CoreLabels
<1>3. PortsExist'
    BY SMT DEF LockUpdate, Goto, ports, sending, receiving, ThreadsInv, TypeOK,
       PortsTyped, CountsTyped, PortsExist, Dirs, Ports, Threads, Senders, Labels,
       Composing, SocketLabels, CoreLabels
<1>4. AllPutTogether'
    BY ThreadsAssumption, SMT DEF LockUpdate, Goto, ports, sending, receiving,
       ThreadsInv, TypeOK, SendingTyped, MessageMutexHeld, AllPutTogether, PutTogether,
       Threads, Senders, Labels, Composing, SocketLabels, CoreLabels
<1> QED
    BY <1>1, <1>2, <1>3, <1>4 DEF ThreadsInv

\* The step DeleteIn keeps the invariant.
LEMMA DeleteInKeeps == ASSUME ThreadsInv, DeleteIn PROVE ThreadsInv'
<1>1. TypeOK'
  <2>1. (pc \in [Threads -> Labels])'
      BY SMT DEF DeleteIn, Deleted, Goto, ports, sending, receiving, ThreadsInv, TypeOK,
         Threads, Senders, Labels, Composing, SocketLabels, CoreLabels
  <2>2. (crashed \in BOOLEAN)' /\ (waits \in BOOLEAN)'
      BY Zenon DEF DeleteIn, Deleted, Goto, ports, sending, receiving, ThreadsInv,
         TypeOK
  <2>3. PortsTyped'
      BY ThreadsAssumption, SMT DEF DeleteIn, Deleted, Goto, ports, sending, receiving,
         ThreadsInv, TypeOK, PortsTyped, CountsTyped, PortsExist, Dirs, Ports
  <2>4. SendingTyped'
      BY ThreadsAssumption, SMT DEF DeleteIn, Deleted, Goto, ports, sending, receiving,
         ThreadsInv, TypeOK, SendingTyped, PortsTyped, AllPutTogether, PutTogether,
         Composing, Senders, Dirs, Ports
  <2>5. CountsTyped'
      BY ThreadsAssumption, SMT DEF DeleteIn, Deleted, Goto, ports, sending, receiving,
         ThreadsInv, TypeOK, CountsTyped, PortsTyped, Dirs, Senders, Ports
  <2> QED
      BY <2>1, <2>2, <2>3, <2>4, <2>5 DEF TypeOK
<1>2. UpdateMutexHeld' /\ MessageMutexHeld'
    BY SMT DEF DeleteIn, Deleted, Goto, ports, sending, receiving, ThreadsInv, TypeOK,
       CountsTyped, SendingTyped, UpdateMutexHeld, MessageMutexHeld, Threads, Senders,
       Labels, Composing, SocketLabels, CoreLabels
<1>3. PortsExist'
    BY SMT DEF DeleteIn, Deleted, Goto, ports, sending, receiving, ThreadsInv, TypeOK,
       PortsTyped, CountsTyped, PortsExist, Dirs, Ports, Threads, Senders, Labels,
       Composing, SocketLabels, CoreLabels
<1>4. AllPutTogether'
    BY ThreadsAssumption, SMT DEF DeleteIn, Deleted, Goto, ports, sending, receiving,
       ThreadsInv, TypeOK, SendingTyped, MessageMutexHeld, AllPutTogether, PutTogether,
       Threads, Senders, Labels, Composing, SocketLabels, CoreLabels
<1> QED
    BY <1>1, <1>2, <1>3, <1>4 DEF ThreadsInv

\* The step NewIn keeps the invariant.
LEMMA NewInKeeps == ASSUME ThreadsInv, NewIn PROVE ThreadsInv'
<1>1. TypeOK'
  <2>1. (pc \in [Threads -> Labels])'
      BY SMT DEF NewIn, New, Goto, ports, sending, receiving, ThreadsInv, TypeOK,
         Threads, Senders, Labels, Composing, SocketLabels, CoreLabels
  <2>2. (crashed \in BOOLEAN)' /\ (waits \in BOOLEAN)'
      BY Zenon DEF NewIn, New, Goto, ports, sending, receiving, ThreadsInv, TypeOK
  <2>3. PortsTyped'
      BY ThreadsAssumption, SMT DEF NewIn, New, Goto, ports, sending, receiving,
         ThreadsInv, TypeOK, PortsTyped, CountsTyped, PortsExist, Dirs, Ports
  <2>4. SendingTyped'
      BY ThreadsAssumption, SMT DEF NewIn, New, Goto, ports, sending, receiving,
         ThreadsInv, TypeOK, SendingTyped, PortsTyped, AllPutTogether, PutTogether,
         Composing, Senders, Dirs, Ports
  <2>5. CountsTyped'
      BY ThreadsAssumption, SMT DEF NewIn, New, Goto, ports, sending, receiving,
         ThreadsInv, TypeOK, CountsTyped, PortsTyped, Dirs, Senders, Ports
  <2> QED
      BY <2>1, <2>2, <2>3, <2>4, <2>5 DEF TypeOK
<1>2. UpdateMutexHeld' /\ MessageMutexHeld'
    BY SMT DEF NewIn, New, Goto, ports, sending, receiving, ThreadsInv, TypeOK,
       CountsTyped, SendingTyped, UpdateMutexHeld, MessageMutexHeld, Threads, Senders,
       Labels, Composing, SocketLabels, CoreLabels
<1>3. PortsExist'
    BY SMT DEF NewIn, New, Goto, ports, sending, receiving, ThreadsInv, TypeOK,
       PortsTyped, CountsTyped, PortsExist, Dirs, Ports, Threads, Senders, Labels,
       Composing, SocketLabels, CoreLabels
<1>4. AllPutTogether'
    BY ThreadsAssumption, SMT DEF NewIn, New, Goto, ports, sending, receiving,
       ThreadsInv, TypeOK, SendingTyped, MessageMutexHeld, AllPutTogether, PutTogether,
       Threads, Senders, Labels, Composing, SocketLabels, CoreLabels
<1> QED
    BY <1>1, <1>2, <1>3, <1>4 DEF ThreadsInv

\* The step OpenIn keeps the invariant.
LEMMA OpenInKeeps == ASSUME ThreadsInv, OpenIn PROVE ThreadsInv'
<1>1. TypeOK'
  <2>1. (pc \in [Threads -> Labels])'
      BY SMT DEF OpenIn, Opened, Goto, ports, sending, receiving, ThreadsInv, TypeOK,
         Threads, Senders, Labels, Composing, SocketLabels, CoreLabels
  <2>2. (crashed \in BOOLEAN)' /\ (waits \in BOOLEAN)'
      BY Zenon DEF OpenIn, Opened, Goto, ports, sending, receiving, ThreadsInv, TypeOK
  <2>3. PortsTyped'
      BY ThreadsAssumption, SMT DEF OpenIn, Opened, Goto, ports, sending, receiving,
         ThreadsInv, TypeOK, PortsTyped, CountsTyped, PortsExist, Dirs, Ports
  <2>4. SendingTyped'
      BY ThreadsAssumption, SMT DEF OpenIn, Opened, Goto, ports, sending, receiving,
         ThreadsInv, TypeOK, SendingTyped, PortsTyped, Senders, Dirs, Ports
  <2>5. CountsTyped'
      BY ThreadsAssumption, SMT DEF OpenIn, Opened, Goto, ports, sending, receiving,
         ThreadsInv, TypeOK, CountsTyped, PortsTyped, Dirs, Senders, Ports
  <2> QED
      BY <2>1, <2>2, <2>3, <2>4, <2>5 DEF TypeOK
<1>2. UpdateMutexHeld' /\ MessageMutexHeld'
    BY SMT DEF OpenIn, Opened, Goto, ports, sending, receiving, ThreadsInv, TypeOK,
       CountsTyped, SendingTyped, UpdateMutexHeld, MessageMutexHeld, Threads, Senders,
       Labels, Composing, SocketLabels, CoreLabels
<1>3. PortsExist'
    BY SMT DEF OpenIn, Opened, Goto, ports, sending, receiving, ThreadsInv, TypeOK,
       PortsTyped, CountsTyped, PortsExist, Dirs, Ports, Threads, Senders, Labels,
       Composing, SocketLabels, CoreLabels
<1>4. AllPutTogether'
    BY ThreadsAssumption, SMT DEF OpenIn, Opened, Goto, ports, sending, receiving,
       ThreadsInv, TypeOK, SendingTyped, MessageMutexHeld, AllPutTogether, PutTogether,
       Threads, Senders, Labels, Composing, SocketLabels, CoreLabels
<1> QED
    BY <1>1, <1>2, <1>3, <1>4 DEF ThreadsInv

\* The step UnlockUpdate keeps the invariant.
LEMMA UnlockUpdateKeeps == ASSUME ThreadsInv, UnlockUpdate PROVE ThreadsInv'
<1>1. TypeOK'
  <2>1. (pc \in [Threads -> Labels])'
      BY SMT DEF UnlockUpdate, Goto, ports, sending, receiving, ThreadsInv, TypeOK,
         Threads, Senders, Labels, Composing, SocketLabels, CoreLabels
  <2>2. (crashed \in BOOLEAN)' /\ (waits \in BOOLEAN)'
      BY Zenon DEF UnlockUpdate, Goto, ports, sending, receiving, ThreadsInv, TypeOK
  <2>3. PortsTyped'
      BY ThreadsAssumption, SMT DEF UnlockUpdate, Goto, ports, sending, receiving,
         ThreadsInv, TypeOK, PortsTyped, CountsTyped, PortsExist, Dirs, Ports
  <2>4. SendingTyped'
      BY ThreadsAssumption, SMT DEF UnlockUpdate, Goto, ports, sending, receiving,
         ThreadsInv, TypeOK, SendingTyped, PortsTyped, Senders, Dirs, Ports
  <2>5. CountsTyped'
      BY ThreadsAssumption, SMT DEF UnlockUpdate, Goto, ports, sending, receiving,
         ThreadsInv, TypeOK, CountsTyped, PortsTyped, Dirs, Senders, Ports
  <2> QED
      BY <2>1, <2>2, <2>3, <2>4, <2>5 DEF TypeOK
<1>2. UpdateMutexHeld' /\ MessageMutexHeld'
    BY SMT DEF UnlockUpdate, Goto, ports, sending, receiving, ThreadsInv, TypeOK,
       CountsTyped, SendingTyped, UpdateMutexHeld, MessageMutexHeld, Threads, Senders,
       Labels, Composing, SocketLabels, CoreLabels
<1>3. PortsExist'
    BY SMT DEF UnlockUpdate, Goto, ports, sending, receiving, ThreadsInv, TypeOK,
       PortsTyped, CountsTyped, PortsExist, Dirs, Ports, Threads, Senders, Labels,
       Composing, SocketLabels, CoreLabels
<1>4. AllPutTogether'
    BY ThreadsAssumption, SMT DEF UnlockUpdate, Goto, ports, sending, receiving,
       ThreadsInv, TypeOK, SendingTyped, MessageMutexHeld, AllPutTogether, PutTogether,
       Threads, Senders, Labels, Composing, SocketLabels, CoreLabels
<1> QED
    BY <1>1, <1>2, <1>3, <1>4 DEF ThreadsInv

\* The step DeleteOut keeps the invariant.
LEMMA DeleteOutKeeps == ASSUME ThreadsInv, DeleteOut PROVE ThreadsInv'
<1>1. TypeOK'
  <2>1. (pc \in [Threads -> Labels])'
      BY SMT DEF DeleteOut, Deleted, Goto, ports, sending, receiving, ThreadsInv,
         TypeOK, Threads, Senders, Labels, Composing, SocketLabels, CoreLabels
  <2>2. (crashed \in BOOLEAN)' /\ (waits \in BOOLEAN)'
      BY Zenon DEF DeleteOut, Deleted, Goto, ports, sending, receiving, ThreadsInv,
         TypeOK
  <2>3. PortsTyped'
      BY ThreadsAssumption, SMT DEF DeleteOut, Deleted, Goto, ports, sending, receiving,
         ThreadsInv, TypeOK, PortsTyped, CountsTyped, PortsExist, Dirs, Ports
  <2>4. SendingTyped'
      BY ThreadsAssumption, SMT DEF DeleteOut, Deleted, Goto, ports, sending, receiving,
         ThreadsInv, TypeOK, SendingTyped, PortsTyped, AllPutTogether, PutTogether,
         Composing, Senders, Dirs, Ports
  <2>5. CountsTyped'
      BY ThreadsAssumption, SMT DEF DeleteOut, Deleted, Goto, ports, sending, receiving,
         ThreadsInv, TypeOK, CountsTyped, PortsTyped, Dirs, Senders, Ports
  <2> QED
      BY <2>1, <2>2, <2>3, <2>4, <2>5 DEF TypeOK
<1>2. UpdateMutexHeld' /\ MessageMutexHeld'
    BY SMT DEF DeleteOut, Deleted, Goto, ports, sending, receiving, ThreadsInv, TypeOK,
       CountsTyped, SendingTyped, UpdateMutexHeld, MessageMutexHeld, Threads, Senders,
       Labels, Composing, SocketLabels, CoreLabels
<1>3. PortsExist'
    BY SMT DEF DeleteOut, Deleted, Goto, ports, sending, receiving, ThreadsInv, TypeOK,
       PortsTyped, CountsTyped, PortsExist, Dirs, Ports, Threads, Senders, Labels,
       Composing, SocketLabels, CoreLabels
<1>4. AllPutTogether'
    BY ThreadsAssumption, SMT DEF DeleteOut, Deleted, Goto, ports, sending, receiving,
       ThreadsInv, TypeOK, SendingTyped, MessageMutexHeld, AllPutTogether, PutTogether,
       Threads, Senders, Labels, Composing, SocketLabels, CoreLabels
<1> QED
    BY <1>1, <1>2, <1>3, <1>4 DEF ThreadsInv

\* The step NewOut keeps the invariant.
LEMMA NewOutKeeps == ASSUME ThreadsInv, NewOut PROVE ThreadsInv'
<1>1. TypeOK'
  <2>1. (pc \in [Threads -> Labels])'
      BY SMT DEF NewOut, New, Goto, ports, sending, receiving, ThreadsInv, TypeOK,
         Threads, Senders, Labels, Composing, SocketLabels, CoreLabels
  <2>2. (crashed \in BOOLEAN)' /\ (waits \in BOOLEAN)'
      BY Zenon DEF NewOut, New, Goto, ports, sending, receiving, ThreadsInv, TypeOK
  <2>3. PortsTyped'
      BY ThreadsAssumption, SMT DEF NewOut, New, Goto, ports, sending, receiving,
         ThreadsInv, TypeOK, PortsTyped, CountsTyped, PortsExist, Dirs, Ports
  <2>4. SendingTyped'
      BY ThreadsAssumption, SMT DEF NewOut, New, Goto, ports, sending, receiving,
         ThreadsInv, TypeOK, SendingTyped, PortsTyped, AllPutTogether, PutTogether,
         Composing, Senders, Dirs, Ports
  <2>5. CountsTyped'
      BY ThreadsAssumption, SMT DEF NewOut, New, Goto, ports, sending, receiving,
         ThreadsInv, TypeOK, CountsTyped, PortsTyped, Dirs, Senders, Ports
  <2> QED
      BY <2>1, <2>2, <2>3, <2>4, <2>5 DEF TypeOK
<1>2. UpdateMutexHeld' /\ MessageMutexHeld'
    BY SMT DEF NewOut, New, Goto, ports, sending, receiving, ThreadsInv, TypeOK,
       CountsTyped, SendingTyped, UpdateMutexHeld, MessageMutexHeld, Threads, Senders,
       Labels, Composing, SocketLabels, CoreLabels
<1>3. PortsExist'
    BY SMT DEF NewOut, New, Goto, ports, sending, receiving, ThreadsInv, TypeOK,
       PortsTyped, CountsTyped, PortsExist, Dirs, Ports, Threads, Senders, Labels,
       Composing, SocketLabels, CoreLabels
<1>4. AllPutTogether'
    BY ThreadsAssumption, SMT DEF NewOut, New, Goto, ports, sending, receiving,
       ThreadsInv, TypeOK, SendingTyped, MessageMutexHeld, AllPutTogether, PutTogether,
       Threads, Senders, Labels, Composing, SocketLabels, CoreLabels
<1> QED
    BY <1>1, <1>2, <1>3, <1>4 DEF ThreadsInv

\* The step OpenOut keeps the invariant.
LEMMA OpenOutKeeps == ASSUME ThreadsInv, OpenOut PROVE ThreadsInv'
<1>1. TypeOK'
  <2>1. (pc \in [Threads -> Labels])'
      BY SMT DEF OpenOut, Opened, Goto, ports, sending, receiving, ThreadsInv, TypeOK,
         Threads, Senders, Labels, Composing, SocketLabels, CoreLabels
  <2>2. (crashed \in BOOLEAN)' /\ (waits \in BOOLEAN)'
      BY Zenon DEF OpenOut, Opened, Goto, ports, sending, receiving, ThreadsInv, TypeOK
  <2>3. PortsTyped'
      BY ThreadsAssumption, SMT DEF OpenOut, Opened, Goto, ports, sending, receiving,
         ThreadsInv, TypeOK, PortsTyped, CountsTyped, PortsExist, Dirs, Ports
  <2>4. SendingTyped'
      BY ThreadsAssumption, SMT DEF OpenOut, Opened, Goto, ports, sending, receiving,
         ThreadsInv, TypeOK, SendingTyped, PortsTyped, AllPutTogether, PutTogether,
         Composing, Senders, Dirs, Ports
  <2>5. CountsTyped'
      BY ThreadsAssumption, SMT DEF OpenOut, Opened, Goto, ports, sending, receiving,
         ThreadsInv, TypeOK, CountsTyped, PortsTyped, Dirs, Senders, Ports
  <2> QED
      BY <2>1, <2>2, <2>3, <2>4, <2>5 DEF TypeOK
<1>2. UpdateMutexHeld' /\ MessageMutexHeld'
    BY SMT DEF OpenOut, Opened, Goto, ports, sending, receiving, ThreadsInv, TypeOK,
       CountsTyped, SendingTyped, UpdateMutexHeld, MessageMutexHeld, Threads, Senders,
       Labels, Composing, SocketLabels, CoreLabels
<1>3. PortsExist'
    BY SMT DEF OpenOut, Opened, Goto, ports, sending, receiving, ThreadsInv, TypeOK,
       PortsTyped, CountsTyped, PortsExist, Dirs, Ports, Threads, Senders, Labels,
       Composing, SocketLabels, CoreLabels
<1>4. AllPutTogether'
    BY ThreadsAssumption, SMT DEF OpenOut, Opened, Goto, ports, sending, receiving,
       ThreadsInv, TypeOK, SendingTyped, MessageMutexHeld, AllPutTogether, PutTogether,
       Threads, Senders, Labels, Composing, SocketLabels, CoreLabels
<1> QED
    BY <1>1, <1>2, <1>3, <1>4 DEF ThreadsInv

\* The step Receive keeps the invariant.
LEMMA ReceiveKeeps == ASSUME ThreadsInv, Receive PROVE ThreadsInv'
<1>1. TypeOK'
  <2>1. (pc \in [Threads -> Labels])'
      BY SMT DEF Receive, Goto, ports, sending, receiving, ThreadsInv, TypeOK, Threads,
         Senders, Labels, Composing, SocketLabels, CoreLabels
  <2>2. (crashed \in BOOLEAN)' /\ (waits \in BOOLEAN)'
      BY Zenon DEF Receive, Goto, ports, sending, receiving, ThreadsInv, TypeOK
  <2>3. PortsTyped'
      BY ThreadsAssumption, SMT DEF Receive, Goto, ports, sending, receiving,
         ThreadsInv, TypeOK, PortsTyped, CountsTyped, PortsExist, Dirs, Ports
  <2>4. SendingTyped'
      BY ThreadsAssumption, SMT DEF Receive, Goto, ports, sending, receiving,
         ThreadsInv, TypeOK, SendingTyped, PortsTyped, Senders, Dirs, Ports
  <2>5. CountsTyped'
      BY ThreadsAssumption, SMT DEF Receive, Goto, ports, sending, receiving,
         ThreadsInv, TypeOK, CountsTyped, PortsTyped, Dirs, Senders, Ports
  <2> QED
      BY <2>1, <2>2, <2>3, <2>4, <2>5 DEF TypeOK
<1>2. UpdateMutexHeld' /\ MessageMutexHeld'
    BY SMT DEF Receive, Goto, ports, sending, receiving, ThreadsInv, TypeOK,
       CountsTyped, SendingTyped, UpdateMutexHeld, MessageMutexHeld, Threads, Senders,
       Labels, Composing, SocketLabels, CoreLabels
<1>3. PortsExist'
    BY SMT DEF Receive, Goto, ports, sending, receiving, ThreadsInv, TypeOK, PortsTyped,
       CountsTyped, PortsExist, Dirs, Ports, Threads, Senders, Labels, Composing,
       SocketLabels, CoreLabels
<1>4. AllPutTogether'
    BY ThreadsAssumption, SMT DEF Receive, Goto, ports, sending, receiving, ThreadsInv,
       TypeOK, SendingTyped, MessageMutexHeld, AllPutTogether, PutTogether, Threads,
       Senders, Labels, Composing, SocketLabels, CoreLabels
<1> QED
    BY <1>1, <1>2, <1>3, <1>4 DEF ThreadsInv

\* The step CallHandler keeps the invariant.
LEMMA CallHandlerKeeps == ASSUME ThreadsInv, CallHandler PROVE ThreadsInv'
<1>1. TypeOK'
  <2>1. (pc \in [Threads -> Labels])'
      BY SMT DEF CallHandler, Use, Goto, ports, sending, receiving, ThreadsInv, TypeOK,
         Threads, Senders, Labels, Composing, SocketLabels, CoreLabels
  <2>2. (crashed \in BOOLEAN)' /\ (waits \in BOOLEAN)'
      BY Zenon DEF CallHandler, Use, Goto, ports, sending, receiving, ThreadsInv, TypeOK
  <2>3. PortsTyped'
      BY ThreadsAssumption, SMT DEF CallHandler, Use, Goto, ports, sending, receiving,
         ThreadsInv, TypeOK, PortsTyped, CountsTyped, PortsExist, Dirs, Ports
  <2>4. SendingTyped'
      BY ThreadsAssumption, SMT DEF CallHandler, Use, Goto, ports, sending, receiving,
         ThreadsInv, TypeOK, SendingTyped, PortsTyped, AllPutTogether, PutTogether,
         Composing, Senders, Dirs, Ports
  <2>5. CountsTyped'
      BY ThreadsAssumption, SMT DEF CallHandler, Use, Goto, ports, sending, receiving,
         ThreadsInv, TypeOK, CountsTyped, PortsTyped, Dirs, Senders, Ports
  <2> QED
      BY <2>1, <2>2, <2>3, <2>4, <2>5 DEF TypeOK
<1>2. UpdateMutexHeld' /\ MessageMutexHeld'
    BY SMT DEF CallHandler, Use, Goto, ports, sending, receiving, ThreadsInv, TypeOK,
       CountsTyped, SendingTyped, UpdateMutexHeld, MessageMutexHeld, Threads, Senders,
       Labels, Composing, SocketLabels, CoreLabels
<1>3. PortsExist'
    BY SMT DEF CallHandler, Use, Goto, ports, sending, receiving, ThreadsInv, TypeOK,
       PortsTyped, CountsTyped, PortsExist, Dirs, Ports, Threads, Senders, Labels,
       Composing, SocketLabels, CoreLabels
<1>4. AllPutTogether'
    BY ThreadsAssumption, SMT DEF CallHandler, Use, Goto, ports, sending, receiving,
       ThreadsInv, TypeOK, SendingTyped, MessageMutexHeld, AllPutTogether, PutTogether,
       Threads, Senders, Labels, Composing, SocketLabels, CoreLabels
<1> QED
    BY <1>1, <1>2, <1>3, <1>4 DEF ThreadsInv

\* The step HandleLock keeps the invariant.
LEMMA HandleLockKeeps == ASSUME ThreadsInv, HandleLock PROVE ThreadsInv'
<1>1. TypeOK'
  <2>1. (pc \in [Threads -> Labels])'
      BY SMT DEF HandleLock, Goto, ports, sending, receiving, ThreadsInv, TypeOK,
         Threads, Senders, Labels, Composing, SocketLabels, CoreLabels
  <2>2. (crashed \in BOOLEAN)' /\ (waits \in BOOLEAN)'
      BY Zenon DEF HandleLock, Goto, ports, sending, receiving, ThreadsInv, TypeOK
  <2>3. PortsTyped'
      BY ThreadsAssumption, SMT DEF HandleLock, Goto, ports, sending, receiving,
         ThreadsInv, TypeOK, PortsTyped, CountsTyped, PortsExist, Dirs, Ports
  <2>4. SendingTyped'
      BY ThreadsAssumption, SMT DEF HandleLock, Goto, ports, sending, receiving,
         ThreadsInv, TypeOK, SendingTyped, PortsTyped, Senders, Dirs, Ports
  <2>5. CountsTyped'
      BY ThreadsAssumption, SMT DEF HandleLock, Goto, ports, sending, receiving,
         ThreadsInv, TypeOK, CountsTyped, PortsTyped, Dirs, Senders, Ports
  <2> QED
      BY <2>1, <2>2, <2>3, <2>4, <2>5 DEF TypeOK
<1>2. UpdateMutexHeld' /\ MessageMutexHeld'
    BY SMT DEF HandleLock, Goto, ports, sending, receiving, ThreadsInv, TypeOK,
       CountsTyped, SendingTyped, UpdateMutexHeld, MessageMutexHeld, Threads, Senders,
       Labels, Composing, SocketLabels, CoreLabels
<1>3. PortsExist'
    BY SMT DEF HandleLock, Goto, ports, sending, receiving, ThreadsInv, TypeOK,
       PortsTyped, CountsTyped, PortsExist, Dirs, Ports, Threads, Senders, Labels,
       Composing, SocketLabels, CoreLabels
<1>4. AllPutTogether'
    BY ThreadsAssumption, SMT DEF HandleLock, Goto, ports, sending, receiving,
       ThreadsInv, TypeOK, SendingTyped, MessageMutexHeld, AllPutTogether, PutTogether,
       Threads, Senders, Labels, Composing, SocketLabels, CoreLabels
<1> QED
    BY <1>1, <1>2, <1>3, <1>4 DEF ThreadsInv

\* The step HandleRead keeps the invariant.
LEMMA HandleReadKeeps == ASSUME ThreadsInv, HandleRead PROVE ThreadsInv'
<1>1. TypeOK'
  <2>1. (pc \in [Threads -> Labels])'
      BY SMT DEF HandleRead, Use, Goto, ports, sending, receiving, ThreadsInv, TypeOK,
         Threads, Senders, Labels, Composing, SocketLabels, CoreLabels
  <2>2. (crashed \in BOOLEAN)' /\ (waits \in BOOLEAN)'
      BY Zenon DEF HandleRead, Use, Goto, ports, sending, receiving, ThreadsInv, TypeOK
  <2>3. PortsTyped'
      BY ThreadsAssumption, SMT DEF HandleRead, Use, Goto, ports, sending, receiving,
         ThreadsInv, TypeOK, PortsTyped, CountsTyped, PortsExist, Dirs, Ports
  <2>4. SendingTyped'
      BY ThreadsAssumption, SMT DEF HandleRead, Use, Goto, ports, sending, receiving,
         ThreadsInv, TypeOK, SendingTyped, PortsTyped, AllPutTogether, PutTogether,
         Composing, Senders, Dirs, Ports
  <2>5. CountsTyped'
      BY ThreadsAssumption, SMT DEF HandleRead, Use, Goto, ports, sending, receiving,
         ThreadsInv, TypeOK, CountsTyped, PortsTyped, Dirs, Senders, Ports
  <2> QED
      BY <2>1, <2>2, <2>3, <2>4, <2>5 DEF TypeOK
<1>2. UpdateMutexHeld' /\ MessageMutexHeld'
    BY SMT DEF HandleRead, Use, Goto, ports, sending, receiving, ThreadsInv, TypeOK,
       CountsTyped, SendingTyped, UpdateMutexHeld, MessageMutexHeld, Threads, Senders,
       Labels, Composing, SocketLabels, CoreLabels
<1>3. PortsExist'
    BY SMT DEF HandleRead, Use, Goto, ports, sending, receiving, ThreadsInv, TypeOK,
       PortsTyped, CountsTyped, PortsExist, Dirs, Ports, Threads, Senders, Labels,
       Composing, SocketLabels, CoreLabels
<1>4. AllPutTogether'
    BY ThreadsAssumption, SMT DEF HandleRead, Use, Goto, ports, sending, receiving,
       ThreadsInv, TypeOK, SendingTyped, MessageMutexHeld, AllPutTogether, PutTogether,
       Threads, Senders, Labels, Composing, SocketLabels, CoreLabels
<1> QED
    BY <1>1, <1>2, <1>3, <1>4 DEF ThreadsInv

\* The step HandleUnlock keeps the invariant.
LEMMA HandleUnlockKeeps == ASSUME ThreadsInv, HandleUnlock PROVE ThreadsInv'
<1>1. TypeOK'
  <2>1. (pc \in [Threads -> Labels])'
      BY SMT DEF HandleUnlock, Goto, ports, sending, receiving, ThreadsInv, TypeOK,
         Threads, Senders, Labels, Composing, SocketLabels, CoreLabels
  <2>2. (crashed \in BOOLEAN)' /\ (waits \in BOOLEAN)'
      BY Zenon DEF HandleUnlock, Goto, ports, sending, receiving, ThreadsInv, TypeOK
  <2>3. PortsTyped'
      BY ThreadsAssumption, SMT DEF HandleUnlock, Goto, ports, sending, receiving,
         ThreadsInv, TypeOK, PortsTyped, CountsTyped, PortsExist, Dirs, Ports
  <2>4. SendingTyped'
      BY ThreadsAssumption, SMT DEF HandleUnlock, Goto, ports, sending, receiving,
         ThreadsInv, TypeOK, SendingTyped, PortsTyped, Senders, Dirs, Ports
  <2>5. CountsTyped'
      BY ThreadsAssumption, SMT DEF HandleUnlock, Goto, ports, sending, receiving,
         ThreadsInv, TypeOK, CountsTyped, PortsTyped, Dirs, Senders, Ports
  <2> QED
      BY <2>1, <2>2, <2>3, <2>4, <2>5 DEF TypeOK
<1>2. UpdateMutexHeld' /\ MessageMutexHeld'
    BY SMT DEF HandleUnlock, Goto, ports, sending, receiving, ThreadsInv, TypeOK,
       CountsTyped, SendingTyped, UpdateMutexHeld, MessageMutexHeld, Threads, Senders,
       Labels, Composing, SocketLabels, CoreLabels
<1>3. PortsExist'
    BY SMT DEF HandleUnlock, Goto, ports, sending, receiving, ThreadsInv, TypeOK,
       PortsTyped, CountsTyped, PortsExist, Dirs, Ports, Threads, Senders, Labels,
       Composing, SocketLabels, CoreLabels
<1>4. AllPutTogether'
    BY ThreadsAssumption, SMT DEF HandleUnlock, Goto, ports, sending, receiving,
       ThreadsInv, TypeOK, SendingTyped, MessageMutexHeld, AllPutTogether, PutTogether,
       Threads, Senders, Labels, Composing, SocketLabels, CoreLabels
<1> QED
    BY <1>1, <1>2, <1>3, <1>4 DEF ThreadsInv

\* The step Return keeps the invariant.
LEMMA ReturnKeeps == ASSUME ThreadsInv, Return PROVE ThreadsInv'
<1>1. TypeOK'
  <2>1. (pc \in [Threads -> Labels])'
      BY SMT DEF Return, Use, Goto, ports, sending, receiving, ThreadsInv, TypeOK,
         Threads, Senders, Labels, Composing, SocketLabels, CoreLabels
  <2>2. (crashed \in BOOLEAN)' /\ (waits \in BOOLEAN)'
      BY Zenon DEF Return, Use, Goto, ports, sending, receiving, ThreadsInv, TypeOK
  <2>3. PortsTyped'
      BY ThreadsAssumption, SMT DEF Return, Use, Goto, ports, sending, receiving,
         ThreadsInv, TypeOK, PortsTyped, CountsTyped, PortsExist, Dirs, Ports
  <2>4. SendingTyped'
      BY ThreadsAssumption, SMT DEF Return, Use, Goto, ports, sending, receiving,
         ThreadsInv, TypeOK, SendingTyped, PortsTyped, AllPutTogether, PutTogether,
         Composing, Senders, Dirs, Ports
  <2>5. CountsTyped'
      BY ThreadsAssumption, SMT DEF Return, Use, Goto, ports, sending, receiving,
         ThreadsInv, TypeOK, CountsTyped, PortsTyped, Dirs, Senders, Ports
  <2> QED
      BY <2>1, <2>2, <2>3, <2>4, <2>5 DEF TypeOK
<1>2. UpdateMutexHeld' /\ MessageMutexHeld'
    BY SMT DEF Return, Use, Goto, ports, sending, receiving, ThreadsInv, TypeOK,
       CountsTyped, SendingTyped, UpdateMutexHeld, MessageMutexHeld, Threads, Senders,
       Labels, Composing, SocketLabels, CoreLabels
<1>3. PortsExist'
    BY SMT DEF Return, Use, Goto, ports, sending, receiving, ThreadsInv, TypeOK,
       PortsTyped, CountsTyped, PortsExist, Dirs, Ports, Threads, Senders, Labels,
       Composing, SocketLabels, CoreLabels
<1>4. AllPutTogether'
    BY ThreadsAssumption, SMT DEF Return, Use, Goto, ports, sending, receiving,
       ThreadsInv, TypeOK, SendingTyped, MessageMutexHeld, AllPutTogether, PutTogether,
       Threads, Senders, Labels, Composing, SocketLabels, CoreLabels
<1> QED
    BY <1>1, <1>2, <1>3, <1>4 DEF ThreadsInv

\* The step Compose keeps the invariant.
LEMMA ComposeKeeps == ASSUME ThreadsInv, NEW t \in Senders, Compose(t) PROVE ThreadsInv'
<1>1. TypeOK'
  <2>1. (pc \in [Threads -> Labels])'
      BY SMT DEF Compose, Goto, ports, receiving, ThreadsInv, TypeOK, Threads, Senders,
         Labels, Composing, SocketLabels, CoreLabels
  <2>2. (crashed \in BOOLEAN)' /\ (waits \in BOOLEAN)'
      BY Zenon DEF Compose, Goto, ports, receiving, ThreadsInv, TypeOK
  <2>3. PortsTyped'
      BY ThreadsAssumption, SMT DEF Compose, Goto, ports, receiving, ThreadsInv, TypeOK,
         PortsTyped, CountsTyped, PortsExist, Dirs, Ports
  <2>4. SendingTyped'
      BY ThreadsAssumption, SMT DEF Compose, Goto, ports, receiving, ThreadsInv, TypeOK,
         SendingTyped, PortsTyped, AllPutTogether, PutTogether, Composing, Senders,
         Dirs, Ports
  <2>5. CountsTyped'
      BY ThreadsAssumption, SMT DEF Compose, Goto, ports, receiving, ThreadsInv, TypeOK,
         CountsTyped, PortsTyped, Dirs, Senders, Ports
  <2> QED
      BY <2>1, <2>2, <2>3, <2>4, <2>5 DEF TypeOK
<1>2. UpdateMutexHeld' /\ MessageMutexHeld'
    BY SMT DEF Compose, Goto, ports, receiving, ThreadsInv, TypeOK, CountsTyped,
       SendingTyped, UpdateMutexHeld, MessageMutexHeld, Threads, Senders, Labels,
       Composing, SocketLabels, CoreLabels
<1>3. PortsExist'
    BY SMT DEF Compose, Goto, ports, receiving, ThreadsInv, TypeOK, PortsTyped,
       CountsTyped, PortsExist, Dirs, Ports, Threads, Senders, Labels, Composing,
       SocketLabels, CoreLabels
<1>4. AllPutTogether'
    BY ThreadsAssumption, SMT DEF Compose, Goto, ports, receiving, ThreadsInv, TypeOK,
       SendingTyped, MessageMutexHeld, AllPutTogether, PutTogether, Threads, Senders,
       Labels, Composing, SocketLabels, CoreLabels
<1> QED
    BY <1>1, <1>2, <1>3, <1>4 DEF ThreadsInv

\* The step LockMessage keeps the invariant.
LEMMA LockMessageKeeps == ASSUME ThreadsInv, NEW t \in Senders, LockMessage(t) PROVE ThreadsInv'
<1>1. TypeOK'
  <2>1. (pc \in [Threads -> Labels])'
      BY SMT DEF LockMessage, Goto, ports, receiving, ThreadsInv, TypeOK, Threads,
         Senders, Labels, Composing, SocketLabels, CoreLabels
  <2>2. (crashed \in BOOLEAN)' /\ (waits \in BOOLEAN)'
      BY Zenon DEF LockMessage, Goto, ports, receiving, ThreadsInv, TypeOK
  <2>3. PortsTyped'
      BY ThreadsAssumption, SMT DEF LockMessage, Goto, ports, receiving, ThreadsInv,
         TypeOK, PortsTyped, CountsTyped, PortsExist, Dirs, Ports
  <2>4. SendingTyped'
      BY ThreadsAssumption, SMT DEF LockMessage, Goto, ports, receiving, ThreadsInv,
         TypeOK, SendingTyped, PortsTyped, AllPutTogether, PutTogether, Composing,
         Senders, Dirs, Ports
  <2>5. CountsTyped'
      BY ThreadsAssumption, SMT DEF LockMessage, Goto, ports, receiving, ThreadsInv,
         TypeOK, CountsTyped, PortsTyped, Dirs, Senders, Ports
  <2> QED
      BY <2>1, <2>2, <2>3, <2>4, <2>5 DEF TypeOK
<1>2. UpdateMutexHeld' /\ MessageMutexHeld'
    BY SMT DEF LockMessage, Goto, ports, receiving, ThreadsInv, TypeOK, CountsTyped,
       SendingTyped, UpdateMutexHeld, MessageMutexHeld, Threads, Senders, Labels,
       Composing, SocketLabels, CoreLabels
<1>3. PortsExist'
    BY SMT DEF LockMessage, Goto, ports, receiving, ThreadsInv, TypeOK, PortsTyped,
       CountsTyped, PortsExist, Dirs, Ports, Threads, Senders, Labels, Composing,
       SocketLabels, CoreLabels
<1>4. AllPutTogether'
    BY ThreadsAssumption, SMT DEF LockMessage, Goto, ports, receiving, ThreadsInv,
       TypeOK, SendingTyped, MessageMutexHeld, AllPutTogether, PutTogether, Threads,
       Senders, Labels, Composing, SocketLabels, CoreLabels
<1> QED
    BY <1>1, <1>2, <1>3, <1>4 DEF ThreadsInv

\* The step Clear keeps the invariant.
LEMMA ClearKeeps == ASSUME ThreadsInv, NEW t \in Senders, Clear(t) PROVE ThreadsInv'
<1>1. TypeOK'
  <2>1. (pc \in [Threads -> Labels])'
      BY SMT DEF Clear, Goto, ports, receiving, ThreadsInv, TypeOK, Threads, Senders,
         Labels, Composing, SocketLabels, CoreLabels
  <2>2. (crashed \in BOOLEAN)' /\ (waits \in BOOLEAN)'
      BY Zenon DEF Clear, Goto, ports, receiving, ThreadsInv, TypeOK
  <2>3. PortsTyped'
      BY ThreadsAssumption, SMT DEF Clear, Goto, ports, receiving, ThreadsInv, TypeOK,
         PortsTyped, CountsTyped, PortsExist, Dirs, Ports
  <2>4. SendingTyped'
      BY ThreadsAssumption, SMT DEF Clear, Goto, ports, receiving, ThreadsInv, TypeOK,
         SendingTyped, PortsTyped, AllPutTogether, PutTogether, Composing, Senders,
         Dirs, Ports
  <2>5. CountsTyped'
      BY ThreadsAssumption, SMT DEF Clear, Goto, ports, receiving, ThreadsInv, TypeOK,
         CountsTyped, PortsTyped, Dirs, Senders, Ports
  <2> QED
      BY <2>1, <2>2, <2>3, <2>4, <2>5 DEF TypeOK
<1>2. UpdateMutexHeld' /\ MessageMutexHeld'
    BY SMT DEF Clear, Goto, ports, receiving, ThreadsInv, TypeOK, CountsTyped,
       SendingTyped, UpdateMutexHeld, MessageMutexHeld, Threads, Senders, Labels,
       Composing, SocketLabels, CoreLabels
<1>3. PortsExist'
    BY SMT DEF Clear, Goto, ports, receiving, ThreadsInv, TypeOK, PortsTyped,
       CountsTyped, PortsExist, Dirs, Ports, Threads, Senders, Labels, Composing,
       SocketLabels, CoreLabels
<1>4. AllPutTogether'
    BY ThreadsAssumption, SMT DEF Clear, Goto, ports, receiving, ThreadsInv, TypeOK,
       SendingTyped, MessageMutexHeld, AllPutTogether, PutTogether, Threads, Senders,
       Labels, Composing, SocketLabels, CoreLabels
<1> QED
    BY <1>1, <1>2, <1>3, <1>4 DEF ThreadsInv

\* The step push_back keeps the invariant.
LEMMA push_backKeeps == ASSUME ThreadsInv, NEW t \in Senders, push_back(t) PROVE ThreadsInv'
<1>1. TypeOK'
  <2>1. (pc \in [Threads -> Labels])'
      BY SMT DEF push_back, Goto, ports, receiving, ThreadsInv, TypeOK, Threads,
         Senders, Labels, Composing, SocketLabels, CoreLabels
  <2>2. (crashed \in BOOLEAN)' /\ (waits \in BOOLEAN)'
      BY Zenon DEF push_back, Goto, ports, receiving, ThreadsInv, TypeOK
  <2>3. PortsTyped'
      BY ThreadsAssumption, SMT DEF push_back, Goto, ports, receiving, ThreadsInv,
         TypeOK, PortsTyped, CountsTyped, PortsExist, Dirs, Ports
  <2>4. SendingTyped'
    <3>1. message[t] \in Seq(0 .. 255) /\ pushed[t] + 1 \in 1 .. Len(message[t])
        BY ThreadsAssumption, SMT DEF push_back, Goto, ThreadsInv, TypeOK, SendingTyped,
           AllPutTogether, PutTogether, Composing
    <3>2. message[t][pushed[t] + 1] \in 0 .. 255
        BY <3>1, ElementTyped
    <3> QED
        BY <3>2, SMT DEF push_back, ThreadsInv, TypeOK, SendingTyped, Senders, Ports
  <2>5. CountsTyped'
      BY ThreadsAssumption, SMT DEF push_back, Goto, ports, receiving, ThreadsInv,
         TypeOK, CountsTyped, PortsTyped, Dirs, Senders, Ports
  <2> QED
      BY <2>1, <2>2, <2>3, <2>4, <2>5 DEF TypeOK
<1>2. UpdateMutexHeld' /\ MessageMutexHeld'
    BY SMT DEF push_back, Goto, ports, receiving, ThreadsInv, TypeOK, CountsTyped,
       SendingTyped, UpdateMutexHeld, MessageMutexHeld, Threads, Senders, Labels,
       Composing, SocketLabels, CoreLabels
<1>3. PortsExist'
    BY SMT DEF push_back, Goto, ports, receiving, ThreadsInv, TypeOK, PortsTyped,
       CountsTyped, PortsExist, Dirs, Ports, Threads, Senders, Labels, Composing,
       SocketLabels, CoreLabels
<1>4. AllPutTogether'
    BY ThreadsAssumption, SMT DEF push_back, Goto, ports, receiving, ThreadsInv, TypeOK,
       SendingTyped, MessageMutexHeld, AllPutTogether, PutTogether, Threads, Senders,
       Labels, Composing, SocketLabels, CoreLabels
<1> QED
    BY <1>1, <1>2, <1>3, <1>4 DEF ThreadsInv

\* The step Load keeps the invariant.
LEMMA LoadKeeps == ASSUME ThreadsInv, NEW t \in Senders, Load(t) PROVE ThreadsInv'
<1>1. TypeOK'
  <2>1. (pc \in [Threads -> Labels])'
      BY SMT DEF Load, Goto, ports, receiving, ThreadsInv, TypeOK, Threads, Senders,
         Labels, Composing, SocketLabels, CoreLabels
  <2>2. (crashed \in BOOLEAN)' /\ (waits \in BOOLEAN)'
      BY Zenon DEF Load, Goto, ports, receiving, ThreadsInv, TypeOK
  <2>3. PortsTyped'
      BY ThreadsAssumption, SMT DEF Load, Goto, ports, receiving, ThreadsInv, TypeOK,
         PortsTyped, CountsTyped, PortsExist, Dirs, Ports
  <2>4. SendingTyped'
      BY ThreadsAssumption, SMT DEF Load, Goto, ports, receiving, ThreadsInv, TypeOK,
         SendingTyped, PortsTyped, AllPutTogether, PutTogether, Composing, Senders,
         Dirs, Ports
  <2>5. CountsTyped'
      BY ThreadsAssumption, SMT DEF Load, Goto, ports, receiving, ThreadsInv, TypeOK,
         CountsTyped, PortsTyped, Dirs, Senders, Ports
  <2> QED
      BY <2>1, <2>2, <2>3, <2>4, <2>5 DEF TypeOK
<1>2. UpdateMutexHeld' /\ MessageMutexHeld'
    BY SMT DEF Load, Goto, ports, receiving, ThreadsInv, TypeOK, CountsTyped,
       SendingTyped, UpdateMutexHeld, MessageMutexHeld, Threads, Senders, Labels,
       Composing, SocketLabels, CoreLabels
<1>3. PortsExist'
    BY SMT DEF Load, Goto, ports, receiving, ThreadsInv, TypeOK, PortsTyped,
       CountsTyped, PortsExist, Dirs, Ports, Threads, Senders, Labels, Composing,
       SocketLabels, CoreLabels
<1>4. AllPutTogether'
    BY ThreadsAssumption, SMT DEF Load, Goto, ports, receiving, ThreadsInv, TypeOK,
       SendingTyped, MessageMutexHeld, AllPutTogether, PutTogether, Threads, Senders,
       Labels, Composing, SocketLabels, CoreLabels
<1> QED
    BY <1>1, <1>2, <1>3, <1>4 DEF ThreadsInv

\* The step Transmit keeps the invariant.
LEMMA TransmitKeeps == ASSUME ThreadsInv, NEW t \in Senders, Transmit(t) PROVE ThreadsInv'
<1>1. TypeOK'
  <2>1. (pc \in [Threads -> Labels])'
      BY SMT DEF Transmit, Use, Goto, ports, receiving, ThreadsInv, TypeOK, Threads,
         Senders, Labels, Composing, SocketLabels, CoreLabels
  <2>2. (crashed \in BOOLEAN)' /\ (waits \in BOOLEAN)'
      BY Zenon DEF Transmit, Use, Goto, ports, receiving, ThreadsInv, TypeOK
  <2>3. PortsTyped'
      BY ThreadsAssumption, SMT DEF Transmit, Use, Goto, ports, receiving, ThreadsInv,
         TypeOK, PortsTyped, CountsTyped, PortsExist, Dirs, Ports
  <2>4. SendingTyped'
      BY ThreadsAssumption, SMT DEF Transmit, Use, Goto, ports, receiving, ThreadsInv,
         TypeOK, SendingTyped, PortsTyped, AllPutTogether, PutTogether, Composing,
         Senders, Dirs, Ports
  <2>5. CountsTyped'
      BY ThreadsAssumption, SMT DEF Transmit, Use, Goto, ports, receiving, ThreadsInv,
         TypeOK, CountsTyped, PortsTyped, Dirs, Senders, Ports
  <2> QED
      BY <2>1, <2>2, <2>3, <2>4, <2>5 DEF TypeOK
<1>2. UpdateMutexHeld' /\ MessageMutexHeld'
    BY SMT DEF Transmit, Use, Goto, ports, receiving, ThreadsInv, TypeOK, CountsTyped,
       SendingTyped, UpdateMutexHeld, MessageMutexHeld, Threads, Senders, Labels,
       Composing, SocketLabels, CoreLabels
<1>3. PortsExist'
    BY SMT DEF Transmit, Use, Goto, ports, receiving, ThreadsInv, TypeOK, PortsTyped,
       CountsTyped, PortsExist, Dirs, Ports, Threads, Senders, Labels, Composing,
       SocketLabels, CoreLabels
<1>4. AllPutTogether'
    BY ThreadsAssumption, SMT DEF Transmit, Use, Goto, ports, receiving, ThreadsInv,
       TypeOK, SendingTyped, MessageMutexHeld, AllPutTogether, PutTogether, Threads,
       Senders, Labels, Composing, SocketLabels, CoreLabels
<1> QED
    BY <1>1, <1>2, <1>3, <1>4 DEF ThreadsInv

\* The step UnlockMessage keeps the invariant.
LEMMA UnlockMessageKeeps == ASSUME ThreadsInv, NEW t \in Senders, UnlockMessage(t) PROVE ThreadsInv'
<1>1. TypeOK'
  <2>1. (pc \in [Threads -> Labels])'
      BY SMT DEF UnlockMessage, Goto, ports, receiving, ThreadsInv, TypeOK, Threads,
         Senders, Labels, Composing, SocketLabels, CoreLabels
  <2>2. (crashed \in BOOLEAN)' /\ (waits \in BOOLEAN)'
      BY Zenon DEF UnlockMessage, Goto, ports, receiving, ThreadsInv, TypeOK
  <2>3. PortsTyped'
      BY ThreadsAssumption, SMT DEF UnlockMessage, Goto, ports, receiving, ThreadsInv,
         TypeOK, PortsTyped, CountsTyped, PortsExist, Dirs, Ports
  <2>4. SendingTyped'
      BY ThreadsAssumption, SMT DEF UnlockMessage, Goto, ports, receiving, ThreadsInv,
         TypeOK, SendingTyped, PortsTyped, AllPutTogether, PutTogether, Composing,
         Senders, Dirs, Ports
  <2>5. CountsTyped'
      BY ThreadsAssumption, SMT DEF UnlockMessage, Goto, ports, receiving, ThreadsInv,
         TypeOK, CountsTyped, PortsTyped, Dirs, Senders, Ports
  <2> QED
      BY <2>1, <2>2, <2>3, <2>4, <2>5 DEF TypeOK
<1>2. UpdateMutexHeld' /\ MessageMutexHeld'
    BY SMT DEF UnlockMessage, Goto, ports, receiving, ThreadsInv, TypeOK, CountsTyped,
       SendingTyped, UpdateMutexHeld, MessageMutexHeld, Threads, Senders, Labels,
       Composing, SocketLabels, CoreLabels
<1>3. PortsExist'
    BY SMT DEF UnlockMessage, Goto, ports, receiving, ThreadsInv, TypeOK, PortsTyped,
       CountsTyped, PortsExist, Dirs, Ports, Threads, Senders, Labels, Composing,
       SocketLabels, CoreLabels
<1>4. AllPutTogether'
    BY ThreadsAssumption, SMT DEF UnlockMessage, Goto, ports, receiving, ThreadsInv,
       TypeOK, SendingTyped, MessageMutexHeld, AllPutTogether, PutTogether, Threads,
       Senders, Labels, Composing, SocketLabels, CoreLabels
<1> QED
    BY <1>1, <1>2, <1>3, <1>4 DEF ThreadsInv


\* No step leaves the invariant.
LEMMA NextKeeps == ThreadsInv /\ [Next]_vars => ThreadsInv'
<1> SUFFICES ASSUME ThreadsInv, [Next]_vars PROVE ThreadsInv'
    OBVIOUS
<1>1. CASE DidReceiveGlobalSettings \/ InitialiseMidi
    BY <1>1, DidReceiveGlobalSettingsKeeps, LockUpdateKeeps, DeleteInKeeps, NewInKeeps,
       OpenInKeeps, UnlockUpdateKeeps, DeleteOutKeeps, NewOutKeeps, OpenOutKeeps DEF InitialiseMidi
<1>2. ASSUME NEW t \in Senders, Compose(t) \/ Send(t) PROVE ThreadsInv'
    BY <1>2, ComposeKeeps, LockMessageKeeps, ClearKeeps, push_backKeeps, LoadKeeps,
       TransmitKeeps, UnlockMessageKeeps DEF Send
<1>3. CASE Receive \/ HandleMidiInput
    BY <1>3, ReceiveKeeps, CallHandlerKeeps, HandleLockKeeps, HandleReadKeeps,
       HandleUnlockKeeps, ReturnKeeps DEF HandleMidiInput
<1>4. CASE UNCHANGED vars
    BY <1>4, SMT DEF vars, ports, sending, receiving, ThreadsInv, TypeOK, PortsTyped, SendingTyped,
       CountsTyped, UpdateMutexHeld, MessageMutexHeld, PortsExist, AllPutTogether, PutTogether
<1> QED
    BY <1>1, <1>2, <1>3, <1>4 DEF Next

\* The invariant holds in every state, whatever the threads do.
THEOREM ThreadsInvariant == Spec => []ThreadsInv
BY InitInv, NextKeeps, PTL DEF Spec

\* Every state has its type; a port that is deleted is disconnected.
THEOREM TypeCorrect == Spec => []TypeOK
<1>1. ThreadsInv => TypeOK
    BY DEF ThreadsInv
<1> QED
    BY <1>1, ThreadsInvariant, PTL

\* While HandleMidiInput has midiUpdateMutex, the port that midiIn points to exists,
\* however often and whenever the settings change.
THEOREM HandlerIsSafe == Spec => []HandlerSeesPort
<1>1. ThreadsInv => HandlerSeesPort
    BY DEF ThreadsInv, UpdateMutexHeld, PortsExist, HandlerSeesPort
<1> QED
    BY <1>1, ThreadsInvariant, PTL

-----------------------------------------------------------------------------
(* What leaves the plugin is what a MidiWire lets through *)

\* The message thread t is handing over.
Outbox == [t \in Senders |-> IF pc[t] \in Composing THEN message[t] ELSE None]

\* No thread is sending at first.
LEMMA WireInit == Init => Wire!Init
BY SMT DEF Init, Wire!Init, Senders, Threads, Composing

\* A message is submitted when a thread begins to put it together.
LEMMA ComposeSubmits == ASSUME ThreadsInv, NEW t \in Senders, Compose(t) PROVE Wire!Next
<1>1. Outbox[t] = None /\ wire' = wire
    BY SMT DEF Compose, Goto, Outbox, Composing
<1>2. PICK m \in Messages : message' = [message EXCEPT ![t] = m]
    BY DEF Compose
<1>3. \A s \in Senders : Outbox'[s] = [Outbox EXCEPT ![t] = m][s]
    BY <1>2, SMT DEF Compose, Goto, Outbox, Composing, ThreadsInv, TypeOK, SendingTyped, Threads, Senders
<1>4. Outbox' = [Outbox EXCEPT ![t] = m]
    BY <1>3, Zenon DEF Outbox
<1> QED
    BY <1>1, <1>4 DEF Wire!Next, Wire!Submit, Outbox

\* It is handed over, whole, when the port is told to send the vector.
LEMMA TransmitHandsOver == ASSUME ThreadsInv, NEW t \in Senders, Transmit(t) PROVE Wire!Next
<1>1. Outbox[t] = midiMessage /\ Outbox[t] # None
    BY ThreadsAssumption, SMT DEF Transmit, Goto, Outbox, Composing, ThreadsInv, AllPutTogether, PutTogether
<1>2. wire' \in {wire, Append(wire, Outbox[t])}
    BY <1>1 DEF Transmit
<1>3. \A s \in Senders : Outbox'[s] = [Outbox EXCEPT ![t] = None][s]
    BY SMT DEF Transmit, Goto, Outbox, Composing, ThreadsInv, TypeOK, Threads, Senders
<1>4. Outbox' = [Outbox EXCEPT ![t] = None]
    BY <1>3, Zenon DEF Outbox
<1> QED
    BY <1>1, <1>2, <1>4 DEF Wire!Next, Wire!HandOver, Outbox

\* The other steps of a sender are not seen on the wire.
LEMMA SenderStutters ==
    ASSUME ThreadsInv, NEW t \in Senders,
           LockMessage(t) \/ Clear(t) \/ push_back(t) \/ Load(t) \/ UnlockMessage(t)
    PROVE UNCHANGED Wire!vars
<1>1. message' = message /\ wire' = wire
    BY DEF LockMessage, Clear, push_back, Load, UnlockMessage
<1>2. \A s \in Senders : pc'[s] \in Composing <=> pc[s] \in Composing
    BY SMT DEF LockMessage, Clear, push_back, Load, UnlockMessage, Goto, Composing, ThreadsInv, TypeOK, Threads, Senders
<1> QED
    BY <1>1, <1>2 DEF Wire!vars

\* Nor are those that replace the ports, and those of CoreMIDI.
LEMMA OthersStutter ==
    ASSUME ThreadsInv,
           DidReceiveGlobalSettings \/ InitialiseMidi \/ Receive \/ HandleMidiInput
    PROVE UNCHANGED Wire!vars
<1>1. message' = message /\ wire' = wire
    BY DEF DidReceiveGlobalSettings, InitialiseMidi, LockUpdate, DeleteIn, NewIn, OpenIn, UnlockUpdate, DeleteOut,
       NewOut, OpenOut, Receive, HandleMidiInput, CallHandler, HandleLock, HandleRead, HandleUnlock, Return, sending
<1>2. pc'["timer"] = pc["timer"] /\ (pc'["socket"] \in Composing <=> pc["socket"] \in Composing)
    BY SMT DEF DidReceiveGlobalSettings, InitialiseMidi, LockUpdate, DeleteIn, NewIn, OpenIn, UnlockUpdate, DeleteOut,
       NewOut, OpenOut, Receive, HandleMidiInput, CallHandler, HandleLock, HandleRead, HandleUnlock, Return,
       Goto, Composing, ThreadsInv, TypeOK, Threads, Senders
<1> QED
    BY <1>1, <1>2 DEF Wire!vars, Senders

\* However the threads interleave and the ports are replaced, the plugin implements
\* a MidiWire: what arrives is whole messages, each once, in the order of its thread.
THEOREM MessagesAreWhole == Spec => WholeMessages
<1>1. ThreadsInv /\ [Next]_vars => [Wire!Next]_Wire!vars
  <2> SUFFICES ASSUME ThreadsInv, [Next]_vars PROVE [Wire!Next]_Wire!vars
      OBVIOUS
  <2>1. ASSUME NEW t \in Senders, Compose(t) \/ Send(t) PROVE [Wire!Next]_Wire!vars
      BY <2>1, ComposeSubmits, TransmitHandsOver, SenderStutters DEF Send
  <2>2. CASE DidReceiveGlobalSettings \/ InitialiseMidi \/ Receive \/ HandleMidiInput
      BY <2>2, OthersStutter
  <2>3. CASE UNCHANGED vars
      BY <2>3 DEF vars, sending, Wire!vars
  <2> QED
      BY <2>1, <2>2, <2>3 DEF Next
<1> QED
    BY <1>1, WireInit, ThreadsInvariant, PTL DEF Spec, WholeMessages, Wire!Spec

=============================================================================
