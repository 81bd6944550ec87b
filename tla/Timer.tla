------------------------------- MODULE Timer --------------------------------
(***************************************************************************)
(* The class Timer (macOS/timer.h), with the manual_event it waits on      *)
(* (macOS/event.h): a thread that wakes up once per m_tick, counts, and    *)
(* calls the events that are due; a wake-up that comes late shortens the   *)
(* waits after it.  Other threads add events, cancel them by signalling    *)
(* the manual_event they were given, and destroy the timer.                *)
(*                                                                         *)
(* Time passes between any two steps, so the thread may be late by any     *)
(* amount, and an event may take any time.                                 *)
(***************************************************************************)
EXTENDS Integers

CONSTANTS
    m_tick,       \* the resolution of the timer, in units of time
    Durations,    \* the intervals and timeouts that are asked for
    MaxEvents,    \* bound: how many events are added
    MaxTime       \* bound: how long time passes

\* set_timeout and set_interval assert that the duration is at least a tick.
ASSUME TimerAssumption ==
    /\ m_tick \in Nat \ {0}
    /\ MaxEvents \in Nat
    /\ MaxTime \in Nat
    /\ Durations \subseteq Nat
    /\ \A d \in Durations : d >= m_tick

SeqNums == 0 .. (MaxEvents - 1)

\* The iterator of the thread is at an event, or here.
End == MaxEvents

VARIABLES
    now,          \* the clock, which shows 0 when the thread starts
    m_ticks, drift,
    deadline,     \* when wait_for gives up
    loop,         \* where the thread is
    it,           \* its iterator: the seq_num of an event, or End
    m_events,     \* the events in the set, by seq_num
    kNextSeqNum,
    ctx,          \* the fields of the event_ctx of each event
    cancelled,    \* the events whose manual_event is signalled
    m_event,      \* whether the timer's own manual_event is signalled
    owner,        \* the thread that has the timer: "uses", "joins" or "left" it
    calls,        \* history: how often each event was called
    setAt         \* history: the last tick that did not count for the event

thread == <<m_ticks, drift, deadline, loop, it>>
events == <<m_events, ctx, calls>>
others == <<kNextSeqNum, cancelled, m_event, owner, setAt>>
vars == <<now, thread, events, others>>

\* The thread looks whether elapsed is equal to ticks; it must not step over it.
TypeOK ==
    /\ now \in Nat /\ m_ticks \in Nat /\ drift \in Int /\ deadline \in Nat
    /\ loop \in {"arm", "wait", "visit", "check", "call", "measure", "ended"}
    /\ it \in SeqNums \cup {End}
    /\ kNextSeqNum \in 0 .. MaxEvents
    /\ m_events \subseteq 0 .. (kNextSeqNum - 1)
    /\ ctx \in [SeqNums -> [ticks : Nat, elapsed : Nat, timeout : BOOLEAN]]
    /\ \A e \in m_events : ctx[e].elapsed <= ctx[e].ticks
    /\ cancelled \subseteq SeqNums
    /\ m_event \in BOOLEAN
    /\ owner \in {"uses", "joins", "left"}
    /\ calls \in [SeqNums -> Nat]
    /\ setAt \in [SeqNums -> Nat]

Init ==
    /\ now = 0 /\ m_ticks = 0 /\ drift = 0 /\ deadline = 0
    /\ loop = "arm"
    /\ it = End
    /\ m_events = {}
    /\ kNextSeqNum = 0
    /\ ctx = [e \in SeqNums |-> [ticks |-> 0, elapsed |-> 0, timeout |-> FALSE]]
    /\ cancelled = {}
    /\ m_event = FALSE
    /\ owner = "uses"
    /\ calls = [e \in SeqNums |-> 0]
    /\ setAt = [e \in SeqNums |-> 0]

-----------------------------------------------------------------------------
(* The thread *)

\* wait_for(m_tick - drift) starts to wait; a time that is not positive is over
\* at once.
Arm ==
    /\ loop = "arm"
    /\ deadline' = now + (IF drift < m_tick THEN m_tick - drift ELSE 0)
    /\ loop' = "wait"
    /\ UNCHANGED <<now, m_ticks, drift, it, events, others>>

\* Where an iterator of the set is that has come to the numbers from n on: at the
\* first event, or at the end when there is none.
First(set, n) ==
    LET rest == {e \in set : e >= n}
    IN  IF rest = {} THEN End ELSE CHOOSE e \in rest : \A other \in rest : e <= other

\* wait_for returns false: the time is over and the timer goes on.
WakeUp ==
    /\ loop = "wait" /\ ~m_event /\ now >= deadline
    /\ m_ticks' = m_ticks + 1
    /\ it' = First(m_events, 0)
    /\ loop' = "visit"
    /\ UNCHANGED <<now, drift, deadline, events, others>>

\* Mutant: the signal is looked at only while there is time to wait.
EndLoop_InTime ==
    /\ loop = "wait" /\ m_event /\ now < deadline
    /\ loop' = "ended"
    /\ UNCHANGED <<now, m_ticks, drift, deadline, it, events, others>>

\* wait_for returns true: the timer's own event is signalled.
EndLoop ==
    /\ loop = "wait" /\ m_event
    /\ loop' = "ended"
    /\ UNCHANGED <<now, m_ticks, drift, deadline, it, events, others>>

\* Mutant: the ticks are compared before this one is counted.
Visit_Late(e) ==
    /\ loop = "visit" /\ it = e
    /\ ctx' = [ctx EXCEPT ![e].elapsed = @ + 1]
    /\ IF ctx[e].elapsed = ctx[e].ticks
       THEN loop' = "check" /\ UNCHANGED it
       ELSE it' = First(m_events, e + 1) /\ UNCHANGED loop
    /\ UNCHANGED <<now, m_ticks, drift, deadline, m_events, calls, others>>

\* One more tick for the event; it may be due.
Visit(e) ==
    /\ loop = "visit" /\ it = e
    /\ ctx' = [ctx EXCEPT ![e].elapsed = @ + 1]
    /\ IF ctx[e].elapsed + 1 = ctx[e].ticks
       THEN loop' = "check" /\ UNCHANGED it
       ELSE it' = First(m_events, e + 1) /\ UNCHANGED loop
    /\ UNCHANGED <<now, m_ticks, drift, deadline, m_events, calls, others>>

\* Mutant: a cancelled event is called all the same.
Check_Calls(e) ==
    /\ loop = "check" /\ it = e
    /\ loop' = "call"
    /\ UNCHANGED <<now, m_ticks, drift, deadline, it, events, others>>

\* proc of an event that is due looks whether it is cancelled, and then has it
\* removed.
Check(e) ==
    /\ loop = "check" /\ it = e
    /\ IF e \in cancelled
       THEN m_events' = m_events \ {e} /\ it' = First(m_events, e + 1) /\ loop' = "visit"
       ELSE loop' = "call" /\ UNCHANGED <<m_events, it>>
    /\ UNCHANGED <<now, m_ticks, drift, deadline, ctx, calls, others>>

\* Mutant: an interval is not counted from its last call.
Call_NoReset(e) ==
    /\ loop = "call" /\ it = e
    /\ calls' = [calls EXCEPT ![e] = @ + 1]
    /\ m_events' = IF ctx[e].timeout THEN m_events \ {e} ELSE m_events
    /\ it' = First(m_events, e + 1)
    /\ loop' = "visit"
    /\ UNCHANGED <<now, m_ticks, drift, deadline, ctx, others>>

\* proc calls the function; a timeout is removed, an interval starts again.
Call(e) ==
    /\ loop = "call" /\ it = e
    /\ calls' = [calls EXCEPT ![e] = @ + 1]
    /\ m_events' = IF ctx[e].timeout THEN m_events \ {e} ELSE m_events
    /\ ctx' = [ctx EXCEPT ![e].elapsed = IF ctx[e].timeout THEN @ ELSE 0]
    /\ it' = First(m_events, e + 1)
    /\ loop' = "visit"
    /\ UNCHANGED <<now, m_ticks, drift, deadline, others>>

\* The iterator is at the end.
Visited ==
    /\ loop = "visit" /\ it = End
    /\ loop' = "measure"
    /\ UNCHANGED <<now, m_ticks, drift, deadline, it, events, others>>

\* Mutant: the drift is taken from the tick that comes next.
Measure_NextTick ==
    /\ loop = "measure"
    /\ drift' = now - m_tick * (m_ticks - 1)
    /\ loop' = "arm"
    /\ UNCHANGED <<now, m_ticks, deadline, it, events, others>>

Measure ==
    /\ loop = "measure"
    /\ drift' = now - m_tick * m_ticks
    /\ loop' = "arm"
    /\ UNCHANGED <<now, m_ticks, deadline, it, events, others>>

Thread ==
    \/ Arm \/ WakeUp \/ EndLoop \/ Visited \/ Measure
    \/ \E e \in m_events : Visit(e) \/ Check(e) \/ Call(e)

-----------------------------------------------------------------------------
(* The other threads and the clock *)

\* The thread is on its way through the events.
Visiting == loop \in {"visit", "check", "call"}

\* set_interval and set_timeout.  The event comes last in the set: the thread gets
\* to it in the same tick if its iterator is at an event before, and not if it is
\* at the end already, as it is from the start of a tick when the set is empty.
Add(duration, timeout) ==
    /\ owner = "uses" /\ kNextSeqNum < MaxEvents
    /\ m_events' = m_events \cup {kNextSeqNum}
    /\ ctx' = [ctx EXCEPT ![kNextSeqNum] =
                  [ticks |-> duration \div m_tick, elapsed |-> 0, timeout |-> timeout]]
    /\ setAt' = [setAt EXCEPT ![kNextSeqNum] =
                    IF Visiting /\ it # End THEN m_ticks - 1 ELSE m_ticks]
    /\ kNextSeqNum' = kNextSeqNum + 1
    /\ UNCHANGED <<now, thread, calls, cancelled, m_event, owner>>

set_interval(duration) == Add(duration, FALSE)
set_timeout(duration) == Add(duration, TRUE)

\* The manual_event that set_interval or set_timeout returned is signalled.
Cancel(e) ==
    /\ e < kNextSeqNum
    /\ cancelled' = cancelled \cup {e}
    /\ UNCHANGED <<now, thread, events, kNextSeqNum, m_event, owner, setAt>>

Destroy ==
    /\ owner = "uses"
    /\ m_event' = TRUE
    /\ owner' = "joins"
    /\ UNCHANGED <<now, thread, events, kNextSeqNum, cancelled, setAt>>

Join ==
    /\ owner = "joins" /\ loop = "ended"
    /\ owner' = "left"
    /\ UNCHANGED <<now, thread, events, kNextSeqNum, cancelled, m_event, setAt>>

\* After MaxTime nothing is late any more, and time stops when no tick is overdue.
Elapse ==
    /\ \/ now < MaxTime
       \/ loop = "wait" /\ now < deadline /\ (m_ticks + 1) * m_tick <= now
    /\ now' = now + 1
    /\ UNCHANGED <<thread, events, others>>

Next ==
    \/ Thread \/ Destroy \/ Join \/ Elapse
    \/ \E d \in Durations : set_interval(d) \/ set_timeout(d)
    \/ \E e \in SeqNums : Cancel(e)

Spec == Init /\ [][Next]_vars

\* The clock runs, and the operating system lets the two threads run; nothing
\* says when.
FairSpec == Spec /\ WF_vars(Elapse) /\ WF_vars(Thread) /\ WF_vars(Join)

-----------------------------------------------------------------------------

\* However late the thread was and however fast it makes up for it, an event has
\* been called for every full interval of ticks since it was added, and not once
\* more; a timeout that is still in the set has not been called.
OnSchedule ==
    ~Visiting => \A e \in m_events :
        LET ticks == m_ticks - setAt[e]
        IN  /\ calls[e] * ctx[e].ticks <= ticks
            /\ ticks < (calls[e] + 1) * ctx[e].ticks
            /\ ctx[e].timeout => calls[e] = 0

\* The thread is about to call the event.
Decided(e) == loop = "call" /\ it = e

\* However the cancelling falls between the steps of the thread, an event that is
\* cancelled is called once more at most: only if that was decided before.
CancelledStops ==
    [][\A e \in cancelled : Decided(e)' => Decided(e)]_vars

\* The timer is a PeriodicSource: it never ticks ahead of time, and every tick
\* comes in the end.
Source == INSTANCE PeriodicSource WITH Period <- m_tick, count <- m_ticks, stopped <- m_event

TicksInTime == Source!Spec

\* ~Timer does not wait for ever for the thread.
DestroyReturns == owner = "joins" ~> owner = "left"

=============================================================================
