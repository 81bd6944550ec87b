---------------------------- MODULE Timer_proofs ----------------------------
(***************************************************************************)
(* The timer never ticks ahead of time, and calls its events on schedule,  *)
(* for every resolution, every duration and any delays.                    *)
(***************************************************************************)
EXTENDS Timer, TLAPS, WellFoundedInduction

\* Where the thread is in its loop, and what it has measured there: the next tick
\* is not due before the deadline, nor the drift more than the time gone by.
InTime ==
    /\ m_ticks * m_tick <= now
    /\ loop = "wait" => (m_ticks + 1) * m_tick <= deadline
    /\ loop = "arm" => m_ticks * m_tick + drift <= now

\* The iterator is at an event of the set while that is due, and at one or at the
\* end as long as the thread visits them.
InSet ==
    /\ loop \in {"check", "call"} => it \in m_events
    /\ Visiting => m_ticks > 0 /\ it \in m_events \cup {End}

\* Event e has been visited for the tick the thread is at, or will not be.
Seen(e) == ~Visiting \/ e < it \/ (loop \in {"check", "call"} /\ e = it)

\* The ticks at which event e was visited.
Visits(e) == IF Seen(e) THEN m_ticks - setAt[e] ELSE m_ticks - 1 - setAt[e]

\* Whether the thread is between the visit that made e due and its call.
IsDue(e) == loop \in {"check", "call"} /\ e = it

\* The visits are those that led to a call and those since the last call.
Counted(e) ==
    /\ ctx[e].ticks > 0
    /\ calls[e] * ctx[e].ticks + ctx[e].elapsed = Visits(e)
    /\ IF IsDue(e) THEN ctx[e].elapsed = ctx[e].ticks ELSE ctx[e].elapsed < ctx[e].ticks
    /\ ctx[e].timeout => calls[e] = 0

AllCounted == \A e \in m_events : Counted(e)
FreshUncalled == \A e \in SeqNums : e >= kNextSeqNum => calls[e] = 0

TimerInv == TypeOK /\ InTime /\ InSet /\ AllCounted /\ FreshUncalled

-----------------------------------------------------------------------------
(* Each part of the invariant is preserved *)

\* A tick more takes a period more.
LEMMA NextPeriod == ASSUME NEW n \in Int PROVE (n + 1) * m_tick = n * m_tick + m_tick
BY TimerAssumption, SMT

\* A duration of a tick or more has at least one tick.
LEMMA FullTick ==
    ASSUME NEW d \in Durations PROVE d \div m_tick \in Nat /\ d \div m_tick > 0
BY TimerAssumption, SMT

\* The numbers below the next one are numbers of events.
LEMMA BelowNext ==
    ASSUME NEW k \in 0 .. MaxEvents, NEW e \in 0 .. (k - 1) PROVE e \in SeqNums
BY TimerAssumption DEF SeqNums

\* An event in the set has a number that was given out.
LEMMA EventsAreSeqNums == ASSUME TypeOK, NEW e \in m_events PROVE e \in SeqNums
BY TimerAssumption DEF TypeOK, SeqNums

\* Only the thread changes what it measures, and only the clock the time.
LEMMA InTimeStep == TimerInv /\ [Next]_vars => InTime'
<1> SUFFICES ASSUME TimerInv, [Next]_vars PROVE InTime'
    OBVIOUS
<1> USE TimerAssumption DEF TimerInv, TypeOK, InTime
<1>0. /\ m_tick \in Nat /\ m_ticks \in Nat /\ now \in Nat /\ m_ticks * m_tick \in Nat
      /\ (m_ticks + 1) * m_tick = m_ticks * m_tick + m_tick
      /\ m_tick * m_ticks = m_ticks * m_tick
    BY NextPeriod
<1>1. CASE Arm
    BY <1>0, <1>1 DEF Arm
<1>2. CASE WakeUp
    BY <1>0, <1>2 DEF WakeUp
<1>3. CASE Measure
    BY <1>0, <1>3 DEF Measure
<1>4. CASE EndLoop \/ Visited
    BY <1>4 DEF EndLoop, Visited
<1>5. ASSUME NEW e \in m_events, Visit(e) \/ Check(e) \/ Call(e) PROVE InTime'
    BY <1>5 DEF Visit, Check, Call
<1>6. CASE Elapse
    <2>1. m_ticks * m_tick <= now'
        BY <1>0, <1>6 DEF Elapse
    <2> QED
        BY <1>0, <1>6, <2>1 DEF Elapse, thread
<1>7. CASE Destroy \/ Join \/ UNCHANGED vars
    BY <1>7 DEF Destroy, Join, vars, thread
<1>8. ASSUME NEW d \in Durations, set_interval(d) \/ set_timeout(d) PROVE InTime'
    BY <1>8 DEF set_interval, set_timeout, Add, thread
<1>9. ASSUME NEW e \in SeqNums, Cancel(e) PROVE InTime'
    BY <1>9 DEF Cancel, thread
<1> QED
    BY <1>1, <1>2, <1>3, <1>4, <1>5, <1>6, <1>7, <1>8, <1>9 DEF Next, Thread

\* The less-than relation of the natural numbers, as the library has it.
LEMMA LessThan == IsWellFoundedOn({ss \in Nat \X Nat : ss[1] < ss[2]}, Nat)
BY NatLessThanWellFounded, Zenon DEF OpToRel

\* A set of numbers has a least one.
LEMMA Least ==
    ASSUME NEW S \in SUBSET Nat, S # {}
    PROVE  \E x \in S : \A y \in S : x <= y
<1> DEFINE R == {ss \in Nat \X Nat : ss[1] < ss[2]}
<1> HIDE DEF R
<1>1. PICK x \in S : \A y \in S : <<y, x>> \notin R
    <2>1. IsWellFoundedOn(R, Nat)
        BY LessThan DEF R
    <2> QED
        BY <2>1, WFMin, Zenon
<1>2. ASSUME NEW y \in S PROVE x <= y
    <2>1. y < x => <<y, x>> \in R
        BY DEF R
    <2> QED
        BY <1>1, <2>1
<1> QED
    BY <1>2

\* Where the iterator comes to: to the end when no event is left, and to the first
\* one that is left otherwise, so that it passes no event over.
LEMMA FirstIs ==
    ASSUME NEW set \in SUBSET SeqNums, NEW n \in Nat
    PROVE  /\ First(set, n) \in set \cup {End}
           /\ \A e \in set : e < First(set, n) <=> e < n
<1> DEFINE rest == {e \in set : e >= n}
<1>1. End \in Nat /\ \A e \in set : e \in Nat /\ e < End
    BY TimerAssumption DEF SeqNums, End
<1>2. CASE rest = {}
    <2>1. First(set, n) = End
        BY <1>2 DEF First
    <2> QED
        BY <1>1, <1>2, <2>1
<1>3. CASE rest # {}
    <2>1. First(set, n) = CHOOSE e \in rest : \A other \in rest : e <= other
        BY <1>3 DEF First
    <2>2. \E e \in rest : \A other \in rest : e <= other
        BY <1>1, <1>3, Least
    <2>3. First(set, n) \in rest /\ \A other \in rest : First(set, n) <= other
        BY <2>1, <2>2, Zenon
    <2> QED
        BY <1>1, <2>3
<1> QED
    BY <1>2, <1>3

\* An event that is added is beyond the iterator, and one that is due stays in the
\* set until it is called.
LEMMA InSetStep == TimerInv /\ [Next]_vars => InSet'
<1> SUFFICES ASSUME TimerInv, [Next]_vars PROVE InSet'
    OBVIOUS
<1> USE TimerAssumption DEF TimerInv, TypeOK, InSet, Visiting
<1>0. m_events \in SUBSET SeqNums
    BY EventsAreSeqNums
<1>1. CASE Arm \/ EndLoop \/ Visited \/ Measure
    BY <1>1 DEF Arm, EndLoop, Visited, Measure, events, others
<1>6. CASE WakeUp
    BY <1>0, <1>6, FirstIs DEF WakeUp, events, others
<1>2. ASSUME NEW e \in m_events, Visit(e) \/ Check(e) \/ Call(e) PROVE InSet'
    <2>1. First(m_events, e + 1) \in m_events \cup {End} /\ ~(First(m_events, e + 1) = e)
        BY <1>0, FirstIs DEF SeqNums, End
    <2> QED
        BY <1>2, <2>1 DEF Visit, Check, Call, others
<1>3. CASE Destroy \/ Join \/ Elapse \/ UNCHANGED vars
    BY <1>3 DEF Destroy, Join, Elapse, vars, thread, events, others
<1>4. ASSUME NEW d \in Durations, set_interval(d) \/ set_timeout(d) PROVE InSet'
    BY <1>4 DEF set_interval, set_timeout, Add, thread
<1>5. ASSUME NEW e \in SeqNums, Cancel(e) PROVE InSet'
    BY <1>5 DEF Cancel, thread, events
<1> QED
    BY <1>1, <1>2, <1>3, <1>4, <1>5, <1>6 DEF Next, Thread

\* A call moves the visits since the last call to those that led to one.
LEMMA OneMoreCall == ASSUME NEW n \in Nat, NEW k \in Nat PROVE (n + 1) * k + 0 = n * k + k
BY SMT

\* While the thread does not touch an event it stays counted.
LEMMA KeepsCount ==
    ASSUME TimerInv, NEW e \in m_events, AllCounted, UNCHANGED <<ctx, calls, m_ticks>>,
           setAt'[e] = setAt[e], Seen(e)' <=> Seen(e), ~IsDue(e), ~IsDue(e)'
    PROVE  Counted(e)'
BY DEF AllCounted, Counted, Visits

\* Every step keeps the account of every event: the tick that is counted when the
\* event is visited, the call that starts it again, the removal, and the tick in
\* which an event that is added takes part already.
LEMMA CountedStep == TimerInv /\ [Next]_vars => AllCounted'
<1> SUFFICES ASSUME TimerInv, [Next]_vars PROVE AllCounted'
    OBVIOUS
<1> USE TimerAssumption DEF TimerInv
<1>0. /\ m_events \in SUBSET SeqNums /\ End \in Nat
      /\ \A e \in SeqNums : e \in Nat /\ e < End
    BY EventsAreSeqNums DEF SeqNums, End
<1>a. /\ m_ticks \in Nat /\ it \in Nat /\ kNextSeqNum \in Nat
      /\ \A e \in m_events : e \in SeqNums /\ e \in Nat /\ e < kNextSeqNum /\ setAt[e] \in Nat
    BY <1>0, EventsAreSeqNums DEF TypeOK
<1>b. \A e \in m_events :
          /\ ctx[e].ticks \in Nat /\ ctx[e].elapsed \in Nat /\ ctx[e].timeout \in BOOLEAN
          /\ calls[e] \in Nat
    BY <1>a DEF TypeOK
<1>c. \A e \in m_events : calls[e] * ctx[e].ticks \in Nat
    BY <1>b, SMT
<1>1. CASE Arm \/ EndLoop \/ Measure
    <2>1. /\ UNCHANGED <<m_events, ctx, calls, m_ticks, setAt>>
          /\ ~Visiting /\ ~Visiting'
          /\ loop \notin {"check", "call"} /\ loop' \notin {"check", "call"}
        BY <1>1 DEF Arm, EndLoop, Measure, events, others, Visiting
    <2> QED
        BY <2>1, KeepsCount DEF AllCounted, Seen, IsDue
<1>2. CASE WakeUp
    <2>1. /\ UNCHANGED <<m_events, ctx, calls, setAt>> /\ m_ticks' = m_ticks + 1
          /\ loop = "wait" /\ loop' = "visit" /\ it' = First(m_events, 0)
        BY <1>2 DEF WakeUp, events, others
    <2>2. \A e \in m_events : ~(e < it')
        BY <1>0, <1>a, <2>1, FirstIs
    <2> QED
        BY <1>a, <1>b, <1>c, <2>1, <2>2 DEF AllCounted, Counted, Visits, Seen, IsDue, Visiting
<1>3. CASE Visited
    <2>1. /\ UNCHANGED <<m_events, ctx, calls, m_ticks, it, setAt>>
          /\ loop = "visit" /\ loop' = "measure" /\ \A e \in m_events : e < it
        BY <1>0, <1>3 DEF Visited, events, others
    <2> QED
        BY <1>a, <1>b, <1>c, <2>1 DEF AllCounted, Counted, Visits, Seen, IsDue, Visiting
<1>4. ASSUME NEW e \in m_events, Visit(e) PROVE AllCounted'
    <2>1. /\ UNCHANGED <<m_events, calls, m_ticks, setAt>>
          /\ loop = "visit" /\ it = e
          /\ ctx' = [ctx EXCEPT ![e].elapsed = @ + 1]
          /\ \/ ctx[e].elapsed + 1 = ctx[e].ticks /\ loop' = "check" /\ it' = e
             \/ ctx[e].elapsed + 1 # ctx[e].ticks /\ loop' = "visit" /\ it' = First(m_events, e + 1)
        BY <1>4 DEF Visit, others
    <2>5. \A other \in m_events : other < First(m_events, e + 1) <=> other < e + 1
        BY <1>0, <1>a, FirstIs
    <2>2. /\ ctx'[e].elapsed = ctx[e].elapsed + 1
          /\ ctx'[e].ticks = ctx[e].ticks /\ ctx'[e].timeout = ctx[e].timeout
          /\ \A other \in SeqNums : other # e => ctx'[other] = ctx[other]
        BY <1>a, <2>1 DEF TypeOK
    <2>3. Counted(e)'
        <3>1. Visits(e)' = Visits(e) + 1
            BY <1>a, <2>1, <2>5 DEF Visits, Seen, Visiting
        <3>2. Counted(e)
            BY DEF AllCounted
        <3> QED
            BY <1>a, <1>b, <1>c, <2>1, <2>2, <3>1, <3>2 DEF Counted, IsDue
    <2>4. ASSUME NEW other \in m_events, other # e PROVE Counted(other)'
        <3>1. Visits(other)' = Visits(other)
            BY <1>a, <2>1, <2>4, <2>5 DEF Visits, Seen, Visiting
        <3>2. Counted(other) /\ ~IsDue(other) /\ ~IsDue(other)'
            BY <1>a, <1>b, <1>c, <2>1, <2>4 DEF AllCounted, IsDue
        <3> QED
            BY <1>a, <1>b, <1>c, <2>1, <2>2, <2>4, <3>1, <3>2 DEF Counted
    <2> QED
        BY <2>1, <2>3, <2>4 DEF AllCounted
<1>5. ASSUME NEW e \in m_events, Check(e) PROVE AllCounted'
    <2>1. /\ UNCHANGED <<ctx, calls, m_ticks, setAt>>
          /\ loop = "check" /\ it = e
          /\ \/ m_events' = m_events \ {e} /\ it' = First(m_events, e + 1) /\ loop' = "visit"
             \/ m_events' = m_events /\ it' = it /\ loop' = "call"
        BY <1>5 DEF Check, others
    <2>2. \A other \in m_events : other < First(m_events, e + 1) <=> other < e + 1
        BY <1>0, <1>a, FirstIs
    <2>3. ASSUME NEW other \in m_events' PROVE Counted(other)'
        <3>1. other \in m_events /\ (loop' = "visit" => other # e)
            BY <2>1, <2>3
        <3>2. Counted(other)
            BY <3>1 DEF AllCounted
        <3>3. Visits(other)' = Visits(other) /\ (IsDue(other)' <=> IsDue(other))
            BY <1>a, <2>1, <2>2, <3>1 DEF Visits, Seen, Visiting, IsDue
        <3> QED
            BY <2>1, <3>2, <3>3 DEF Counted
    <2> QED
        BY <2>3 DEF AllCounted
<1>6. ASSUME NEW e \in m_events, Call(e) PROVE AllCounted'
    <2>1. /\ UNCHANGED <<m_ticks, setAt>>
          /\ loop = "call" /\ it = e
          /\ calls' = [calls EXCEPT ![e] = @ + 1]
          /\ m_events' = IF ctx[e].timeout THEN m_events \ {e} ELSE m_events
          /\ ctx' = [ctx EXCEPT ![e].elapsed = IF ctx[e].timeout THEN @ ELSE 0]
          /\ it' = First(m_events, e + 1) /\ loop' = "visit"
        BY <1>6 DEF Call, others
    <2>2. \A other \in m_events : other < First(m_events, e + 1) <=> other < e + 1
        BY <1>0, <1>a, FirstIs
    <2>3. /\ calls'[e] = calls[e] + 1 /\ ctx'[e].ticks = ctx[e].ticks
          /\ ctx'[e].timeout = ctx[e].timeout
          /\ ~ctx[e].timeout => ctx'[e].elapsed = 0
          /\ \A other \in SeqNums : other # e => ctx'[other] = ctx[other] /\ calls'[other] = calls[other]
        BY <1>a, <2>1 DEF TypeOK
    <2>4. ASSUME e \in m_events' PROVE Counted(e)'
        <3>1. ~ctx[e].timeout
            BY <2>1, <2>4
        <3>2. Visits(e)' = Visits(e)
            BY <1>a, <2>1, <2>2 DEF Visits, Seen, Visiting
        <3>3. /\ ctx[e].ticks > 0 /\ ctx[e].elapsed = ctx[e].ticks
              /\ calls[e] * ctx[e].ticks + ctx[e].elapsed = Visits(e)
            BY <2>1, <2>2 DEF AllCounted, Counted, IsDue
        <3>4. calls'[e] * ctx'[e].ticks + 0 = calls[e] * ctx[e].ticks + ctx[e].ticks
            BY <1>b, <2>3, OneMoreCall
        <3>5. calls'[e] * ctx'[e].ticks + ctx'[e].elapsed = Visits(e)'
            BY <2>3, <3>1, <3>2, <3>3, <3>4
        <3>6. ~IsDue(e)'
            BY <2>1 DEF IsDue
        <3>7. /\ ctx'[e].ticks > 0 /\ ctx'[e].elapsed < ctx'[e].ticks
              /\ ctx'[e].timeout => calls'[e] = 0
            BY <2>3, <3>1, <3>3
        <3> QED
            BY <3>5, <3>6, <3>7 DEF Counted
    <2>5. ASSUME NEW other \in m_events, other # e PROVE Counted(other)'
        <3>1. Visits(other)' = Visits(other) /\ ~IsDue(other) /\ ~IsDue(other)'
            BY <1>a, <2>1, <2>2, <2>5 DEF Visits, Seen, Visiting, IsDue
        <3>2. Counted(other)
            BY DEF AllCounted
        <3> QED
            BY <1>a, <1>b, <1>c, <2>3, <2>5, <3>1, <3>2 DEF Counted
    <2> QED
        BY <2>1, <2>4, <2>5 DEF AllCounted
<1>7. CASE Destroy \/ Join \/ Elapse \/ UNCHANGED vars
    <2>1. UNCHANGED <<m_events, ctx, calls, m_ticks, it, loop, setAt>>
        BY <1>7 DEF Destroy, Join, Elapse, vars, thread, events, others
    <2> QED
        BY <2>1 DEF AllCounted, Counted, Visits, Seen, IsDue, Visiting
<1>8. ASSUME NEW e \in SeqNums, Cancel(e) PROVE AllCounted'
    <2>1. UNCHANGED <<m_events, ctx, calls, m_ticks, it, loop, setAt>>
        BY <1>8 DEF Cancel, thread, events
    <2> QED
        BY <2>1 DEF AllCounted, Counted, Visits, Seen, IsDue, Visiting
<1>9. ASSUME NEW d \in Durations, NEW timeout \in BOOLEAN, Add(d, timeout) PROVE AllCounted'
    <2>0. PICK new \in Nat : new = kNextSeqNum
        BY <1>a
    <2>1. /\ UNCHANGED <<calls, m_ticks, it, loop>>
          /\ m_events' = m_events \cup {new} /\ new < MaxEvents
          /\ ctx' = [ctx EXCEPT ![new] =
                        [ticks |-> d \div m_tick, elapsed |-> 0, timeout |-> timeout]]
          /\ setAt' = [setAt EXCEPT ![new] =
                          IF Visiting /\ it # End THEN m_ticks - 1 ELSE m_ticks]
        BY <1>9, <2>0 DEF Add, thread
    <2>2. new \in SeqNums
        BY <1>a, <2>1 DEF SeqNums
    <2>3. /\ ctx'[new] = [ticks |-> d \div m_tick, elapsed |-> 0, timeout |-> timeout]
          /\ setAt'[new] = IF Visiting /\ it # End THEN m_ticks - 1 ELSE m_ticks
          /\ \A other \in SeqNums : other # new => ctx'[other] = ctx[other] /\ setAt'[other] = setAt[other]
        BY <2>1, <2>2 DEF TypeOK
    <2>4. Counted(new)'
        <3>1. ~IsDue(new)' /\ (Seen(new)' <=> ~Visiting \/ it = End)
            BY <1>0, <1>a, <2>0, <2>1, <2>2 DEF IsDue, Seen, Visiting, InSet
        <3>5. Visits(new)' = 0
            BY <1>a, <2>1, <2>3, <3>1 DEF Visits
        <3>2. calls'[new] = 0
            BY <1>a, <2>0, <2>1, <2>2 DEF FreshUncalled
        <3>3. ctx'[new].ticks \in Nat /\ ctx'[new].ticks > 0 /\ ctx'[new].elapsed = 0
            BY <2>3, FullTick
        <3>4. calls'[new] * ctx'[new].ticks = 0
            BY <3>2, <3>3
        <3> QED
            BY <3>1, <3>2, <3>3, <3>4, <3>5 DEF Counted
    <2>5. ASSUME NEW other \in m_events PROVE Counted(other)'
        <3>1. other # new
            BY <1>a, <2>0
        <3>2. Visits(other)' = Visits(other) /\ (IsDue(other)' <=> IsDue(other))
            BY <1>a, <2>1, <2>3, <3>1 DEF Visits, Seen, Visiting, IsDue
        <3>3. Counted(other)
            BY DEF AllCounted
        <3> QED
            BY <1>a, <1>b, <1>c, <2>1, <2>3, <3>1, <3>2, <3>3 DEF Counted
    <2> QED
        BY <2>1, <2>4, <2>5 DEF AllCounted
<1> QED
    BY <1>1, <1>2, <1>3, <1>4, <1>5, <1>6, <1>7, <1>8, <1>9
    DEF Next, Thread, set_interval, set_timeout

\* An event that has not been added yet has not been called.
LEMMA FreshStep == TimerInv /\ [Next]_vars => FreshUncalled'
<1> SUFFICES ASSUME TimerInv, [Next]_vars PROVE FreshUncalled'
    OBVIOUS
<1> USE TimerAssumption DEF TimerInv, TypeOK, FreshUncalled
<1>1. ASSUME NEW e \in m_events, Call(e) PROVE FreshUncalled'
    <2>1. /\ calls' = [calls EXCEPT ![e] = @ + 1] /\ kNextSeqNum' = kNextSeqNum
          /\ e \in Int /\ e < kNextSeqNum
        BY <1>1 DEF Call, others
    <2>2. \A x \in SeqNums : x >= kNextSeqNum => calls'[x] = calls[x]
        BY <2>1 DEF SeqNums
    <2> QED
        BY <2>1, <2>2
<1>2. ASSUME UNCHANGED calls, kNextSeqNum' \in {kNextSeqNum, kNextSeqNum + 1} PROVE FreshUncalled'
    BY <1>2 DEF SeqNums
<1>3. \/ UNCHANGED calls /\ kNextSeqNum' \in {kNextSeqNum, kNextSeqNum + 1}
      \/ \E e \in m_events : Call(e)
    BY DEF Next, Thread, Arm, WakeUp, EndLoop, Visited, Measure, Visit, Check, set_interval,
        set_timeout, Add, Cancel, Destroy, Join, Elapse, vars, thread, events, others
<1> QED
    BY <1>1, <1>2, <1>3

\* Nothing leaves its type.
LEMMA TypeStep == TimerInv /\ AllCounted' /\ [Next]_vars => TypeOK'
<1> SUFFICES ASSUME TimerInv, AllCounted', [Next]_vars PROVE TypeOK'
    OBVIOUS
<1> DEFINE Plain == /\ now \in Nat /\ m_ticks \in Nat /\ drift \in Int /\ deadline \in Nat
                    /\ loop \in {"arm", "wait", "visit", "check", "call", "measure", "ended"}
                    /\ it \in SeqNums \cup {End}
                    /\ cancelled \subseteq SeqNums /\ m_event \in BOOLEAN
                    /\ owner \in {"uses", "joins", "left"}
           Tables == /\ kNextSeqNum \in 0 .. MaxEvents
                     /\ m_events \subseteq 0 .. (kNextSeqNum - 1)
                     /\ ctx \in [SeqNums -> [ticks : Nat, elapsed : Nat, timeout : BOOLEAN]]
                     /\ calls \in [SeqNums -> Nat]
                     /\ setAt \in [SeqNums -> Nat]
<1>1. Plain'
    <2> USE TimerAssumption DEF TimerInv, TypeOK
    <2>8. m_events \in SUBSET SeqNums
        BY EventsAreSeqNums
    <2>0. ASSUME NEW n \in Nat PROVE First(m_events, n) \in SeqNums \cup {End}
        <3>1. First(m_events, n) \in m_events \cup {End}
            BY <2>8, FirstIs
        <3> QED
            BY <2>8, <3>1, Zenon
    <2>1. CASE Arm \/ WakeUp \/ EndLoop \/ Visited \/ Measure
        BY <2>0, <2>1 DEF Arm, WakeUp, EndLoop, Visited, Measure, others
    <2>2. ASSUME NEW e \in m_events, Visit(e) \/ Check(e) \/ Call(e) PROVE Plain'
        <3>1. e \in SeqNums /\ e + 1 \in Nat
            BY EventsAreSeqNums DEF SeqNums
        <3>2. First(m_events, e + 1) \in SeqNums \cup {End}
            BY <2>0, <3>1
        <3> QED
            BY <2>2, <3>2 DEF Visit, Check, Call, others
    <2>3. CASE Destroy \/ Join
        BY <2>3 DEF Destroy, Join, thread
    <2>6. CASE Elapse
        BY <2>6 DEF Elapse, thread, others
    <2>7. CASE UNCHANGED vars
        BY <2>7 DEF vars, thread, others
    <2>4. ASSUME NEW d \in Durations, set_interval(d) \/ set_timeout(d) PROVE Plain'
        BY <2>4 DEF set_interval, set_timeout, Add, thread
    <2>5. ASSUME NEW e \in SeqNums, Cancel(e) PROVE Plain'
        BY <2>5 DEF Cancel, thread
    <2> QED
        BY <2>1, <2>2, <2>3, <2>4, <2>5, <2>6, <2>7 DEF Next, Thread
<1>2. Tables'
    <2> USE TimerAssumption DEF TimerInv, TypeOK
    <2>1. CASE Arm \/ WakeUp \/ EndLoop \/ Visited \/ Measure
        BY <2>1 DEF Arm, WakeUp, EndLoop, Visited, Measure, events, others
    <2>2. ASSUME NEW e \in m_events, Visit(e) PROVE Tables'
        <3>1. e \in SeqNums /\ ctx[e].elapsed \in Nat
            BY EventsAreSeqNums
        <3>2. ctx' \in [SeqNums -> [ticks : Nat, elapsed : Nat, timeout : BOOLEAN]]
            BY <2>2, <3>1 DEF Visit
        <3> QED
            BY <2>2, <3>2 DEF Visit, others
    <2>3. ASSUME NEW e \in m_events, Check(e) PROVE Tables'
        BY <2>3 DEF Check, others
    <2>4. ASSUME NEW e \in m_events, Call(e) PROVE Tables'
        <3>1. e \in SeqNums /\ ctx[e].elapsed \in Nat /\ calls[e] \in Nat
            BY EventsAreSeqNums
        <3>2. ctx' \in [SeqNums -> [ticks : Nat, elapsed : Nat, timeout : BOOLEAN]]
            BY <2>4, <3>1 DEF Call
        <3> QED
            BY <2>4, <3>1, <3>2 DEF Call, others
    <2>5. CASE Destroy \/ Join \/ Elapse \/ UNCHANGED vars
        BY <2>5 DEF Destroy, Join, Elapse, vars, thread, events, others
    <2>6. ASSUME NEW d \in Durations, NEW timeout \in BOOLEAN, Add(d, timeout) PROVE Tables'
        <3>1. kNextSeqNum \in SeqNums
            BY <2>6 DEF Add, SeqNums
        <3>5. d \div m_tick \in Nat
            BY FullTick
        <3>2. /\ ctx' \in [SeqNums -> [ticks : Nat, elapsed : Nat, timeout : BOOLEAN]]
              /\ calls' \in [SeqNums -> Nat]
            BY <2>6, <3>1, <3>5 DEF Add
        <3>3. (IF Visiting /\ it # End THEN m_ticks - 1 ELSE m_ticks) \in Nat
            BY DEF InSet
        <3>4. setAt' \in [SeqNums -> Nat]
            BY <2>6, <3>1, <3>3 DEF Add
        <3> QED
            BY <2>6, <3>2, <3>4 DEF Add
    <2>7. ASSUME NEW e \in SeqNums, Cancel(e) PROVE Tables'
        BY <2>7 DEF Cancel, events
    <2> QED
        BY <2>1, <2>2, <2>3, <2>4, <2>5, <2>6, <2>7 DEF Next, Thread, set_interval, set_timeout
<1>3. \A e \in m_events' : ctx'[e].elapsed <= ctx'[e].ticks
    <2>1. ASSUME NEW e \in m_events' PROVE ctx'[e].elapsed <= ctx'[e].ticks
        <3>0. kNextSeqNum' \in 0 .. MaxEvents /\ e \in 0 .. (kNextSeqNum' - 1)
            BY <1>2
        <3>1. e \in SeqNums
            BY <3>0, BelowNext
        <3>2. ctx'[e].elapsed \in Nat /\ ctx'[e].ticks \in Nat
            BY <1>2, <3>1
        <3>3. Counted(e)'
            BY DEF AllCounted
        <3> QED
            BY <3>2, <3>3 DEF Counted
    <2> QED
        BY <2>1
<1> QED
    BY <1>1, <1>2, <1>3 DEF TypeOK

-----------------------------------------------------------------------------
(* The theorems *)

\* The state the constructor leaves satisfies the invariant.
LEMMA InitInv == Init => TimerInv
<1> SUFFICES ASSUME Init PROVE TimerInv
    OBVIOUS
<1> USE TimerAssumption DEF Init
<1>0. ctx \in [SeqNums -> [ticks : Nat, elapsed : Nat, timeout : BOOLEAN]]
    OBVIOUS
<1>4. calls \in [SeqNums -> Nat] /\ setAt \in [SeqNums -> Nat] /\ 0 \in 0 .. MaxEvents
    OBVIOUS
<1>5. /\ now \in Nat /\ m_ticks \in Nat /\ drift \in Int /\ deadline \in Nat
      /\ it \in SeqNums \cup {End} /\ m_events = {} /\ cancelled = {}
      /\ loop = "arm" /\ owner = "uses" /\ kNextSeqNum = 0
    OBVIOUS
<1>6. m_event \in BOOLEAN
    BY Zenon
<1> HIDE DEF Init
<1>1. TypeOK
    BY <1>0, <1>4, <1>5, <1>6 DEF TypeOK
<1> USE DEF Init
<1>2. InTime
    BY DEF InTime
<1>3. InSet /\ AllCounted /\ FreshUncalled
    BY DEF InSet, Visiting, AllCounted, FreshUncalled
<1> QED
    BY <1>1, <1>2, <1>3 DEF TimerInv

\* The account of the visits holds in every state of the loop (timer.h, 22-50).
THEOREM TimerInvariant == Spec => []TimerInv
<1>1. TimerInv /\ [Next]_vars => TimerInv'
    BY InTimeStep, InSetStep, CountedStep, FreshStep, TypeStep DEF TimerInv
<1> QED
    BY InitInv, <1>1, PTL DEF Spec

\* Whatever is added, cancelled or late, every state has its type, and no event
\* in the set is beyond its ticks (timer.h, line 31, looks for equality only).
THEOREM TypeCorrect == Spec => []TypeOK
<1>1. TimerInv => TypeOK
    BY DEF TimerInv
<1> QED
    BY TimerInvariant, <1>1, PTL

\* For every resolution and all durations, an event that is still in the set has
\* been called exactly once for each of its full intervals of ticks.
THEOREM KeepsSchedule == Spec => []OnSchedule
<1>1. ASSUME TimerInv, ~Visiting, NEW e \in m_events
      PROVE  LET ticks == m_ticks - setAt[e]
             IN  /\ calls[e] * ctx[e].ticks <= ticks
                 /\ ticks < (calls[e] + 1) * ctx[e].ticks
                 /\ ctx[e].timeout => calls[e] = 0
    <2>1. /\ e \in SeqNums /\ m_ticks \in Nat /\ setAt[e] \in Nat /\ calls[e] \in Nat
          /\ ctx[e].ticks \in Nat /\ ctx[e].elapsed \in Nat
        BY <1>1, EventsAreSeqNums DEF TimerInv, TypeOK
    <2>2. /\ calls[e] * ctx[e].ticks + ctx[e].elapsed = m_ticks - setAt[e]
          /\ ctx[e].elapsed < ctx[e].ticks
          /\ ctx[e].timeout => calls[e] = 0
        BY <1>1 DEF TimerInv, AllCounted, Counted, Visits, Seen, IsDue, Visiting
    <2>3. (calls[e] + 1) * ctx[e].ticks + 0 = calls[e] * ctx[e].ticks + ctx[e].ticks
        BY <2>1, OneMoreCall
    <2>4. calls[e] * ctx[e].ticks \in Nat /\ (calls[e] + 1) * ctx[e].ticks \in Nat
        BY <2>1, SMT
    <2> QED
        BY <2>1, <2>2, <2>3, <2>4
<1>2. TimerInv => OnSchedule
    BY <1>1 DEF OnSchedule
<1> QED
    BY TimerInvariant, <1>2, PTL

\* Once an event is cancelled the thread does not decide to call it any more.
THEOREM CancelTakesEffect == Spec => CancelledStops
<1>1. ASSUME TimerInv, [Next]_vars, NEW e \in cancelled, Decided(e)' PROVE Decided(e)
    <2> USE TimerAssumption DEF TimerInv, TypeOK, InSet, Decided, SeqNums
    <2>1. CASE Arm \/ WakeUp \/ EndLoop \/ Visited \/ Measure
        BY <1>1, <2>1 DEF Arm, WakeUp, EndLoop, Visited, Measure
    <2>2. ASSUME NEW x \in m_events, Visit(x) \/ Check(x) \/ Call(x) PROVE FALSE
        BY <1>1, <2>2 DEF Visit, Check, Call
    <2>3. CASE Destroy \/ Join \/ Elapse \/ UNCHANGED vars
        BY <1>1, <2>3 DEF Destroy, Join, Elapse, vars, thread, events
    <2>4. ASSUME NEW d \in Durations, NEW timeout \in BOOLEAN, Add(d, timeout) PROVE Decided(e)
        BY <1>1, <2>4 DEF Add, thread
    <2>5. ASSUME NEW x \in SeqNums, Cancel(x) PROVE Decided(e)
        BY <1>1, <2>5 DEF Cancel, thread, events
    <2> QED
        BY <1>1, <2>1, <2>2, <2>3, <2>4, <2>5 DEF Next, Thread, set_interval, set_timeout
<1>2. TimerInv /\ [Next]_vars => [\A e \in cancelled : Decided(e)' => Decided(e)]_vars
    BY <1>1
<1> QED
    BY TimerInvariant, <1>2, PTL DEF Spec, CancelledStops

\* The timer implements the safety of the source of ticks: it never ticks ahead
\* of time and never after it has been stopped, whatever the delays.
THEOREM NeverAhead == Spec => Source!SafeSpec
<1>1. Init => Source!Init
    BY DEF Init, Source!Init
<1>2. TimerInv /\ [Next]_vars => [Source!Next]_(Source!vars)
    <2> SUFFICES ASSUME TimerInv, [Next]_vars PROVE [Source!Next]_(Source!vars)
        OBVIOUS
    <2> USE DEF Source!Next, Source!vars
    <2>1. CASE WakeUp
        BY <2>1, TimerAssumption DEF WakeUp, Source!Tick, TimerInv, TypeOK, InTime, others
    <2>2. CASE Elapse
        BY <2>2 DEF Elapse, Source!Pass, TimerInv, TypeOK, thread, others
    <2>3. CASE Destroy
        BY <2>3 DEF Destroy, Source!Stop, thread
    <2>4. CASE Arm \/ EndLoop \/ Visited \/ Measure \/ Join \/ UNCHANGED vars
        BY <2>4 DEF Arm, EndLoop, Visited, Measure, Join, vars, thread, others
    <2>5. ASSUME NEW e \in m_events, Visit(e) \/ Check(e) \/ Call(e) PROVE UNCHANGED Source!vars
        BY <2>5 DEF Visit, Check, Call, others
    <2>6. ASSUME NEW d \in Durations, set_interval(d) \/ set_timeout(d) PROVE UNCHANGED Source!vars
        BY <2>6 DEF set_interval, set_timeout, Add, thread
    <2>7. ASSUME NEW e \in SeqNums, Cancel(e) PROVE UNCHANGED Source!vars
        BY <2>7 DEF Cancel, thread
    <2> QED
        BY <2>1, <2>2, <2>3, <2>4, <2>5, <2>6, <2>7 DEF Next, Thread
<1> QED
    BY TimerInvariant, <1>1, <1>2, PTL DEF Spec, Source!SafeSpec

=============================================================================
