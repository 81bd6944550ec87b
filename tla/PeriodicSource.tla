--------------------------- MODULE PeriodicSource ---------------------------
(***************************************************************************)
(* What a Timer promises: a source of ticks, one per period since the      *)
(* start, never one ahead of time, and none lost however late it gets,     *)
(* until it is stopped.                                                    *)
(***************************************************************************)
EXTENDS Naturals

CONSTANT Period

VARIABLES now, count, stopped

vars == <<now, count, stopped>>

Init == now = 0 /\ count = 0 /\ stopped = FALSE

Pass ==
    /\ now' \in Nat /\ now' > now
    /\ UNCHANGED <<count, stopped>>

Tick ==
    /\ ~stopped
    /\ (count + 1) * Period <= now
    /\ count' = count + 1
    /\ UNCHANGED <<now, stopped>>

Stop ==
    /\ stopped' = TRUE
    /\ UNCHANGED <<now, count>>

Next == Pass \/ Tick \/ Stop

SafeSpec == Init /\ [][Next]_vars

Spec == SafeSpec /\ WF_vars(Tick)

=============================================================================
