----------------------------- MODULE EventFlow -----------------------------
(***************************************************************************)
(* What the event bridge promises to the router, without its tasks, its    *)
(* queue and its dispatcher: every notification stream of CLN is a pipe.   *)
(* What goes in comes out in the same order, each notification once, until *)
(* the bridge is stopped, and nothing comes out after that.                *)
(***************************************************************************)
EXTENDS Naturals

CONSTANT Stream

VARIABLES
    taken,    \* notifications taken from each stream
    given,    \* notifications of each stream given to the router
    stopped   \* the bridge has been stopped

flow == <<taken, given, stopped>>

Init ==
    /\ taken = [s \in Stream |-> 0]
    /\ given = [s \in Stream |-> 0]
    /\ stopped = FALSE

Take(s) ==
    /\ taken' = [taken EXCEPT ![s] = @ + 1]
    /\ UNCHANGED <<given, stopped>>

Give(s) ==
    /\ ~stopped
    /\ given[s] < taken[s]
    /\ given' = [given EXCEPT ![s] = @ + 1]
    /\ UNCHANGED <<taken, stopped>>

Stop ==
    /\ ~stopped
    /\ stopped' = TRUE
    /\ UNCHANGED <<taken, given>>

Next == Stop \/ \E s \in Stream : Take(s) \/ Give(s)

Spec == Init /\ [][Next]_flow
=============================================================================
