--------------------------- MODULE MCEventRouter ---------------------------
(***************************************************************************)
(* Three payment subscribers and one invoice subscriber, channels of one   *)
(* event, and a cap per type that the payment subscribers can reach.       *)
(***************************************************************************)
EXTENDS EventRouter, TLC

CONSTANTS p1, p2, p3, i1

MCTypeOf == [s \in Sub |-> IF s = i1 THEN "invoice" ELSE "payment"]
MCMaxDispatches == [payment |-> 4, invoice |-> 2]
Symmetry == Permutations({p1, p2, p3}) \cup Permutations(Dispatcher)
=============================================================================
