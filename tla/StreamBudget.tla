---------------------------- MODULE StreamBudget ----------------------------
(***************************************************************************)
(* What the stream budget promises to the rest of the server, with no      *)
(* semaphores, no map and no cleanup: a set of open streams, at most       *)
(* MaxGlobal of them and at most MaxPerClient per client certificate.      *)
(* StreamLimits is shown to implement this, and StreamSession uses it in   *)
(* place of the semaphores.                                                *)
(***************************************************************************)
EXTENDS Naturals, FiniteSets

CONSTANTS
    Stream,         \* streaming requests
    Client,         \* client certificate fingerprints
    Owner,          \* the certificate each request comes from
    MaxGlobal,      \* max_global
    MaxPerClient    \* max_per_client

VARIABLE active     \* streams that hold a StreamPermit

OwnedBy(c) == {s \in Stream : Owner[s] = c}

Init == active = {}

\* acquire succeeds: both budgets had a slot left.
Open(s) ==
    /\ s \notin active
    /\ Cardinality(active) < MaxGlobal
    /\ Cardinality(active \cap OwnedBy(Owner[s])) < MaxPerClient
    /\ active' = active \cup {s}

\* The permit is dropped.
Close(s) ==
    /\ s \in active
    /\ active' = active \ {s}

Next == \E s \in Stream : Open(s) \/ Close(s)

Spec == Init /\ [][Next]_active
=============================================================================
