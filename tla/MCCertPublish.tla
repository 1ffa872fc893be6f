--------------------------- MODULE MCCertPublish ---------------------------
(***************************************************************************)
(* Two executions after an optional earlier init, and two CAs.             *)
(***************************************************************************)
EXTENDS CertPublish, TLC

Symmetry == Permutations(Run) \cup Permutations(CA)

\* Bound on what two executions do once they publish the same files at once,
\* of which the properties promise little: they succeed or begin to roll back,
\* but do not die, no step of their rollbacks fails, and one rolls back only
\* beside one that has succeeded.
Bound ==
    \A r \in mixed :
        /\ job[r].torn = 0
        /\ pc[r] \notin Ended \ {"done"}
        /\ pc[r] = "rollback" => \A q \in mixed \ {r} : pc[q] = "done"
=============================================================================
