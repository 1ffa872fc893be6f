--------------------------- MODULE MCStreamLimits ---------------------------
(***************************************************************************)
(* Two clients, one of them with more requests than its two slots, and     *)
(* three global slots for four requests: either budget can be exhausted    *)
(* alone and both can be at once.  A third semaphore is there for a client *)
(* that would get a second one.                                            *)
(***************************************************************************)
EXTENDS StreamLimits

CONSTANTS s1, s2, s3, s4, c1, c2

MCOwner == [s \in Stream |-> IF s = s4 THEN c2 ELSE c1]
=============================================================================
