------------------------- MODULE MCRequestPipeline -------------------------
(***************************************************************************)
(* Three requests, budgets small enough to run out.                        *)
(***************************************************************************)
EXTENDS RequestPipeline

MCPolicyLimit == [payment |-> 1, getinfo |-> 1, stream |-> 2]
=============================================================================
