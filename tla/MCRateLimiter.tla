--------------------------- MODULE MCRateLimiter ---------------------------
(***************************************************************************)
(* Keys share nothing, so one is enough.                                   *)
(***************************************************************************)
EXTENDS RateLimiter
=============================================================================
