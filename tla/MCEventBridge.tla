--------------------------- MODULE MCEventBridge ---------------------------
(***************************************************************************)
(* Two tasks, one with two streams and one with one, and a queue of one    *)
(* place, so that it is full while both tasks send; three notifications,   *)
(* so that both wait for it, and one streaming request.                    *)
(***************************************************************************)
EXTENDS EventBridge

MCTask == {"payment", "system"}
MCStream == {"success", "failure", "warning"}
MCStreamsOf == [t \in MCTask |->
                  IF t = "payment" THEN <<"success", "failure">> ELSE <<"warning">>]
=============================================================================
