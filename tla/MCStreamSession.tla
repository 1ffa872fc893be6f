-------------------------- MODULE MCStreamSession --------------------------
(***************************************************************************)
(* One request of each kind: w watches payments (or invoices, with         *)
(* MCInvoices), i is an invoice_stream, p an xpay_stream_watch.  A run     *)
(* takes the ones its question needs.                                      *)
(***************************************************************************)
EXTENDS StreamSession

CONSTANTS w, i, p, c1, c2

MCKind == [s \in Stream |->
    CASE s = w -> "watch" [] s = i -> "invoice" [] s = p -> "pay"]
MCTypeOf == [s \in Stream |-> IF s = i THEN "invoice" ELSE "payment"]
MCInvoices == [s \in Stream |-> "invoice"]
MCOwner == [s \in Stream |-> IF s = p THEN c2 ELSE c1]
=============================================================================
