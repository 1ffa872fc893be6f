-------------------------- MODULE RequestPipeline --------------------------
(***************************************************************************)
(* The layers every request passes, in the order of src/grpc/server.rs:    *)
(* ClientIdentityLayer, AdmissionLayer, AuthLayer, RateLimitLayer, and the *)
(* service.  Many requests are in flight; each is suspended in the awaits  *)
(* of the layers (limiter, body, check_rune, limiter, CLN) and may be      *)
(* dropped there when its client goes away.                                *)
(*                                                                         *)
(* The limiter itself is RateLimiter.  Here a budget is a number of calls  *)
(* that it would allow next, which Refresh may change at any time: nothing *)
(* below depends on what the limiter allows, or whether Redis answers.     *)
(***************************************************************************)
EXTENDS Integers, FiniteSets

CONSTANTS
    Request,        \* requests
    Client,         \* certificate fingerprints
    Path,           \* gRPC paths that clients ask for
    MaxBody,        \* max_request_body_bytes
    MaxFrame,       \* bound: size of a frame of the body
    PreauthLimit,   \* GCOB_PREAUTH_LIMIT
    PolicyLimit     \* limits of PAYMENT_POLICY, GETINFO_POLICY, STREAM_POLICY

ASSUME RequestPipelineAssumption ==
    /\ IsFiniteSet(Request)
    /\ MaxBody \in Nat /\ MaxFrame \in Nat
    /\ PreauthLimit \in Nat \ {0}
    /\ PolicyLimit \in [{"payment", "getinfo", "stream"} -> Nat \ {0}]

\* rune_method_for_path.  Any other path is unknown.
MethodOf ==
    [Invoice |-> "invoice", InvoiceStream |-> "invoice", Getinfo |-> "getinfo",
     Xpay |-> "xpay", XpayStreamWatch |-> "xpay", XpayStream |-> "xpay_stream",
     InvoiceWatch |-> "invoice_watch", WatchChannels |-> "watch_channels",
     WatchPeers |-> "watch_peers", WatchSystem |-> "watch_system"]
Known == DOMAIN MethodOf
Unary == {"Invoice", "Getinfo", "Xpay"}
Method == {MethodOf[p] : p \in Known \cap Path}

\* policy_for_method: every known method has one.
PolicyOf(m) ==
    CASE m \in {"invoice", "xpay"} -> "payment"
      [] m = "getinfo" -> "getinfo"
      [] OTHER -> "stream"

\* Budgets: one per certificate for admission, one per certificate and method.
Key == ({"admit"} \cup Method) \X Client
LimitOf(k) == IF k[1] = "admit" THEN PreauthLimit ELSE PolicyLimit[PolicyOf(k[1])]

NoCert == "none"
\* The rune header: absent, repeated, not a possible rune, or one rune.
Header == {"absent", "repeated", "malformed", "rune"}

VARIABLES
    cert,       \* the certificate of each request
    path,       \* its path, once a layer has read it
    pc,         \* where it stands; in the end, the status it got
    body,       \* bytes of its body in memory
    tokens,     \* calls each budget would allow next
    spent,      \* observation: calls each budget has allowed
    asked,      \* observation: calls of check_rune for each certificate
    accepted,   \* observation: requests whose rune CLN accepted
    executed    \* observation: requests that the service carried out

what == <<cert, path>>
budgets == <<tokens, spent>>
seen == <<asked, accepted, executed>>
vars == <<what, pc, body, budgets, seen>>

InAwait == {"admission", "body", "check_rune", "quota", "service"}
Status == {"ok", "internal", "unauthenticated", "exhausted"}
Ended == Status \cup {"dropped"}

Init ==
    /\ cert = [r \in Request |-> NoCert]
    /\ path = [r \in Request |-> "Unknown"]
    /\ pc = [r \in Request |-> "idle"]
    /\ body = [r \in Request |-> 0]
    /\ tokens = [k \in Key |-> LimitOf(k)]
    /\ spent = [k \in Key |-> 0]
    /\ asked = [c \in Client |-> 0]
    /\ accepted = {}
    /\ executed = {}

-----------------------------------------------------------------------------
Goto(r, label) == pc' = [pc EXCEPT ![r] = label] /\ UNCHANGED body

\* The request ends, with a gRPC status or dropped, and its body is freed.
End(r, status) ==
    /\ pc' = [pc EXCEPT ![r] = status]
    /\ body' = [body EXCEPT ![r] = 0]

\* check_rate_limit_with_fallback, see RateLimiter.
Allows(k) == tokens[k] > 0
Spend(k) ==
    /\ tokens' = [tokens EXCEPT ![k] = @ - 1]
    /\ spent' = [spent EXCEPT ![k] = @ + 1]

\* Time passes, a window ends, Redis fails or is back with counts of its own:
\* the next calls find more or less left, and never more than the limit.
Refresh(k) ==
    /\ \E n \in 0..LimitOf(k) : tokens' = [tokens EXCEPT ![k] = n]
    /\ UNCHANGED <<what, pc, body, spent, seen>>

-----------------------------------------------------------------------------
\* A request arrives, and ClientIdentityLayer looks for its certificate.
Identify(r) ==
    /\ pc[r] = "idle"
    /\ \E c \in Client \cup {NoCert} :
         /\ cert' = [cert EXCEPT ![r] = c]
         /\ \/ c = NoCert /\ End(r, "unauthenticated")
            \/ c # NoCert /\ Goto(r, "admission")
    /\ UNCHANGED <<path, budgets, seen>>

\* AuthLayer, before its first await: the rune header must hold one possible
\* rune and the path must be known.
Examine(r) ==
    \E p \in Path, h \in Header :
        \/ /\ h = "rune" /\ p \in Known
           /\ path' = [path EXCEPT ![r] = p]
           /\ Goto(r, "body")
        \/ /\ h # "rune" \/ p \notin Known
           /\ End(r, "unauthenticated")
           /\ UNCHANGED path

\* Mutant of Admit: a request that passes the next layer is not charged.
Admit_ChargesRefusals(r) ==
    LET k == <<"admit", cert[r]>> IN
    /\ pc[r] = "admission"
    /\ \/ ~Allows(k) /\ End(r, "exhausted") /\ UNCHANGED <<path, budgets>>
       \/ Allows(k) /\ Examine(r)
          /\ IF pc'[r] = "body" THEN UNCHANGED budgets ELSE Spend(k)
    /\ UNCHANGED <<cert, seen>>

\* AdmissionLayer, which then calls AuthLayer.
Admit(r) ==
    LET k == <<"admit", cert[r]>> IN
    /\ pc[r] = "admission"
    /\ \/ ~Allows(k) /\ End(r, "exhausted") /\ UNCHANGED <<path, budgets>>
       \/ Allows(k) /\ Spend(k) /\ Examine(r)
    /\ UNCHANGED <<cert, seen>>

\* Mutant of TooLarge: the frame at hand is not counted.
TooLarge_LateByAFrame(r, n) == body[r] > MaxBody

TooLarge(r, n) == body[r] + n > MaxBody

\* read_body_limited: one frame of n bytes.
ReadFrame(r) ==
    /\ pc[r] = "body"
    /\ \E n \in 1..MaxFrame :
         \/ TooLarge(r, n) /\ End(r, "exhausted")
         \/ ~TooLarge(r, n) /\ body' = [body EXCEPT ![r] = @ + n] /\ UNCHANGED pc
    /\ UNCHANGED <<what, budgets, seen>>

BodyFails(r) ==
    /\ pc[r] = "body"
    /\ End(r, "internal")
    /\ UNCHANGED <<what, budgets, seen>>

\* The body is complete: the parameters are taken from it, and validate_rune
\* calls check_rune.
EndOfBody(r) ==
    /\ pc[r] = "body"
    /\ Goto(r, "check_rune")
    /\ asked' = [asked EXCEPT ![cert[r]] = @ + 1]
    /\ UNCHANGED <<what, budgets, accepted, executed>>

RuneAccepted(r) ==
    /\ pc[r] = "check_rune"
    /\ accepted' = accepted \cup {r}
    /\ Goto(r, "quota")
    /\ UNCHANGED <<what, budgets, asked, executed>>

\* Mutant of RuneRefused: a failed call is taken for a valid rune.
RuneRefused_FailsOpen(r) ==
    /\ pc[r] = "check_rune"
    /\ Goto(r, "quota")
    /\ UNCHANGED <<what, budgets, seen>>

\* CLN calls the rune invalid, or the call fails.
RuneRefused(r) ==
    /\ pc[r] = "check_rune"
    /\ End(r, "unauthenticated")
    /\ UNCHANGED <<what, budgets, seen>>

QuotaKey(r) == <<MethodOf[path[r]], cert[r]>>

\* Mutant of CheckQuota: an exhausted budget makes the request wait.
CheckQuota_Waits(r) ==
    /\ pc[r] = "quota"
    /\ Allows(QuotaKey(r))
    /\ Spend(QuotaKey(r))
    /\ Goto(r, "service")
    /\ UNCHANGED <<what, seen>>

\* Mutant of CheckQuota: the budget is looked at and not spent.
CheckQuota_Peeks(r) ==
    /\ pc[r] = "quota"
    /\ \/ Allows(QuotaKey(r)) /\ Goto(r, "service")
       \/ ~Allows(QuotaKey(r)) /\ End(r, "exhausted")
    /\ UNCHANGED <<what, budgets, seen>>

\* RateLimitLayer.
CheckQuota(r) ==
    /\ pc[r] = "quota"
    /\ \/ /\ Allows(QuotaKey(r))
          /\ Spend(QuotaKey(r))
          /\ Goto(r, "service")
       \/ /\ ~Allows(QuotaKey(r))
          /\ End(r, "exhausted")
          /\ UNCHANGED budgets
    /\ UNCHANGED <<what, seen>>

\* The method of NodeServices calls CLN and answers.  An error is mapped to an
\* internal one, and a stream can be refused for want of a slot or of room in
\* the router; CLN may then have acted or not (see StreamSession).
Serve(r) ==
    /\ pc[r] = "service"
    /\ \/ End(r, "ok") /\ executed' = executed \cup {r}
       \/ /\ \/ End(r, "internal")
             \/ path[r] \notin Unary /\ End(r, "exhausted")
          /\ executed' \in {executed, executed \cup {r}}
    /\ UNCHANGED <<what, budgets, asked, accepted>>

\* The client goes away: the future of the request is dropped where it waits.
\* What it has spent stays spent; what it has asked for, of the limiter or of
\* CLN, may be carried out all the same.
Cancel(r) ==
    /\ pc[r] \in InAwait
    /\ End(r, "dropped")
    /\ \/ UNCHANGED <<budgets, executed>>
       \/ pc[r] = "service" /\ executed' = executed \cup {r} /\ UNCHANGED budgets
       \/ /\ pc[r] \in {"admission", "quota"}
          /\ LET k == IF pc[r] = "quota" THEN QuotaKey(r) ELSE <<"admit", cert[r]>> IN
             Allows(k) /\ Spend(k)
          /\ UNCHANGED executed
    /\ UNCHANGED <<what, asked, accepted>>

-----------------------------------------------------------------------------
Server(r) == Admit(r) \/ CheckQuota(r)
Cln(r) == RuneAccepted(r) \/ RuneRefused(r) \/ Serve(r)
Peer(r) == Identify(r) \/ ReadFrame(r) \/ BodyFails(r) \/ EndOfBody(r) \/ Cancel(r)

Next ==
    \/ \E r \in Request : Server(r) \/ Cln(r) \/ Peer(r)
    \/ \E k \in Key : Refresh(k)

Spec == Init /\ [][Next]_vars

\* The runtime runs what is ready and CLN answers a call, or the call fails.
\* A body ends, or its connection breaks: nothing but the transport's
\* keepalive bounds the wait for it.
FairSpec ==
    Spec /\ \A r \in Request :
              WF_vars(Server(r)) /\ WF_vars(Cln(r)) /\ WF_vars(EndOfBody(r) \/ BodyFails(r))

-----------------------------------------------------------------------------
(***************************************************************************)
(* Types.  A budget is never overdrawn, and no request keeps more of its   *)
(* body in memory than max_request_body_bytes (read_body_limited).         *)
(***************************************************************************)
TypeOK ==
    /\ cert \in [Request -> Client \cup {NoCert}]
    /\ path \in [Request -> Path \cup {"Unknown"}]
    /\ pc \in [Request -> {"idle"} \cup InAwait \cup Ended]
    /\ body \in [Request -> 0..MaxBody]
    /\ tokens \in [Key -> Nat] /\ \A k \in Key : tokens[k] <= LimitOf(k)
    /\ spent \in [Key -> Nat]
    /\ asked \in [Client -> 0..Cardinality(Request)]
    /\ executed \subseteq Request /\ accepted \subseteq Request

(***************************************************************************)
(* Availability invariant 5: CLN is asked to check a rune no more often    *)
(* than the certificate's admission budget allowed, whatever requests are  *)
(* refused, dropped or repeated.                                           *)
(***************************************************************************)
AskedWithinBudget == \A c \in Client : asked[c] <= spent[<<"admit", c>>]

(***************************************************************************)
(* The comment in server.rs: only authenticated requests consume method    *)
(* quota.  What a method's budget has spent is at most the number of       *)
(* requests of that method and certificate whose rune CLN accepted.        *)
(***************************************************************************)
OnlyAuthenticatedConsume ==
    \A m \in Method, c \in Client :
        spent[<<m, c>>] <=
            Cardinality({r \in accepted : <<MethodOf[path[r]], cert[r]>> = <<m, c>>})

\* Methods with the same effect, unary and streaming.
Together == [invoice |-> {"Invoice", "InvoiceStream"}, xpay |-> {"Xpay", "XpayStreamWatch"}]

(***************************************************************************)
(* One quota for all ways to create an invoice, and one for all ways to    *)
(* pay: what the service carried out for a certificate, by unary method or *)
(* by stream, was allowed by that one budget.                              *)
(***************************************************************************)
EffectsWithinQuota ==
    \A m \in Method \cap DOMAIN Together, c \in Client :
        Cardinality({r \in executed : path[r] \in Together[m] /\ cert[r] = c})
            <= spent[<<m, c>>]

-----------------------------------------------------------------------------
\* Why the budgets hold: what each request in flight stands for.

\* Admitted requests that have not asked CLN yet, and those that may have.
Reading(c) == {r \in Request : pc[r] = "body" /\ cert[r] = c}
Beyond(c) == {r \in Request : pc[r] \notin {"idle", "admission", "body"} /\ cert[r] = c}

\* Accepted requests past the quota, and requests whose effect it has allowed.
Consumers(k) == {r \in accepted : QuotaKey(r) = k /\ pc[r] # "quota"}
Carried(k) == {r \in Request : (r \in executed \/ pc[r] = "service") /\ QuotaKey(r) = k}

\* What the layers a request has passed have found out about it.
LayersPassed ==
    \A r \in Request :
        /\ pc[r] \in InAwait => cert[r] \in Client
        /\ pc[r] \in InAwait \ {"admission"} => path[r] \in Known
        /\ pc[r] \in {"quota", "service"} => r \in accepted
        /\ r \in accepted =>
              pc[r] \in {"quota", "service"} \cup Ended /\ path[r] \in Known /\ cert[r] \in Client
        /\ r \in executed => r \in accepted /\ pc[r] \in Ended

\* What each budget has allowed is accounted for by requests, where they are.
AdmissionAccount ==
    \A c \in Client :
        /\ asked[c] + Cardinality(Reading(c)) <= spent[<<"admit", c>>]
        /\ asked[c] <= Cardinality(Beyond(c))
QuotaAccount ==
    \A m \in Method, c \in Client :
        /\ spent[<<m, c>>] <= Cardinality(Consumers(<<m, c>>))
        /\ Cardinality(Carried(<<m, c>>)) <= spent[<<m, c>>]

(***************************************************************************)
(* The invariant of the four layers, and inductive: types and the limit on *)
(* bodies; who has passed which layer; and for each budget, that what it   *)
(* has allowed is accounted for.                                           *)
(***************************************************************************)
PipelineInv == TypeOK /\ LayersPassed /\ AdmissionAccount /\ QuotaAccount

(***************************************************************************)
(* Every request is decided without waiting for a budget, answered, or     *)
(* dropped because its client left: after the last one nobody is left      *)
(* waiting in a layer.                                                     *)
(***************************************************************************)
RequestsAreDecided == <>[](\A r \in Request : pc[r] \notin InAwait)
=============================================================================
