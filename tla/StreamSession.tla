--------------------------- MODULE StreamSession ---------------------------
(***************************************************************************)
(* The life of a streaming request, src/grpc/node_service.rs: the handler  *)
(* reserves a slot, calls CLN when the method pays or creates an invoice,  *)
(* subscribes to the router and spawns a task that forwards events to the  *)
(* client until either side ends the stream; then the task unsubscribes    *)
(* and gives the slot back.                                                *)
(*                                                                         *)
(* The module composes the stream budget (StreamBudget, which StreamLimits *)
(* implements) with the router (EventRouter) and the queue between the CLN *)
(* notification tasks and the router (src/events/subscribers/mod.rs).      *)
(* Clients, CLN and the bridge run at their own pace; a client may go away *)
(* at any moment, which cancels the handler or closes the response.        *)
(***************************************************************************)
EXTENDS Integers, Sequences, FiniteSets

CONSTANTS
    Stream,                 \* streaming requests
    Kind,                   \* Kind[s]: "watch", "invoice" or "pay"
    Type, TypeOf,           \* event types; the type each request subscribes to
    Client, Owner,          \* certificates; the one each request comes from
    MaxGlobal,              \* GCOB_MAX_ACTIVE_STREAMS_GLOBAL
    MaxPerClient,           \* GCOB_MAX_ACTIVE_STREAMS_PER_CLIENT
    MaxSubscribersGlobal, MaxSubscribersPerType, SlowSubscriberMaxDrops,
    ChanCap,                \* capacity of the internal channel
    OutCap,                 \* capacity of the response channel
    BridgeCap,              \* capacity of the bridge channel
    PreimageForm,           \* forms in which CLN may send payment_preimage
    MaxNoise                \* bound: notifications about nobody's request

ASSUME StreamSessionAssumption ==
    /\ IsFiniteSet(Stream) /\ Stream \cap {"part", "other"} = {}
    /\ Kind \in [Stream -> {"watch", "invoice", "pay"}]
    /\ TypeOf \in [Stream -> Type]
    /\ Owner \in [Stream -> Client]
    /\ MaxGlobal \in Nat /\ MaxPerClient \in Nat
    /\ MaxSubscribersGlobal \in Nat /\ MaxSubscribersPerType \in Nat
    /\ SlowSubscriberMaxDrops \in Nat
    /\ ChanCap \in Nat \ {0} /\ OutCap \in Nat \ {0} /\ BridgeCap \in Nat \ {0}
    /\ PreimageForm \in (SUBSET {"text", "bytes"}) \ {{}}
    /\ MaxNoise \in Nat

\* What a notification is about: the invoice or payment of a request, a part
\* of a payment, or something else.
Body == Stream \cup {"part", "other"}
Dispatcher == {"bridge"}
MaxDispatches == [t \in Type |-> MaxNoise + Cardinality(Stream)]

VARIABLES
    \* the router and its channels, see EventRouter
    subscribers, tracked, drops, chan, rx, job, issued, last,
    active,     \* requests that hold a StreamPermit
    pc,         \* where the handler or the task of each request stands
    out,        \* the response channel of each request
    gone,       \* requests whose client went away
    bridge,     \* notifications waiting for the dispatcher
    effect,     \* requests whose call to CLN took effect
    notified,   \* requests whose outcome CLN has announced
    noise,      \* observation: notifications about nobody's request
    got         \* observation: what each client has read

routerVars == <<subscribers, tracked, drops, chan, rx, job, issued, last>>
serverVars == <<active, pc>>
clientVars == <<out, gone, got>>
clnVars == <<bridge, effect, notified, noise>>
vars == <<routerVars, serverVars, clientVars, clnVars>>

Router == INSTANCE EventRouter WITH Sub <- Stream
Budget == INSTANCE StreamBudget

-----------------------------------------------------------------------------
Goto(s, label) == pc' = [pc EXCEPT ![s] = label]

\* Nothing runs for a request any more, or not yet.
Ended == {"done", "failed", "refused"}
\* The handler is suspended in an await, and may be dropped there.
InAwait == {"backend", "effected", "subscribe"}
InHandler == InAwait \cup {"answered"}
\* The spawned task owns the permit.
InTask == {"created", "loop", "forward", "unsubscribe", "release"}

Init ==
    /\ Router!Init
    /\ Budget!Init
    /\ pc = [s \in Stream |-> "idle"]
    /\ out = [s \in Stream |-> <<>>]
    /\ gone = {}
    /\ bridge = <<>>
    /\ effect = {}
    /\ notified = {}
    /\ noise = 0
    /\ got = [s \in Stream |-> {}]

-----------------------------------------------------------------------------
(* The handler.                                                            *)

\* acquire_stream.  StreamBudget does not say when acquire must succeed: an
\* attempt may be refused because of another attempt that is itself refused.
Admit(s) ==
    /\ pc[s] = "idle"
    /\ Budget!Open(s)
    /\ Goto(s, IF Kind[s] = "watch" THEN "subscribe" ELSE "backend")
    /\ UNCHANGED <<routerVars, clientVars, clnVars>>

Overloaded(s) ==
    /\ pc[s] = "idle"
    /\ Goto(s, "refused")
    /\ UNCHANGED <<routerVars, active, clientVars, clnVars>>

\* create_invoice or xpay: CLN acts, and later the answer arrives or is lost.
BackendActs(s) ==
    /\ pc[s] = "backend"
    /\ effect' = effect \cup {s}
    /\ Goto(s, "effected")
    /\ UNCHANGED <<routerVars, active, clientVars, bridge, notified, noise>>

BackendFails(s) ==
    /\ pc[s] \in {"backend", "effected"}
    /\ Budget!Close(s)
    /\ Goto(s, "failed")
    /\ UNCHANGED <<routerVars, clientVars, clnVars>>

\* Mutant of BackendReturns: invoice_stream reveals the bolt11 before it has
\* subscribed.
BackendReturns_RevealsFirst(s) ==
    /\ pc[s] = "effected"
    /\ Goto(s, "answered")
    /\ got' = [got EXCEPT ![s] = @ \cup {"created"}]
    /\ UNCHANGED <<routerVars, active, out, gone, clnVars>>

BackendReturns(s) ==
    /\ pc[s] = "effected"
    /\ Goto(s, "answered")
    /\ UNCHANGED <<routerVars, active, clientVars, clnVars>>

\* The handler works on the answer and does not await meanwhile.
\* xpay_stream_watch decodes the preimage as hexadecimal text; raw bytes are
\* not, and make it answer an internal error.
Decodes(s) == Kind[s] = "pay" => "text" \in PreimageForm
FailsToDecode(s) == Kind[s] = "pay" /\ "bytes" \in PreimageForm

Prepare(s) ==
    /\ pc[s] = "answered"
    /\ \/ /\ Decodes(s)
          /\ Goto(s, "subscribe")
          /\ UNCHANGED active
       \/ /\ FailsToDecode(s)
          /\ Budget!Close(s)
          /\ Goto(s, "failed")
    /\ UNCHANGED <<routerVars, clientVars, clnVars>>

\* router.subscribe, then the task is spawned with no await in between.  A
\* refusal drops the permit.
Join(s) ==
    /\ pc[s] = "subscribe"
    /\ Router!Subscribe(s)
    /\ Goto(s, IF Kind[s] = "invoice" THEN "created" ELSE "loop")
    /\ UNCHANGED <<active, clientVars, clnVars>>

JoinRefused(s) ==
    /\ pc[s] = "subscribe"
    /\ Router!SubscribeRefused(s)
    /\ Budget!Close(s)
    /\ Goto(s, "refused")
    /\ UNCHANGED <<clientVars, clnVars>>

\* The client goes away while the handler awaits: its future is dropped, and
\* the permit with it.  A call already on its way to CLN may still act.
Cancelled(s) ==
    /\ s \in gone
    /\ pc[s] \in InAwait
    /\ Budget!Close(s)
    /\ Goto(s, "done")
    /\ \/ UNCHANGED effect
       \/ pc[s] = "backend" /\ effect' = effect \cup {s}
    /\ UNCHANGED <<routerVars, clientVars, bridge, notified, noise>>

-----------------------------------------------------------------------------
(* The task.                                                               *)

\* proto_tx.send: waits for room, fails once the client is gone.
Send(s, item) ==
    /\ s \notin gone
    /\ Len(out[s]) < OutCap
    /\ out' = [out EXCEPT ![s] = Append(@, item)]

SendFails(s) ==
    /\ s \in gone
    /\ UNCHANGED out

\* Mutant of SendCreated: the early return forgets to unsubscribe.
SendCreated_ForgetsSubscriber(s) ==
    /\ pc[s] = "created"
    /\ \/ Send(s, "created") /\ Goto(s, "loop")
       \/ SendFails(s) /\ Goto(s, "release")
    /\ UNCHANGED <<routerVars, active, gone, got, clnVars>>

\* invoice_stream starts with InvoiceCreated.
SendCreated(s) ==
    /\ pc[s] = "created"
    /\ \/ Send(s, "created") /\ Goto(s, "loop")
       \/ SendFails(s) /\ Goto(s, "unsubscribe")
    /\ UNCHANGED <<routerVars, active, gone, got, clnVars>>

\* to_proto_event drops the events about parts of a payment.
Converted(b) == b # "part"

\* A watch forwards everything that converts; invoice_stream and
\* xpay_stream_watch only the event about their own request, known by its
\* label or by the hash of the decoded preimage.
Forwards(s, b) == Converted(b) /\ (Kind[s] # "watch" => b = s)

\* next_event_or_cancel: whichever branch of select! is ready.
TakeEvent(s) ==
    /\ pc[s] = "loop"
    /\ Router!Recv(s)
    /\ Goto(s, IF Forwards(s, Head(chan[s]).body) THEN "forward" ELSE "loop")
    /\ UNCHANGED <<active, clientVars, clnVars>>

\* Mutant of Hangup: the task notices a closed response only when it sends.
Hangup_Unnoticed(s) == FALSE

Hangup(s) ==
    /\ pc[s] = "loop"
    /\ s \in gone
    /\ Goto(s, "unsubscribe")
    /\ UNCHANGED <<routerVars, active, clientVars, clnVars>>

\* Mutant of EndOfEvents: None from the channel does not end the loop.
EndOfEvents_Ignored(s) ==
    /\ pc[s] = "loop"
    /\ chan[s] = <<>>
    /\ ~Router!HasSender(s)
    /\ UNCHANGED vars

\* Mutant of EndOfEvents: a channel without senders is left although it still
\* holds events.
EndOfEvents_LosesQueue(s) ==
    /\ pc[s] = "loop"
    /\ ~Router!HasSender(s)
    /\ Goto(s, "unsubscribe")
    /\ UNCHANGED <<routerVars, active, clientVars, clnVars>>

EndOfEvents(s) ==
    /\ pc[s] = "loop"
    /\ chan[s] = <<>>
    /\ ~Router!HasSender(s)
    /\ Goto(s, "unsubscribe")
    /\ UNCHANGED <<routerVars, active, clientVars, clnVars>>

\* A watch goes on after a send; invoice_stream and xpay_stream_watch end
\* with the event they waited for.
Forward(s) ==
    /\ pc[s] = "forward"
    /\ \/ /\ Send(s, IF Kind[s] = "watch" THEN "event" ELSE "outcome")
          /\ Goto(s, IF Kind[s] = "watch" THEN "loop" ELSE "unsubscribe")
       \/ SendFails(s) /\ Goto(s, "unsubscribe")
    /\ UNCHANGED <<routerVars, active, gone, got, clnVars>>

\* Mutant of Leave: it is left to the next dispatch to find the channel closed.
Leave_LeavesItToDispatch(s) ==
    /\ pc[s] = "unsubscribe"
    /\ Goto(s, "release")
    /\ UNCHANGED <<routerVars, active, clientVars, clnVars>>

\* The end of the task: unsubscribe, drop the permit, drop the channels.
Leave(s) ==
    /\ pc[s] = "unsubscribe"
    /\ Router!Unsubscribe(s)
    /\ Goto(s, "release")
    /\ UNCHANGED <<active, clientVars, clnVars>>

ReleasePermit(s) ==
    /\ pc[s] = "release"
    /\ Budget!Close(s)
    /\ Goto(s, "drop")
    /\ UNCHANGED <<routerVars, clientVars, clnVars>>

DropChannels(s) ==
    /\ pc[s] = "drop"
    /\ Router!DropReceiver(s)
    /\ Goto(s, "done")
    /\ UNCHANGED <<active, clientVars, clnVars>>

-----------------------------------------------------------------------------
(* The client, CLN and the bridge.                                         *)

Read(s) ==
    /\ s \notin gone
    /\ out[s] # <<>>
    /\ got' = [got EXCEPT ![s] = @ \cup {Head(out[s])}]
    /\ out' = [out EXCEPT ![s] = Tail(@)]
    /\ UNCHANGED <<routerVars, serverVars, gone, clnVars>>

Disconnect(s) ==
    /\ s \notin gone
    /\ pc[s] \notin Ended \cup {"idle"}
    /\ gone' = gone \cup {s}
    /\ out' = [out EXCEPT ![s] = <<>>]
    /\ UNCHANGED <<routerVars, serverVars, got, clnVars>>

\* tx.send of a notification task: waits for room in the bridge channel.
Enqueue(t, b) ==
    /\ Len(bridge) < BridgeCap
    /\ bridge' = Append(bridge, [type |-> t, body |-> b])

\* A notification about the invoice or payment of a request.
Announce(s) ==
    /\ s \in effect \ notified
    /\ Enqueue(TypeOf[s], s)
    /\ notified' = notified \cup {s}
    /\ UNCHANGED <<routerVars, serverVars, clientVars, effect, noise>>

\* CLN announces what became of a payment.
NotifyPayment(s) == Kind[s] = "pay" /\ Announce(s)

\* CLN announces that an invoice was paid.  Nobody can pay it before its
\* client has read the bolt11.
NotifyPaid(s) == Kind[s] = "invoice" /\ "created" \in got[s] /\ Announce(s)

NotifyOther(t, b) ==
    /\ noise < MaxNoise
    /\ b = "part" => t = "payment"
    /\ Enqueue(t, b)
    /\ noise' = noise + 1
    /\ UNCHANGED <<routerVars, serverVars, clientVars, effect, notified>>

\* The dispatcher loop of start_all: receive, then dispatch to the end.
BridgeTake ==
    /\ bridge # <<>>
    /\ Router!Snapshot("bridge", Head(bridge).type, Head(bridge).body)
    /\ bridge' = Tail(bridge)
    /\ UNCHANGED <<serverVars, clientVars, effect, notified, noise>>

BridgeSend ==
    /\ \E s \in Stream : Router!TrySend("bridge", s)
    /\ UNCHANGED <<serverVars, clientVars, clnVars>>

BridgeFinish ==
    /\ Router!Finish("bridge")
    /\ UNCHANGED <<serverVars, clientVars, clnVars>>

-----------------------------------------------------------------------------
Handler(s) == Admit(s) \/ Overloaded(s) \/ BackendActs(s) \/ BackendFails(s)
              \/ BackendReturns(s) \/ Prepare(s)
              \/ Join(s) \/ JoinRefused(s) \/ Cancelled(s)
Task(s) == SendCreated(s) \/ TakeEvent(s) \/ Hangup(s) \/ EndOfEvents(s)
           \/ Forward(s) \/ Leave(s) \/ ReleasePermit(s) \/ DropChannels(s)
Peer(s) == Read(s) \/ Disconnect(s)
Cln == \/ \E s \in Stream : NotifyPayment(s) \/ NotifyPaid(s)
       \/ \E t \in Type, b \in {"part", "other"} : NotifyOther(t, b)
Bridge == BridgeTake \/ BridgeSend \/ BridgeFinish

Next == (\E s \in Stream : Handler(s) \/ Task(s) \/ Peer(s)) \/ Cln \/ Bridge

Spec == Init /\ [][Next]_vars

\* The runtime polls every ready task, and select! picks among its ready
\* branches at random, so a hangup is not ignored for ever.  CLN answers a
\* call and announces the outcome of a payment.  Nothing makes a client ask,
\* read or leave, or an invoice get paid.
Fairness ==
    /\ \A s \in Stream :
         /\ WF_vars(BackendReturns(s))
         /\ WF_vars(Prepare(s))
         /\ WF_vars(Join(s) \/ JoinRefused(s) \/ Cancelled(s))
         /\ WF_vars(Task(s))
         /\ WF_vars(Hangup(s))
         /\ WF_vars(NotifyPayment(s))
    /\ WF_vars(Bridge)

FairSpec == Spec /\ Fairness

\* Clients that read what they are sent while connected.
ClientsRead == \A s \in Stream : WF_vars(Read(s))
ReaderSpec == FairSpec /\ ClientsRead

-----------------------------------------------------------------------------
(***************************************************************************)
(* Types and queue lengths: neither the response channel of a stream nor   *)
(* the queue of the bridge exceeds its capacity, and CLN announces only    *)
(* what it has done.                                                       *)
(***************************************************************************)
TypeOK ==
    /\ Router!TypeOK
    /\ active \subseteq Stream
    /\ pc \in [Stream -> {"idle", "drop"} \cup Ended \cup InHandler \cup InTask]
    /\ out \in [Stream -> Seq({"created", "event", "outcome"})]
    /\ \A s \in Stream : Len(out[s]) <= OutCap
    /\ gone \subseteq Stream
    /\ bridge \in Seq([type : Type, body : Body])
    /\ Len(bridge) <= BridgeCap
    /\ notified \subseteq effect /\ effect \subseteq Stream
    /\ noise \in 0..MaxNoise
    /\ got \in [Stream -> SUBSET {"created", "event", "outcome"}]

(***************************************************************************)
(* A subscriber in the router always belongs to a task that holds a permit *)
(* (the permit is dropped after unsubscribe), and a permit always belongs  *)
(* to a handler or task that is still running.  So when a request is over, *)
(* however it ended, nothing of it is left (availability invariant 12).    *)
(***************************************************************************)
SubscriberHoldsPermit ==
    /\ subscribers \subseteq active
    /\ \A s \in active : pc[s] \in InHandler \cup InTask

\* Where each request has a permit, a sender in the map and a receiver.
Owns(s) ==
    /\ s \in active <=> pc[s] \in InHandler \cup InTask
    /\ s \in subscribers => pc[s] \in InTask \ {"release"}
    /\ pc[s] \in {"idle"} \cup InHandler => rx[s] = "none"
    /\ pc[s] \in InTask \cup {"drop"} => rx[s] = "open"

\* The budget that Open checks one request at a time.
BudgetKept ==
    /\ Cardinality(active) <= MaxGlobal
    /\ \A c \in Client : Cardinality(active \cap Budget!OwnedBy(c)) <= MaxPerClient

\* What a request holds, and where.
OwnershipInv ==
    /\ TypeOK
    /\ Router!IInv
    /\ BudgetKept
    /\ \A s \in Stream : Owns(s)
    /\ SubscriberHoldsPermit

-----------------------------------------------------------------------------
\* Where the news that an invoice was paid is, until its client is told.
Has(queue, item) == \E n \in DOMAIN queue : queue[n] = item
HoldsNews(queue, s) == \E n \in DOMAIN queue : queue[n].body = s
Dispatched(s) == Router!Busy("bridge") /\ job["bridge"].event.body = s
Told(s) == "outcome" \in got[s] \/ Has(out[s], "outcome")

OnItsWay(s) ==
    \/ HoldsNews(bridge, s)
    \/ Dispatched(s) /\ s \in job["bridge"].todo
    \/ HoldsNews(chan[s], s)
    \/ pc[s] = "forward"
    \/ Told(s)

\* The router has evicted the request, as one that reads too slowly.
GivenUp(s) == ~Router!HasSender(s) /\ drops[s] >= Router!MaxDrops

PaidInvoiceIsKeptStep ==
    \A s \in Stream :
        /\ Kind[s] = "invoice" /\ s \notin gone'
        /\ OnItsWay(s) \/ s \in notified' \ notified
        => \/ OnItsWay(s)'
           \/ Dispatched(s) /\ drops'[s] > drops[s]
           \/ HoldsNews(bridge, s) /\ GivenUp(s)

(***************************************************************************)
(* No step loses the news that an invoice was paid, from the announcement  *)
(* to the client: not in a queue, not between the snapshot and the send,   *)
(* not because the request subscribed too late, or left while its channel  *)
(* still held the event.  It is lost only when it is sent to a channel     *)
(* that is full, or dispatched after the request was evicted for being     *)
(* slow.                                                                   *)
(***************************************************************************)
PaidInvoiceIsKept == [][PaidInvoiceIsKeptStep]_vars

\* The client has the bolt11 or is about to read it; the task is past its loop.
Revealed(s) == "created" \in got[s] \/ Has(out[s], "created")
Ending == {"unsubscribe", "release", "drop", "done"}

\* News has the type its request subscribed to, and is about what CLN announced.
NewsTyped ==
    \A s \in Stream :
        /\ Dispatched(s) => job["bridge"].event.type = TypeOf[s] /\ s \in notified
        /\ \A n \in DOMAIN bridge :
              bridge[n].body = s => bridge[n].type = TypeOf[s] /\ s \in notified

\* The bolt11 is out only after the task has subscribed; until its client is
\* told it is subscribed or evicted, and it ends when nothing can reach it.
Listens(s) ==
    /\ Revealed(s) => pc[s] \in {"loop", "forward"} \cup Ending
    /\ s \in notified => "created" \in got[s]
    /\ s \notin gone /\ ~Told(s) =>
          /\ pc[s] \in InTask \cup Ending => s \in subscribers \/ GivenUp(s)
          /\ pc[s] \in Ending => chan[s] = <<>> /\ ~Router!HasSender(s)

\* A dispatch condemns nobody it still has to send to, and only for a reason.
Condemned ==
    Router!Busy("bridge") =>
        /\ job["bridge"].todo \cap job["bridge"].doomed = {}
        /\ \A s \in job["bridge"].doomed : rx[s] = "closed" \/ drops[s] >= Router!MaxDrops

DeliveryInv ==
    /\ NewsTyped
    /\ \A s \in Stream : Kind[s] = "invoice" => Listens(s)
    /\ Condemned

(***************************************************************************)
(* The invariant of the streaming handlers, and inductive: types and       *)
(* capacities, both budgets and the router's own invariant; nothing of a   *)
(* request outlives it; and who may be paid listens until it is told.      *)
(***************************************************************************)
SessionInv == OwnershipInv /\ DeliveryInv

\* Other requests that hold a permit fill one of the router's caps.
FilledByOthers(s) ==
    LET others == active \ {s} IN
    \/ Cardinality(others) >= Router!GlobalCap
    \/ Cardinality({o \in others : TypeOf[o] = TypeOf[s]}) >= Router!TypeCap

LateRefusalIsJustifiedStep ==
    \A s \in Stream :
        pc[s] # "refused" /\ pc'[s] = "refused" /\ s \in effect =>
            /\ s \in active /\ active' = active \ {s}
            /\ FilledByOthers(s)

(***************************************************************************)
(* The comment on acquire_stream: an over-limit request has no effect      *)
(* beyond the rejection.  The router asks again, after CLN has created the *)
(* invoice or paid, and limits.rs does not make its caps fit the budget.   *)
(* So the only request that is answered RESOURCE_EXHAUSTED after an effect *)
(* is one that had a permit, which it gives back, while other requests     *)
(* that hold permits fill a cap of the router: never because the router    *)
(* still counts a stream that is over or was evicted.                      *)
(***************************************************************************)
LateRefusalIsJustified == [][LateRefusalIsJustifiedStep]_vars

(***************************************************************************)
(* Availability invariants 8 and 9: a disconnect releases the permit and   *)
(* removes the subscriber, in whatever await it finds the request.         *)
(***************************************************************************)
DisconnectReleases ==
    \A s \in Stream : s \in gone ~> s \notin active \cup subscribers

BridgeBusy == bridge # <<>> \/ Router!Busy("bridge")

(***************************************************************************)
(* Availability invariant 7: a slow client blocks nobody.  Whatever the    *)
(* clients read or do not read, the dispatcher empties the bridge channel, *)
(* so the CLN notification tasks can go on sending.                        *)
(***************************************************************************)
BridgeDrains == BridgeBusy ~> ~BridgeBusy

(***************************************************************************)
(* A stream the router evicted ends: once its client has read what was     *)
(* already queued, the task sees the end of its channel and finishes.      *)
(***************************************************************************)
EvictedStreamEnds ==
    ClientsRead =>
        \A s \in Stream :
            pc[s] \in InTask /\ s \notin subscribers ~> pc[s] = "done"

(***************************************************************************)
(* invoice_stream does not miss the payment it waits for: a client that    *)
(* stays and reads gets InvoicePaid once CLN announced it, because the     *)
(* subscription precedes the InvoiceCreated that reveals the bolt11.  Only *)
(* a channel full of other events can lose it.                             *)
(***************************************************************************)
PaidInvoiceIsReported ==
    ClientsRead =>
        \A s \in Stream :
            Kind[s] = "invoice" /\ s \in notified
                ~> s \in gone \/ "outcome" \in got[s] \/ drops[s] > 0

(***************************************************************************)
(* services.proto on XpayStreamWatch: a payment plus the stream of its     *)
(* events.  Once CLN has answered that the payment is made, a client that  *)
(* stays and reads gets its outcome.                                       *)
(***************************************************************************)
PaymentOutcomeIsReported ==
    \A s \in Stream :
        Kind[s] = "pay" /\ pc[s] = "answered"
            ~> s \in gone \/ "outcome" \in got[s]
=============================================================================
