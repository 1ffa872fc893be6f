------------------------ MODULE StreamSessionProofs ------------------------
(***************************************************************************)
(* Proofs about StreamSession for any requests, certificates and limits.   *)
(* What is proved of the router in EventRouterProofs is used as it stands: *)
(* no step of a handler or of the bridge is anything but an operation of   *)
(* the router, or leaves it alone.                                         *)
(***************************************************************************)
EXTENDS StreamSession, FiniteSetTheorems, TLAPS

RP == INSTANCE EventRouterProofs WITH Sub <- Stream

(***************************************************************************)
(* The router is configured as its module assumes.                         *)
(***************************************************************************)
LEMMA RouterConfigured == RP!EventRouterAssumption
<1>1. RP!IsFiniteSet(Stream)
  BY StreamSessionAssumption DEF RP!IsFiniteSet, IsFiniteSet
<1>2. MaxDispatches \in [Type -> Nat]
  BY FS_CardinalityType, StreamSessionAssumption DEF MaxDispatches
<1> QED
  BY <1>1, <1>2, StreamSessionAssumption DEF RP!EventRouterAssumption

(***************************************************************************)
(* The two instances of the router, with and without its proofs, say the   *)
(* same.                                                                   *)
(***************************************************************************)
LEMMA SameCardinality ==
    /\ \A S : Router!Cardinality(S) = Cardinality(S)
    /\ \A S : RP!Cardinality(S) = Cardinality(S)
BY DEF Router!Cardinality, RP!Cardinality, Cardinality

LEMMA SameInvariant == Router!IInv <=> RP!IInv
BY SameCardinality
DEF Router!IInv, RP!IInv, Router!TypeOK, RP!TypeOK, Router!CounterExact,
    RP!CounterExact, Router!WithinCaps, RP!WithinCaps, Router!Joined, RP!Joined,
    Router!Event, RP!Event, Router!Job, RP!Job, Router!Dispatching,
    RP!Dispatching, Router!Resting, RP!Resting, Router!ListOf, RP!ListOf,
    Router!GlobalCap, RP!GlobalCap, Router!TypeCap, RP!TypeCap,
    Router!AtLeastOne, RP!AtLeastOne

LEMMA SameInvariantNext == Router!IInv' <=> RP!IInv'
BY SameInvariant, PTL

LEMMA SameInit == Router!Init <=> RP!Init
BY DEF Router!Init, RP!Init, Router!Resting, RP!Resting

LEMMA SameSubscriber ==
    ASSUME NEW s \in Stream
    PROVE  Router!Subscriber(s) <=> RP!Subscriber(s)
BY SameCardinality
DEF Router!Subscriber, RP!Subscriber, Router!Subscribe, RP!Subscribe,
    Router!SubscribeRefused, RP!SubscribeRefused, Router!Unsubscribe,
    RP!Unsubscribe, Router!Recv, RP!Recv, Router!DropReceiver, RP!DropReceiver,
    Router!Refused, RP!Refused, Router!Remove, RP!Remove, Router!ListOf,
    RP!ListOf, Router!GlobalCap, RP!GlobalCap, Router!TypeCap, RP!TypeCap,
    Router!AtLeastOne, RP!AtLeastOne, Router!observed, RP!observed

LEMMA SameDispatch ==
    ASSUME NEW d \in Dispatcher
    PROVE  Router!Dispatch(d) <=> RP!Dispatch(d)
<1>1. \A t \in Type, b \in Body : Router!Snapshot(d, t, b) <=> RP!Snapshot(d, t, b)
  BY DEF Router!Snapshot, RP!Snapshot, Router!Busy, RP!Busy, Router!ListOf,
         RP!ListOf, Router!Sending, RP!Sending
<1>2. \A s \in Stream : Router!TrySend(d, s) <=> RP!TrySend(d, s)
  BY DEF Router!TrySend, RP!TrySend, Router!Busy, RP!Busy, Router!Deliver,
         RP!Deliver, Router!Full, RP!Full, Router!Dead, RP!Dead, Router!Sent,
         RP!Sent, Router!Doomed, RP!Doomed, Router!MaxDrops, RP!MaxDrops,
         Router!AtLeastOne, RP!AtLeastOne
<1>3. Router!Finish(d) <=> RP!Finish(d)
  BY SameCardinality
  DEF Router!Finish, RP!Finish, Router!Busy, RP!Busy, Router!Remove, RP!Remove,
      Router!Resting, RP!Resting, Router!observed, RP!observed
<1> QED
  BY <1>1, <1>2, <1>3 DEF Router!Dispatch, RP!Dispatch

(***************************************************************************)
(* Every step of the server is a step of the router or leaves it alone.    *)
(***************************************************************************)
LEMMA RouterStep ==
    ASSUME TypeOK, [Next]_vars
    PROVE  [RP!Next]_(RP!vars)
<1> SUFFICES \/ UNCHANGED routerVars
             \/ \E s \in Stream : Router!Subscriber(s)
             \/ \E d \in Dispatcher : Router!Dispatch(d)
  BY SameSubscriber, SameDispatch DEF RP!Next, RP!vars, routerVars
<1>1. CASE UNCHANGED vars
  BY <1>1 DEF vars, routerVars
<1>2. ASSUME NEW s \in Stream, Handler(s)
      PROVE  UNCHANGED routerVars \/ Router!Subscriber(s)
  BY <1>2 DEF Handler, Admit, Overloaded, BackendActs, BackendFails,
     BackendReturns, Prepare, Join, JoinRefused, Cancelled, Router!Subscriber
<1>3. ASSUME NEW s \in Stream, Task(s)
      PROVE  UNCHANGED routerVars \/ Router!Subscriber(s)
  BY <1>3 DEF Task, SendCreated, TakeEvent, Hangup, EndOfEvents, Forward, Leave,
     ReleasePermit, DropChannels, Router!Subscriber
<1>4. ASSUME NEW s \in Stream, Peer(s) PROVE UNCHANGED routerVars
  BY <1>4 DEF Peer, Read, Disconnect
<1>5. CASE Cln
  BY <1>5 DEF Cln, NotifyPayment, NotifyPaid, Announce, NotifyOther
<1>6. CASE Bridge
  <2>1. "bridge" \in Dispatcher
    BY DEF Dispatcher
  <2>2. CASE BridgeTake
    <3>1. Head(bridge) \in [type : Type, body : Body]
      <4> DEFINE S == [type : Type, body : Body]
      <4>1. bridge \in Seq(S) /\ bridge # <<>>
        BY <2>2 DEF BridgeTake, TypeOK
      <4> HIDE DEF S
      <4>2. Head(bridge) \in S
        BY <4>1
      <4> QED
        BY <4>2 DEF S
    <3>2. Router!Snapshot("bridge", Head(bridge).type, Head(bridge).body)
      BY <2>2 DEF BridgeTake
    <3>3. \E t \in Type, b \in Body : Router!Snapshot("bridge", t, b)
      BY <3>1, <3>2
    <3> QED
      BY <2>1, <3>3 DEF Router!Dispatch
  <2>3. CASE BridgeSend
    BY <2>1, <2>3 DEF BridgeSend, Router!Dispatch
  <2>4. CASE BridgeFinish
    BY <2>1, <2>4 DEF BridgeFinish, Router!Dispatch
  <2> QED
    BY <1>6, <2>2, <2>3, <2>4 DEF Bridge
<1> QED
  BY <1>1, <1>2, <1>3, <1>4, <1>5, <1>6 DEF Next

(***************************************************************************)
(* So the router's invariant holds in the server.                          *)
(***************************************************************************)
LEMMA RouterKept ==
    ASSUME TypeOK, Router!IInv, [Next]_vars
    PROVE  Router!IInv'
<1>1. RP!IInv'
  <2>1. RP!IInv
    BY SameInvariant
  <2>2. [RP!Next]_(RP!vars)
    BY RouterStep
  <2> QED
    BY <2>1, <2>2, RouterConfigured, RP!Inductive
<1>2. Router!IInv' <=> RP!IInv'
  BY SameInvariantNext
<1> QED
  BY <1>1, <1>2

-----------------------------------------------------------------------------
(* What a request holds, and where.                                        *)

\* The types of what the server keeps beside the router.
OwnTypes ==
    /\ active \subseteq Stream
    /\ pc \in [Stream -> {"idle", "drop"} \cup Ended \cup InHandler \cup InTask]
    /\ out \in [Stream -> Seq({"created", "event", "outcome"})]
    /\ \A s \in Stream : Len(out[s]) <= OutCap
    /\ gone \subseteq Stream
    /\ bridge \in Seq([type : Type, body : Body])
    /\ Len(bridge) <= BridgeCap
    /\ notified \subseteq effect /\ effect \subseteq Stream
    /\ noise \in 0..MaxNoise
    /\ got \in [Stream -> SUBSET {"created", "event", "outcome"}]

\* OwnershipInv without the router's own invariant.
ServerPart == OwnTypes /\ BudgetKept /\ \A s \in Stream : Owns(s)

(***************************************************************************)
(* The rest of OwnershipInv follows: a subscriber is a request in its      *)
(* task, and holds a permit like every request in a handler or a task.     *)
(***************************************************************************)
LEMMA Parts == OwnershipInv <=> Router!IInv /\ ServerPart
<1>1. TypeOK <=> Router!TypeOK /\ OwnTypes
  BY DEF TypeOK, OwnTypes
<1>2. ASSUME Router!TypeOK, ServerPart PROVE SubscriberHoldsPermit
  BY <1>2 DEF ServerPart, OwnTypes, Owns, SubscriberHoldsPermit, Router!TypeOK, InTask
<1> QED
  BY <1>1, <1>2 DEF OwnershipInv, ServerPart, Router!IInv

LEMMA PartsNext == OwnershipInv' <=> Router!IInv' /\ ServerPart'
BY Parts, PTL

(***************************************************************************)
(* A permit is given only within both budgets, and giving one back keeps   *)
(* them.                                                                   *)
(***************************************************************************)
LEMMA OpenKeepsBudget ==
    ASSUME active \subseteq Stream, BudgetKept, NEW s \in Stream, Budget!Open(s)
    PROVE  BudgetKept'
<1> USE StreamSessionAssumption
<1>1. IsFiniteSet(active) /\ s \notin active /\ active' = active \cup {s}
  BY FS_Subset DEF Budget!Open
<1>2. Cardinality(active) < MaxGlobal
  BY DEF Budget!Open, Budget!Cardinality, Cardinality
<1>3. Cardinality(active \cap Budget!OwnedBy(Owner[s])) < MaxPerClient
  BY DEF Budget!Open, Budget!Cardinality, Cardinality
<1>4. Cardinality(active') <= MaxGlobal
  <2>1. Cardinality(active') = Cardinality(active) + 1 /\ Cardinality(active) \in Nat
    BY <1>1, FS_AddElement, FS_CardinalityType
  <2> QED
    BY <1>2, <2>1
<1>5. ASSUME NEW c \in Client
      PROVE  Cardinality(active' \cap Budget!OwnedBy(c)) <= MaxPerClient
  <2>1. /\ IsFiniteSet(active \cap Budget!OwnedBy(c))
        /\ Cardinality(active \cap Budget!OwnedBy(c)) \in Nat
    BY <1>1, FS_Subset, FS_CardinalityType
  <2>2. CASE c = Owner[s]
    <3>1. /\ active' \cap Budget!OwnedBy(c) = (active \cap Budget!OwnedBy(c)) \cup {s}
          /\ s \notin active \cap Budget!OwnedBy(c)
      BY <1>1, <2>2 DEF Budget!OwnedBy
    <3>2. Cardinality(active' \cap Budget!OwnedBy(c))
              = Cardinality(active \cap Budget!OwnedBy(c)) + 1
      BY <2>1, <3>1, FS_AddElement
    <3> QED
      BY <1>3, <2>1, <2>2, <3>2
  <2>3. CASE c # Owner[s]
    <3>1. active' \cap Budget!OwnedBy(c) = active \cap Budget!OwnedBy(c)
      BY <1>1, <2>3 DEF Budget!OwnedBy
    <3> QED
      BY <3>1 DEF BudgetKept
  <2> QED
    BY <2>2, <2>3
<1> QED
  BY <1>4, <1>5 DEF BudgetKept, Budget!OwnedBy

LEMMA CloseKeepsBudget ==
    ASSUME active \subseteq Stream, BudgetKept, active' \subseteq active
    PROVE  BudgetKept'
<1> USE StreamSessionAssumption
<1>1. IsFiniteSet(active)
  BY FS_Subset
<1>2. \A T : T \subseteq active => IsFiniteSet(T) /\ Cardinality(T) \in Nat
  BY <1>1, FS_Subset, FS_CardinalityType
<1>3. Cardinality(active') <= MaxGlobal
  <2>1. Cardinality(active') <= Cardinality(active)
    BY <1>1, FS_Subset
  <2> QED
    BY <1>2, <2>1 DEF BudgetKept
<1>4. ASSUME NEW c \in Client
      PROVE  Cardinality(active' \cap Budget!OwnedBy(c)) <= MaxPerClient
  <2> DEFINE mine == active \cap Budget!OwnedBy(c)
             left == active' \cap Budget!OwnedBy(c)
  <2>1. left \subseteq mine /\ IsFiniteSet(mine)
    BY <1>2
  <2>2. Cardinality(left) <= Cardinality(mine)
    BY <2>1, FS_Subset
  <2>3. Cardinality(left) \in Nat /\ Cardinality(mine) \in Nat
    BY <1>2
  <2>4. Cardinality(mine) <= MaxPerClient
    BY DEF BudgetKept
  <2> HIDE DEF mine, left
  <2>5. Cardinality(left) <= MaxPerClient
    BY <2>2, <2>3, <2>4
  <2> QED
    BY <2>5 DEF left
<1> QED
  BY <1>3, <1>4 DEF BudgetKept, Budget!OwnedBy

(***************************************************************************)
(* A step that moves one request, changing nothing of another, keeps       *)
(* Owns for all when it does for that one.                                 *)
(***************************************************************************)
LEMMA OwnsOfOne ==
    ASSUME NEW s \in Stream, \A q \in Stream : Owns(q), Owns(s)',
           \A q \in Stream \ {s} :
               /\ pc'[q] = pc[q] /\ rx'[q] = rx[q]
               /\ q \in active' <=> q \in active
               /\ q \in subscribers' => q \in subscribers
    PROVE  \A q \in Stream : Owns(q)'
BY DEF Owns

(***************************************************************************)
(* Every step of a handler keeps the server's part of the invariant.       *)
(***************************************************************************)
LEMMA HandlerKeeps ==
    ASSUME OwnershipInv, NEW s \in Stream, Handler(s)
    PROVE  ServerPart'
<1> USE StreamSessionAssumption
<1>1. OwnTypes /\ BudgetKept /\ (\A q \in Stream : Owns(q)) /\ Router!TypeOK
  BY Parts DEF ServerPart, Router!IInv
<1>2. /\ subscribers \subseteq Stream /\ rx \in [Stream -> {"none", "open", "closed"}]
  BY <1>1 DEF Router!TypeOK
<1> HIDE DEF Router!TypeOK
<1>3. OwnTypes'
  BY <1>1 DEF Handler, Admit, Overloaded, BackendActs, BackendFails, BackendReturns,
     Prepare, Join, JoinRefused, Cancelled, Goto, OwnTypes, Budget!Open,
     Budget!Close, InHandler, InAwait, InTask, Ended, clientVars, clnVars
<1>4. BudgetKept'
  <2>1. CASE Admit(s)
    BY <1>1, <2>1, OpenKeepsBudget DEF Admit, OwnTypes
  <2>2. ASSUME ~Admit(s) PROVE active' \subseteq active
    BY <2>2 DEF Handler, Overloaded, BackendActs, BackendFails, BackendReturns,
       Prepare, Join, JoinRefused, Cancelled, Budget!Close
  <2> QED
    BY <1>1, <2>1, <2>2, CloseKeepsBudget DEF OwnTypes
<1>5. /\ Owns(s)'
      /\ \A q \in Stream \ {s} :
             /\ pc'[q] = pc[q] /\ rx'[q] = rx[q]
             /\ q \in active' <=> q \in active
             /\ q \in subscribers' => q \in subscribers
  <2> USE <1>1, <1>2 DEF Owns, OwnTypes, Goto, InHandler, InAwait, InTask, Ended,
          routerVars
  <2>1. CASE Admit(s)
    BY <2>1 DEF Admit, Budget!Open
  <2>2. CASE Overloaded(s) \/ BackendActs(s) \/ BackendReturns(s)
    <3>1. /\ UNCHANGED <<active, subscribers, rx>>
          /\ \/ pc[s] = "idle" /\ pc' = [pc EXCEPT ![s] = "refused"]
             \/ pc[s] = "backend" /\ pc' = [pc EXCEPT ![s] = "effected"]
             \/ pc[s] = "effected" /\ pc' = [pc EXCEPT ![s] = "answered"]
      BY <2>2 DEF Overloaded, BackendActs, BackendReturns
    <3> QED
      BY <3>1
  <2>3. CASE BackendFails(s) \/ Prepare(s) \/ Cancelled(s)
    <3>1. UNCHANGED <<subscribers, rx>> /\ pc[s] \in InHandler
      BY <2>3 DEF BackendFails, Prepare, Cancelled
    <3>2. \/ /\ active' = active \ {s}
             /\ \E label \in {"failed", "done"} : pc' = [pc EXCEPT ![s] = label]
          \/ UNCHANGED active /\ pc' = [pc EXCEPT ![s] = "subscribe"]
      BY <2>3 DEF BackendFails, Prepare, Cancelled, Budget!Close
    <3> QED
      BY <3>1, <3>2
  <2>4. CASE Join(s)
    <3>1. /\ pc[s] = "subscribe" /\ UNCHANGED active
          /\ pc' = [pc EXCEPT ![s] = IF Kind[s] = "invoice" THEN "created" ELSE "loop"]
          /\ subscribers' = subscribers \cup {s} /\ rx' = [rx EXCEPT ![s] = "open"]
      BY <2>4 DEF Join, Router!Subscribe
    <3> QED
      BY <3>1
  <2>5. CASE JoinRefused(s)
    <3>1. /\ pc[s] = "subscribe" /\ pc' = [pc EXCEPT ![s] = "refused"]
          /\ active' = active \ {s} /\ UNCHANGED subscribers
          /\ rx' = [rx EXCEPT ![s] = "closed"]
      BY <2>5 DEF JoinRefused, Router!SubscribeRefused, Budget!Close
    <3> QED
      BY <3>1
  <2> QED
    BY <2>1, <2>2, <2>3, <2>4, <2>5 DEF Handler
<1>6. \A q \in Stream : Owns(q)'
  BY <1>1, <1>5, OwnsOfOne
<1> QED
  BY <1>3, <1>4, <1>6 DEF ServerPart

(***************************************************************************)
(* Every step of a task does: it unsubscribes, gives its permit back and   *)
(* drops its receiver, in this order.                                      *)
(***************************************************************************)
LEMMA TaskKeeps ==
    ASSUME OwnershipInv, NEW s \in Stream, Task(s)
    PROVE  ServerPart'
<1> USE StreamSessionAssumption
<1>1. OwnTypes /\ BudgetKept /\ (\A q \in Stream : Owns(q)) /\ Router!TypeOK
  BY Parts DEF ServerPart, Router!IInv
<1>2. /\ subscribers \subseteq Stream /\ rx \in [Stream -> {"none", "open", "closed"}]
  BY <1>1 DEF Router!TypeOK
<1>3. OwnTypes'
  <2>1. /\ pc' \in [Stream -> {"idle", "drop"} \cup Ended \cup InHandler \cup InTask]
        /\ active' \subseteq Stream
    BY <1>1 DEF Task, SendCreated, TakeEvent, Hangup, EndOfEvents, Forward, Leave,
       ReleasePermit, DropChannels, Goto, OwnTypes, Budget!Close, InTask, Ended
  <2>2. /\ out' \in [Stream -> Seq({"created", "event", "outcome"})]
        /\ \A q \in Stream : Len(out'[q]) <= OutCap
    <3>1. \/ UNCHANGED out
          \/ \E item \in {"created", "event", "outcome"} : Send(s, item)
      BY DEF Task, SendCreated, TakeEvent, Hangup, EndOfEvents, Forward, Leave,
         ReleasePermit, DropChannels, SendFails, clientVars
    <3>2. CASE UNCHANGED out
      BY <1>1, <3>2 DEF OwnTypes
    <3>3. ASSUME NEW item \in {"created", "event", "outcome"}, Send(s, item)
          PROVE  /\ out' \in [Stream -> Seq({"created", "event", "outcome"})]
                 /\ \A q \in Stream : Len(out'[q]) <= OutCap
      <4>1. /\ out[s] \in Seq({"created", "event", "outcome"}) /\ Len(out[s]) < OutCap
            /\ out' = [out EXCEPT ![s] = Append(out[s], item)]
        BY <1>1, <3>3 DEF Send, OwnTypes
      <4>2. PICK longer : longer = Append(out[s], item)
        OBVIOUS
      <4>3. /\ longer \in Seq({"created", "event", "outcome"})
            /\ Len(longer) <= OutCap
        BY <4>1, <4>2
      <4>4. out' = [out EXCEPT ![s] = longer]
        BY <4>1, <4>2
      <4> QED
        BY <1>1, <4>3, <4>4 DEF OwnTypes
    <3> QED
      BY <3>1, <3>2, <3>3
  <2>3. UNCHANGED <<gone, got, bridge, effect, notified, noise>>
    BY DEF Task, SendCreated, TakeEvent, Hangup, EndOfEvents, Forward, Leave,
       ReleasePermit, DropChannels, clientVars, clnVars
  <2> QED
    BY <1>1, <2>1, <2>2, <2>3 DEF OwnTypes
<1>4. BudgetKept'
  <2>1. active' \subseteq active
    BY DEF Task, SendCreated, TakeEvent, Hangup, EndOfEvents, Forward, Leave,
       ReleasePermit, DropChannels, Budget!Close
  <2> QED
    BY <1>1, <2>1, CloseKeepsBudget DEF OwnTypes
<1>5. /\ Owns(s)'
      /\ \A q \in Stream \ {s} :
             /\ pc'[q] = pc[q] /\ rx'[q] = rx[q]
             /\ q \in active' <=> q \in active
             /\ q \in subscribers' => q \in subscribers
  <2> USE <1>1, <1>2 DEF Owns, OwnTypes, Goto, InHandler, InAwait, InTask, Ended,
          routerVars
  <2>1. CASE SendCreated(s) \/ Hangup(s) \/ EndOfEvents(s) \/ Forward(s)
    BY <2>1 DEF SendCreated, Hangup, EndOfEvents, Forward
  <2>2. CASE TakeEvent(s)
    BY <2>2 DEF TakeEvent, Router!Recv
  <2>3. CASE Leave(s)
    BY <2>3 DEF Leave, Router!Unsubscribe, Router!Remove
  <2>4. CASE ReleasePermit(s)
    BY <2>4 DEF ReleasePermit, Budget!Close
  <2>5. CASE DropChannels(s)
    BY <2>5 DEF DropChannels, Router!DropReceiver
  <2> QED
    BY <2>1, <2>2, <2>3, <2>4, <2>5 DEF Task
<1>6. \A q \in Stream : Owns(q)'
  BY <1>1, <1>5, OwnsOfOne
<1> QED
  BY <1>3, <1>4, <1>6 DEF ServerPart

(***************************************************************************)
(* The client, CLN and the bridge move no request, so only what they queue *)
(* is at stake: a queue grows by one, and only while it has room.          *)
(***************************************************************************)
LEMMA PlaceUnchanged ==
    ASSUME BudgetKept, \A q \in Stream : Owns(q), subscribers' \subseteq subscribers,
           UNCHANGED <<active, pc, rx>>
    PROVE  BudgetKept' /\ \A q \in Stream : Owns(q)'
BY DEF BudgetKept, Budget!OwnedBy, Owns

LEMMA EnqueueTypes ==
    ASSUME bridge \in Seq([type : Type, body : Body]), NEW t \in Type, NEW b \in Body,
           Enqueue(t, b)
    PROVE  bridge' \in Seq([type : Type, body : Body]) /\ Len(bridge') <= BridgeCap
<1> USE StreamSessionAssumption
<1> DEFINE Note == [type : Type, body : Body]
<1>1. PICK e \in Note : e = [type |-> t, body |-> b]
  OBVIOUS
<1>2. bridge \in Seq(Note) /\ Len(bridge) < BridgeCap /\ bridge' = Append(bridge, e)
  BY <1>1 DEF Enqueue
<1> HIDE DEF Note
<1>3. bridge' \in Seq(Note) /\ Len(bridge') <= BridgeCap
  BY <1>2
<1> QED
  BY <1>3 DEF Note

LEMMA PeerKeeps ==
    ASSUME OwnershipInv, NEW s \in Stream, Peer(s)
    PROVE  ServerPart'
<1> USE StreamSessionAssumption
<1>1. OwnTypes /\ BudgetKept /\ (\A q \in Stream : Owns(q))
  BY Parts DEF ServerPart
<1>2. UNCHANGED <<subscribers, rx, active, pc, bridge, effect, notified, noise>>
  BY DEF Peer, Read, Disconnect, routerVars, serverVars, clnVars
<1>3. BudgetKept' /\ \A q \in Stream : Owns(q)'
  BY <1>1, <1>2, PlaceUnchanged
<1> DEFINE Item == {"created", "event", "outcome"}
<1>4. /\ out' \in [Stream -> Seq(Item)]
      /\ \A q \in Stream : Len(out'[q]) <= OutCap
  <2>1. out \in [Stream -> Seq(Item)] /\ \A q \in Stream : Len(out[q]) <= OutCap
    BY <1>1 DEF OwnTypes
  <2>2. PICK rest \in Seq(Item) : Len(rest) <= OutCap /\ out' = [out EXCEPT ![s] = rest]
    <3>1. CASE Disconnect(s)
      <4>1. <<>> \in Seq(Item) /\ Len(<<>>) <= OutCap
        OBVIOUS
      <4> QED
        BY <3>1, <4>1 DEF Disconnect
    <3>2. CASE Read(s)
      <4>1. out[s] \in Seq(Item) /\ out[s] # <<>> /\ Len(out[s]) <= OutCap
        BY <2>1, <3>2 DEF Read
      <4> HIDE DEF Item
      <4>2. Tail(out[s]) \in Seq(Item) /\ Len(Tail(out[s])) <= OutCap
        BY <4>1
      <4> QED
        BY <3>2, <4>2 DEF Read
    <3> QED
      BY <3>1, <3>2 DEF Peer
  <2> HIDE DEF Item
  <2> QED
    BY <2>1, <2>2
<1>5. gone' \subseteq Stream /\ got' \in [Stream -> SUBSET Item]
  <2>1. CASE Disconnect(s)
    BY <1>1, <2>1 DEF Disconnect, OwnTypes
  <2>2. CASE Read(s)
    <3>1. out[s] \in Seq(Item) /\ out[s] # <<>>
      BY <1>1, <2>2 DEF Read, OwnTypes
    <3> HIDE DEF Item
    <3>2. Head(out[s]) \in Item
      BY <3>1
    <3>3. got \in [Stream -> SUBSET Item] /\ gone \subseteq Stream
      BY <1>1 DEF OwnTypes, Item
    <3> QED
      BY <2>2, <3>2, <3>3 DEF Read
  <2> QED
    BY <2>1, <2>2 DEF Peer
<1>6. OwnTypes'
  BY <1>1, <1>2, <1>4, <1>5 DEF OwnTypes, InHandler, InAwait, InTask, Ended
<1> QED
  BY <1>3, <1>6 DEF ServerPart

LEMMA ClnKeeps ==
    ASSUME OwnershipInv, Cln
    PROVE  ServerPart'
<1> USE StreamSessionAssumption
<1>1. OwnTypes /\ BudgetKept /\ (\A q \in Stream : Owns(q))
  BY Parts DEF ServerPart
<1>2. UNCHANGED <<subscribers, rx, active, pc, out, gone, got, effect>>
  BY DEF Cln, NotifyPayment, NotifyPaid, NotifyOther, Announce, routerVars,
     serverVars, clientVars
<1>3. BudgetKept' /\ \A q \in Stream : Owns(q)'
  BY <1>1, <1>2, PlaceUnchanged
<1>4. /\ bridge' \in Seq([type : Type, body : Body]) /\ Len(bridge') <= BridgeCap
      /\ notified' \subseteq effect /\ noise' \in 0..MaxNoise
  <2>1. bridge \in Seq([type : Type, body : Body])
    BY <1>1 DEF OwnTypes
  <2>2. CASE \E s \in Stream : Announce(s) /\ UNCHANGED noise
    <3>1. PICK s \in Stream : Announce(s) /\ UNCHANGED noise
      BY <2>2
    <3>2. TypeOf[s] \in Type /\ s \in Body /\ Enqueue(TypeOf[s], s)
      BY <3>1 DEF Announce, Body
    <3>3. notified' \subseteq effect /\ noise' \in 0..MaxNoise
      BY <1>1, <3>1 DEF Announce, OwnTypes
    <3> QED
      BY <2>1, <3>2, <3>3, EnqueueTypes
  <2>3. CASE \E t \in Type, b \in {"part", "other"} : NotifyOther(t, b)
    <3>1. PICK t \in Type, b \in {"part", "other"} : NotifyOther(t, b)
      BY <2>3
    <3>2. b \in Body /\ Enqueue(t, b)
      BY <3>1 DEF NotifyOther, Body
    <3>3. notified' \subseteq effect /\ noise' \in 0..MaxNoise
      BY <1>1, <3>1 DEF NotifyOther, OwnTypes
    <3> QED
      BY <2>1, <3>2, <3>3, EnqueueTypes
  <2> QED
    BY <2>2, <2>3 DEF Cln, NotifyPayment, NotifyPaid, Announce
<1>5. OwnTypes'
  BY <1>1, <1>2, <1>4 DEF OwnTypes, InHandler, InAwait, InTask, Ended
<1> QED
  BY <1>3, <1>5 DEF ServerPart

LEMMA BridgeKeeps ==
    ASSUME OwnershipInv, Bridge
    PROVE  ServerPart'
<1> USE StreamSessionAssumption
<1>1. OwnTypes /\ BudgetKept /\ (\A q \in Stream : Owns(q))
  BY Parts DEF ServerPart
<1>2. /\ UNCHANGED <<rx, active, pc, out, gone, got, effect, notified, noise>>
      /\ subscribers' \subseteq subscribers
  BY DEF Bridge, BridgeTake, BridgeSend, BridgeFinish, Router!Snapshot,
     Router!TrySend, Router!Finish, Router!Remove, serverVars, clientVars, clnVars
<1>3. BudgetKept' /\ \A q \in Stream : Owns(q)'
  BY <1>1, <1>2, PlaceUnchanged
<1>4. bridge' \in Seq([type : Type, body : Body]) /\ Len(bridge') <= BridgeCap
  <2> DEFINE Note == [type : Type, body : Body]
  <2>1. bridge \in Seq(Note) /\ Len(bridge) <= BridgeCap
    BY <1>1 DEF OwnTypes
  <2>2. UNCHANGED bridge \/ (bridge # <<>> /\ bridge' = Tail(bridge))
    BY DEF Bridge, BridgeTake, BridgeSend, BridgeFinish, clnVars
  <2> HIDE DEF Note
  <2>3. bridge' \in Seq(Note) /\ Len(bridge') <= BridgeCap
    BY <2>1, <2>2
  <2> QED
    BY <2>3 DEF Note
<1>5. OwnTypes'
  BY <1>1, <1>2, <1>4 DEF OwnTypes, InHandler, InAwait, InTask, Ended
<1> QED
  BY <1>3, <1>5 DEF ServerPart

-----------------------------------------------------------------------------
LEMMA OwnershipInitially == Init => OwnershipInv
<1> SUFFICES ASSUME Init PROVE OwnershipInv
  OBVIOUS
<1> USE StreamSessionAssumption DEF Init
<1>1. Router!IInv
  BY RouterConfigured, SameInit, SameInvariant, RP!Initially
<1>2. active = {} /\ subscribers = {} /\ rx = [s \in Stream |-> "none"]
  BY DEF Budget!Init, Router!Init
<1>3. OwnTypes
  BY <1>2 DEF OwnTypes
<1>4. BudgetKept
  <2>1. Cardinality({}) = 0 /\ \A c : active \cap Budget!OwnedBy(c) = {}
    BY <1>2, FS_EmptySet
  <2> QED
    BY <1>2, <2>1 DEF BudgetKept
<1>5. \A s \in Stream : Owns(s)
  BY <1>2 DEF Owns, InHandler, InAwait, InTask
<1> QED
  BY <1>1, <1>3, <1>4, <1>5, Parts DEF ServerPart

(***************************************************************************)
(* Every step of the server preserves OwnershipInv.                        *)
(***************************************************************************)
LEMMA OwnershipInductive == OwnershipInv /\ [Next]_vars => OwnershipInv'
<1> SUFFICES ASSUME OwnershipInv, [Next]_vars PROVE OwnershipInv'
  OBVIOUS
<1>1. Router!IInv'
  BY RouterKept DEF OwnershipInv
<1>2. ServerPart'
  <2>1. CASE UNCHANGED vars
    <3>1. ServerPart
      BY Parts
    <3> QED
      BY <2>1, <3>1 DEF vars, routerVars, serverVars, clientVars, clnVars, ServerPart,
         OwnTypes, BudgetKept, Owns, Budget!OwnedBy, InHandler, InAwait, InTask, Ended
  <2> QED
    BY <2>1, HandlerKeeps, TaskKeeps, PeerKeeps, ClnKeeps, BridgeKeeps DEF Next
<1>3. OwnershipInv' <=> Router!IInv' /\ ServerPart'
  BY PartsNext
<1> QED
  BY <1>1, <1>2, <1>3

-----------------------------------------------------------------------------
(* No news of a paid invoice is lost: queues.                              *)

(***************************************************************************)
(* What a queue holds when an item joins at its end or leaves at its head. *)
(***************************************************************************)
LEMMA HasAppend ==
    ASSUME NEW S, NEW q \in Seq(S), NEW x \in S, NEW item
    PROVE  Has(Append(q, x), item) <=> Has(q, item) \/ x = item
<1>1. /\ DOMAIN Append(q, x) = 1..(Len(q) + 1) /\ DOMAIN q = 1..Len(q) /\ Len(q) \in Nat
      /\ \A n \in 1..Len(q) : Append(q, x)[n] = q[n]
      /\ Append(q, x)[Len(q) + 1] = x
  OBVIOUS
<1> QED
  BY <1>1 DEF Has

LEMMA HasTail ==
    ASSUME NEW S, NEW q \in Seq(S), q # <<>>, NEW item
    PROVE  Has(q, item) <=> Head(q) = item \/ Has(Tail(q), item)
<1>1. /\ DOMAIN q = 1..Len(q) /\ DOMAIN Tail(q) = 1..(Len(q) - 1)
      /\ Len(q) \in Nat /\ Len(q) >= 1 /\ Head(q) = q[1]
      /\ \A n \in 1..(Len(q) - 1) : Tail(q)[n] = q[n + 1]
  OBVIOUS
<1>2. ASSUME NEW n \in DOMAIN q, q[n] = item PROVE Head(q) = item \/ Has(Tail(q), item)
  <2>1. n = 1 \/ (n - 1 \in 1..(Len(q) - 1) /\ Tail(q)[n - 1] = item)
    BY <1>1, <1>2
  <2> QED
    BY <1>1, <1>2, <2>1 DEF Has
<1>3. ASSUME NEW n \in DOMAIN Tail(q), Tail(q)[n] = item PROVE Has(q, item)
  <2>1. n + 1 \in DOMAIN q /\ q[n + 1] = item
    BY <1>1, <1>3
  <2> QED
    BY <2>1 DEF Has
<1>4. Head(q) = item => Has(q, item)
  BY <1>1 DEF Has
<1> QED
  BY <1>2, <1>3, <1>4 DEF Has

LEMMA NewsAppend ==
    ASSUME NEW S, NEW q \in Seq(S), NEW x \in S, NEW b
    PROVE  HoldsNews(Append(q, x), b) <=> HoldsNews(q, b) \/ x.body = b
<1>1. /\ DOMAIN Append(q, x) = 1..(Len(q) + 1) /\ DOMAIN q = 1..Len(q) /\ Len(q) \in Nat
      /\ \A n \in 1..Len(q) : Append(q, x)[n] = q[n]
      /\ Append(q, x)[Len(q) + 1] = x
  OBVIOUS
<1> QED
  BY <1>1 DEF HoldsNews

LEMMA NewsTail ==
    ASSUME NEW S, NEW q \in Seq(S), q # <<>>, NEW b
    PROVE  HoldsNews(q, b) => Head(q).body = b \/ HoldsNews(Tail(q), b)
<1>1. /\ DOMAIN q = 1..Len(q) /\ DOMAIN Tail(q) = 1..(Len(q) - 1)
      /\ Len(q) \in Nat /\ Len(q) >= 1 /\ Head(q) = q[1]
      /\ \A n \in 1..(Len(q) - 1) : Tail(q)[n] = q[n + 1]
  OBVIOUS
<1>2. ASSUME NEW n \in DOMAIN q, q[n].body = b
      PROVE  Head(q).body = b \/ HoldsNews(Tail(q), b)
  <2>1. n = 1 \/ (n - 1 \in 1..(Len(q) - 1) /\ Tail(q)[n - 1].body = b)
    BY <1>1, <1>2
  <2> QED
    BY <1>1, <1>2, <2>1 DEF HoldsNews
<1> QED
  BY <1>2 DEF HoldsNews

-----------------------------------------------------------------------------
(* No news of a paid invoice is lost: what a step leaves alone.            *)

(***************************************************************************)
(* A channel is held open by the map or by the one dispatch in progress.   *)
(***************************************************************************)
LEMMA Senders ==
    \A s \in Stream :
        Router!HasSender(s) <=>
            s \in subscribers \/ (Router!Busy("bridge") /\ s \in job["bridge"].todo)
BY DEF Router!HasSender, Dispatcher

LEMMA SendersNext ==
    \A s \in Stream :
        Router!HasSender(s)' <=>
            s \in subscribers' \/ (Router!Busy("bridge")' /\ s \in job'["bridge"].todo)
BY DEF Router!HasSender, Dispatcher

(***************************************************************************)
(* The state of the router as the delivery of news depends on it.          *)
(***************************************************************************)
LEMMA RouterShape ==
    ASSUME OwnershipInv
    PROVE  /\ subscribers \subseteq Stream
           /\ chan \in [Stream -> Seq(Router!Event)]
           /\ rx \in [Stream -> {"none", "open", "closed"}]
           /\ drops \in [Stream -> Nat]
           /\ job \in [Dispatcher -> Router!Job]
           /\ Router!MaxDrops \in Nat
           /\ Router!Busy("bridge") =>
                 /\ job["bridge"] \in Router!Dispatching
                 /\ job["bridge"].event \in Router!Event
<1>1. job["bridge"] \in Router!Job
  BY DEF OwnershipInv, TypeOK, Router!TypeOK, Dispatcher
<1>2. Router!Busy("bridge") =>
          job["bridge"] \in Router!Dispatching /\ job["bridge"].event \in Router!Event
  BY <1>1 DEF Router!Busy, Router!Job, Router!Resting, Router!Dispatching
<1>3. Router!MaxDrops \in Nat
  BY StreamSessionAssumption DEF Router!MaxDrops, Router!AtLeastOne
<1> QED
  BY <1>2, <1>3 DEF OwnershipInv, TypeOK, Router!TypeOK

(***************************************************************************)
(* A request whose own state does not change listens as it did, and the    *)
(* news about it stays where it is if the router and the bridge keep it.   *)
(***************************************************************************)
LeavesAlone(q) ==
    /\ pc'[q] = pc[q] /\ out'[q] = out[q] /\ got'[q] = got[q]
    /\ chan'[q] = chan[q] /\ drops'[q] = drops[q]
    /\ q \in gone' <=> q \in gone
    /\ q \in notified' <=> q \in notified
    /\ q \in subscribers' <=> q \in subscribers

LEMMA AloneListens ==
    ASSUME NEW q \in Stream, Listens(q), LeavesAlone(q),
           Router!HasSender(q)' <=> Router!HasSender(q)
    PROVE  Listens(q)'
<1>1. (Told(q)' <=> Told(q)) /\ (Revealed(q)' <=> Revealed(q))
  BY DEF Told, Revealed, Has, LeavesAlone
<1> QED
  BY <1>1 DEF Listens, LeavesAlone, GivenUp, Router!MaxDrops

LEMMA StaysOnItsWay ==
    ASSUME NEW q \in Stream, OnItsWay(q), UNCHANGED <<job, bridge, chan>>,
           pc[q] = "forward" => pc'[q] = "forward", Told(q) => Told(q)'
    PROVE  OnItsWay(q)'
BY DEF OnItsWay, Dispatched, HoldsNews, Router!Busy

(***************************************************************************)
(* A step of one request leaves the dispatch and the bridge as they are.   *)
(***************************************************************************)
LEMMA SideKept ==
    ASSUME NewsTyped, Condemned, UNCHANGED <<job, bridge, notified, drops>>,
           \A q \in Stream : rx[q] = "closed" => rx'[q] = "closed",
           OwnershipInv
    PROVE  NewsTyped' /\ Condemned'
<1>1. NewsTyped'
  BY DEF NewsTyped, Dispatched, Router!Busy
<1>2. Router!Busy("bridge") => job["bridge"].doomed \subseteq Stream
  BY RouterShape DEF Router!Dispatching
<1>3. Condemned'
  BY <1>2 DEF Condemned, Router!Busy, Router!MaxDrops
<1> QED
  BY <1>1, <1>3

LEMMA SenderKept ==
    ASSUME NEW q \in Stream, UNCHANGED job, q \in subscribers' <=> q \in subscribers
    PROVE  Router!HasSender(q)' <=> Router!HasSender(q)
BY Senders, SendersNext DEF Router!Busy

-----------------------------------------------------------------------------
(* No news of a paid invoice is lost: the steps.                           *)

(***************************************************************************)
(* Before its task runs, nobody knows a request's bolt11.  A handler makes *)
(* no news and moves none, and what it starts is subscribed.               *)
(***************************************************************************)
LEMMA HandlerDelivers ==
    ASSUME OwnershipInv, DeliveryInv, NEW s \in Stream, Handler(s)
    PROVE  DeliveryInv' /\ PaidInvoiceIsKeptStep
<1> USE StreamSessionAssumption
<1>1. /\ UNCHANGED <<job, bridge, notified, drops, chan, out, gone, got>>
      /\ \A q \in Stream : rx[q] = "closed" => rx'[q] = "closed"
      /\ pc[s] \in {"idle"} \cup InHandler
      /\ \/ pc' = [pc EXCEPT ![s] = pc'[s]]
            /\ \/ pc'[s] \in InHandler \cup {"failed", "refused"}
               \/ pc'[s] = "done" /\ s \in gone
            /\ UNCHANGED subscribers
         \/ pc' = [pc EXCEPT ![s] = IF Kind[s] = "invoice" THEN "created" ELSE "loop"]
            /\ subscribers' = subscribers \cup {s}
  <2>1. pc \in [Stream -> {"idle", "drop"} \cup Ended \cup InHandler \cup InTask]
    BY DEF OwnershipInv, TypeOK
  <2>2. rx \in [Stream -> {"none", "open", "closed"}]
    BY RouterShape
  <2>3. CASE Join(s)
    BY <2>1, <2>2, <2>3 DEF Join, Router!Subscribe, Goto, clientVars, clnVars, InHandler,
       InAwait
  <2>4. CASE JoinRefused(s)
    BY <2>1, <2>2, <2>4 DEF JoinRefused, Router!SubscribeRefused, Goto, clientVars,
       clnVars, InHandler, InAwait
  <2>5. CASE Admit(s) \/ Overloaded(s) \/ BackendActs(s) \/ BackendFails(s)
    BY <2>1, <2>5 DEF Admit, Overloaded, BackendActs, BackendFails, Goto, routerVars,
       clientVars, clnVars, InHandler, InAwait
  <2>6. CASE BackendReturns(s) \/ Prepare(s) \/ Cancelled(s)
    BY <2>1, <2>6 DEF BackendReturns, Prepare, Cancelled, Goto, routerVars,
       clientVars, clnVars, InHandler, InAwait
  <2> QED
    BY <2>3, <2>4, <2>5, <2>6 DEF Handler
<1>2. pc \in [Stream -> {"idle", "drop"} \cup Ended \cup InHandler \cup InTask]
  BY DEF OwnershipInv, TypeOK
<1>3. NewsTyped' /\ Condemned'
  BY <1>1, SideKept DEF DeliveryInv
<1>4. ASSUME NEW q \in Stream, Kind[q] = "invoice" PROVE Listens(q)'
  <2>1. Listens(q)
    BY <1>4 DEF DeliveryInv
  <2>2. CASE q # s
    <3>1. LeavesAlone(q)
      BY <1>1, <1>2, <2>2 DEF LeavesAlone
    <3> QED
      BY <1>1, <2>1, <3>1, AloneListens, SenderKept DEF LeavesAlone
  <2>3. CASE q = s
    <3>1. ~Revealed(q) /\ q \notin notified
      BY <1>1, <2>1, <2>3 DEF Listens, Revealed, InHandler, InAwait, Ending
    <3>2. ~Revealed(q)' /\ q \notin notified'
      BY <1>1, <3>1 DEF Revealed, Has
    <3>3. q \notin gone' => q \in subscribers' \/ pc'[q] \notin InTask \cup Ending
      BY <1>1, <1>2, <2>3 DEF InHandler, InAwait, InTask, Ending
    <3>4. q \notin gone' => pc'[q] \notin Ending
      BY <1>1, <1>2, <1>4, <2>3 DEF InHandler, InAwait, Ending
    <3> QED
      BY <3>2, <3>3, <3>4 DEF Listens
  <2> QED
    BY <2>2, <2>3
<1>5. PaidInvoiceIsKeptStep
  <2> SUFFICES ASSUME NEW q \in Stream, OnItsWay(q) PROVE OnItsWay(q)'
    BY <1>1 DEF PaidInvoiceIsKeptStep
  <2>1. Told(q) => Told(q)'
    BY <1>1 DEF Told, Has
  <2>2. pc[q] = "forward" => pc'[q] = "forward"
    BY <1>1, <1>2 DEF InHandler, InAwait
  <2> QED
    BY <1>1, <2>1, <2>2, StaysOnItsWay
<1> QED
  BY <1>3, <1>4, <1>5 DEF DeliveryInv

(***************************************************************************)
(* What is sent to a client joins what it has yet to read.                 *)
(***************************************************************************)
LEMMA SendAdds ==
    ASSUME OwnershipInv, NEW s \in Stream, NEW item \in {"created", "event", "outcome"},
           Send(s, item)
    PROVE  /\ s \notin gone
           /\ \A x : Has(out'[s], x) <=> Has(out[s], x) \/ x = item
           /\ \A q \in Stream \ {s} : out'[q] = out[q]
<1>1. /\ out \in [Stream -> Seq({"created", "event", "outcome"})]
      /\ s \notin gone /\ out' = [out EXCEPT ![s] = Append(out[s], item)]
  BY DEF OwnershipInv, TypeOK, Send
<1>2. out[s] \in Seq({"created", "event", "outcome"})
  BY <1>1
<1>3. \A x : Has(Append(out[s], item), x) <=> Has(out[s], x) \/ x = item
  BY <1>2, HasAppend
<1> QED
  BY <1>1, <1>3

(***************************************************************************)
(* What the client reads it has got.                                       *)
(***************************************************************************)
LEMMA ReadKeeps ==
    ASSUME OwnershipInv, NEW s \in Stream, Read(s)
    PROVE  /\ Told(s)' <=> Told(s)
           /\ Revealed(s)' <=> Revealed(s)
           /\ got[s] \subseteq got'[s]
           /\ \A q \in Stream \ {s} : out'[q] = out[q] /\ got'[q] = got[q]
<1>1. /\ out \in [Stream -> Seq({"created", "event", "outcome"})]
      /\ got \in [Stream -> SUBSET {"created", "event", "outcome"}]
      /\ out[s] # <<>>
      /\ got' = [got EXCEPT ![s] = got[s] \cup {Head(out[s])}]
      /\ out' = [out EXCEPT ![s] = Tail(out[s])]
  BY DEF OwnershipInv, TypeOK, Read
<1>2. out[s] \in Seq({"created", "event", "outcome"})
  BY <1>1
<1>3. \A x : Has(out[s], x) <=> Head(out[s]) = x \/ Has(Tail(out[s]), x)
  BY <1>1, <1>2, HasTail
<1>4. got'[s] = got[s] \cup {Head(out[s])} /\ out'[s] = Tail(out[s])
  BY <1>1
<1> QED
  BY <1>1, <1>3, <1>4 DEF Told, Revealed, Has

(***************************************************************************)
(* A step of one request leaves the others alone.                          *)
(***************************************************************************)
LEMMA TaskAlone ==
    ASSUME OwnershipInv, NEW s \in Stream, Task(s) \/ Peer(s)
    PROVE  /\ \A q \in Stream \ {s} : LeavesAlone(q)
           /\ UNCHANGED <<job, bridge, notified, drops>>
           /\ \A q \in Stream : rx[q] = "closed" => rx'[q] = "closed"
<1> USE RouterShape
<1>1. /\ pc \in [Stream -> {"idle", "drop"} \cup Ended \cup InHandler \cup InTask]
      /\ out \in [Stream -> Seq({"created", "event", "outcome"})]
      /\ got \in [Stream -> SUBSET {"created", "event", "outcome"}]
  BY DEF OwnershipInv, TypeOK
<1>2. CASE SendCreated(s) \/ Hangup(s) \/ EndOfEvents(s) \/ Forward(s)
  BY <1>1, <1>2 DEF SendCreated, Hangup, EndOfEvents, Forward, Send, SendFails, Goto,
     LeavesAlone, routerVars, clientVars, clnVars
<1>3. CASE TakeEvent(s)
  BY <1>1, <1>3 DEF TakeEvent, Router!Recv, Goto, LeavesAlone, clientVars, clnVars
<1>4. CASE Leave(s)
  BY <1>1, <1>4 DEF Leave, Router!Unsubscribe, Router!Remove, Goto, LeavesAlone,
     clientVars, clnVars
<1>5. CASE ReleasePermit(s)
  BY <1>1, <1>5 DEF ReleasePermit, Goto, LeavesAlone, routerVars, clientVars, clnVars
<1>6. CASE DropChannels(s)
  BY <1>1, <1>6 DEF DropChannels, Router!DropReceiver, Goto, LeavesAlone, clientVars,
     clnVars
<1>7. CASE Peer(s)
  BY <1>1, <1>7 DEF Peer, Read, Disconnect, LeavesAlone, routerVars, serverVars, clnVars
<1> QED
  BY <1>2, <1>3, <1>4, <1>5, <1>6, <1>7 DEF Task

(***************************************************************************)
(* The task reveals the bolt11 once it is subscribed, and ends untold only *)
(* when no event is left for it and none can come.                         *)
(***************************************************************************)
LEMMA TaskListens ==
    ASSUME OwnershipInv, DeliveryInv, NEW s \in Stream, Kind[s] = "invoice", Task(s)
    PROVE  Listens(s)' /\ (OnItsWay(s) /\ s \notin gone' => OnItsWay(s)')
<1> USE StreamSessionAssumption
<1>1. /\ pc \in [Stream -> {"idle", "drop"} \cup Ended \cup InHandler \cup InTask]
      /\ chan \in [Stream -> Seq(Router!Event)]
  BY RouterShape DEF OwnershipInv, TypeOK
<1>2. Listens(s)
  BY DEF DeliveryInv
<1>3. UNCHANGED <<job, bridge, notified, drops, got, gone>>
  BY TaskAlone DEF Task, SendCreated, TakeEvent, Hangup, EndOfEvents, Forward, Leave,
     ReleasePermit, DropChannels, clientVars
<1>4. CASE \/ Hangup(s) \/ EndOfEvents(s) \/ ReleasePermit(s)
           \/ (SendCreated(s) \/ Forward(s)) /\ SendFails(s)
  <2>1. /\ UNCHANGED <<subscribers, chan, out>>
        /\ pc[s] \in InTask
        /\ pc[s] = "forward" => s \in gone
        /\ \/ pc'[s] \in Ending /\ pc[s] \in Ending
           \/ pc'[s] \in Ending /\ s \in gone
           \/ pc'[s] \in Ending /\ chan[s] = <<>> /\ ~Router!HasSender(s)
    <3>1. CASE (SendCreated(s) \/ Forward(s)) /\ SendFails(s)
      BY <1>1, <3>1 DEF SendCreated, Forward, SendFails, Send, Goto, InTask, Ending,
         routerVars
    <3>2. CASE Hangup(s) \/ EndOfEvents(s) \/ ReleasePermit(s)
      BY <1>1, <3>2 DEF Hangup, EndOfEvents, ReleasePermit, Goto, InTask, Ending,
         routerVars, clientVars
    <3> QED
      BY <1>4, <3>1, <3>2
  <2>2. /\ Router!HasSender(s)' <=> Router!HasSender(s)
        /\ GivenUp(s)' <=> GivenUp(s)
        /\ Told(s)' <=> Told(s)
        /\ Revealed(s)' <=> Revealed(s)
    BY <1>3, <2>1, SenderKept DEF GivenUp, Told, Revealed, Has, Router!MaxDrops
  <2>3. Listens(s)'
    BY <1>2, <1>3, <2>1, <2>2 DEF Listens
  <2>4. OnItsWay(s) /\ s \notin gone' => OnItsWay(s)'
    BY <1>3, <2>1, <2>2, StaysOnItsWay
  <2> QED
    BY <2>3, <2>4
<1>5. CASE SendCreated(s) /\ Send(s, "created")
  <2>1. /\ UNCHANGED <<subscribers, chan>>
        /\ pc[s] = "created" /\ pc'[s] = "loop"
    BY <1>1, <1>5 DEF SendCreated, SendFails, Send, Goto, routerVars
  <2>2. Told(s)' <=> Told(s)
    BY <1>3, <1>5, SendAdds DEF Told
  <2>3. /\ Router!HasSender(s)' <=> Router!HasSender(s)
        /\ GivenUp(s)' <=> GivenUp(s)
    BY <1>3, <2>1, SenderKept DEF GivenUp, Router!MaxDrops
  <2>4. Listens(s)'
    BY <1>2, <1>3, <2>1, <2>2, <2>3 DEF Listens, InTask, Ending
  <2> QED
    BY <1>3, <2>1, <2>2, <2>4, StaysOnItsWay
<1>6. CASE Forward(s) /\ Send(s, "outcome")
  <2>1. /\ UNCHANGED <<subscribers, chan>>
        /\ pc[s] = "forward" /\ pc'[s] = "unsubscribe"
    BY <1>1, <1>6 DEF Forward, SendFails, Send, Goto, routerVars
  <2>2. Told(s)'
    BY <1>6, SendAdds DEF Told
  <2>3. Listens(s)'
    BY <1>2, <1>3, <2>1, <2>2 DEF Listens, Ending
  <2> QED
    BY <2>2, <2>3 DEF OnItsWay
<1>7. CASE TakeEvent(s)
  <2>1. /\ UNCHANGED <<subscribers, out>>
        /\ pc[s] = "loop" /\ pc'[s] \in {"loop", "forward"}
        /\ Forwards(s, Head(chan[s]).body) => pc'[s] = "forward"
        /\ chan[s] # <<>> /\ chan'[s] = Tail(chan[s])
    BY <1>1, <1>7 DEF TakeEvent, Router!Recv, Goto, clientVars
  <2>2. /\ Router!HasSender(s)' <=> Router!HasSender(s)
        /\ GivenUp(s)' <=> GivenUp(s)
        /\ Told(s)' <=> Told(s)
        /\ Revealed(s)' <=> Revealed(s)
    BY <1>3, <2>1, SenderKept DEF GivenUp, Told, Revealed, Has, Router!MaxDrops
  <2>3. Listens(s)'
    BY <1>2, <1>3, <2>1, <2>2 DEF Listens, InTask, Ending
  <2>4. HoldsNews(chan[s], s) => HoldsNews(chan'[s], s) \/ pc'[s] = "forward"
    <3>1. chan[s] \in Seq(Router!Event)
      BY <1>1
    <3>2. HoldsNews(chan[s], s) => Head(chan[s]).body = s \/ HoldsNews(Tail(chan[s]), s)
      BY <2>1, <3>1, NewsTail
    <3>3. Head(chan[s]).body = s => Forwards(s, Head(chan[s]).body)
      BY DEF Forwards, Converted
    <3> QED
      BY <2>1, <3>2, <3>3
  <2>5. OnItsWay(s) => OnItsWay(s)'
    BY <1>3, <2>1, <2>2, <2>4 DEF OnItsWay, Dispatched, HoldsNews, Router!Busy
  <2> QED
    BY <2>3, <2>5
<1>8. CASE Leave(s)
  <2>1. /\ UNCHANGED <<chan, out>> /\ subscribers' = subscribers \ {s}
        /\ pc[s] = "unsubscribe" /\ pc'[s] = "release"
    BY <1>1, <1>8 DEF Leave, Router!Unsubscribe, Router!Remove, Goto, clientVars
  <2>2. /\ Router!HasSender(s)' => Router!HasSender(s)
        /\ Told(s)' <=> Told(s)
        /\ Revealed(s)' <=> Revealed(s)
    BY <1>3, <2>1, Senders, SendersNext DEF Told, Revealed, Has, Router!Busy
  <2>3. s \notin gone /\ ~Told(s) => ~Router!HasSender(s) /\ chan[s] = <<>> /\ GivenUp(s)
    BY <1>2, <2>1, Senders DEF Listens, Ending, InTask
  <2>4. Listens(s)'
    BY <1>2, <1>3, <2>1, <2>2, <2>3 DEF Listens, GivenUp, Ending, Router!MaxDrops
  <2> QED
    BY <1>3, <2>1, <2>2, <2>4, StaysOnItsWay
<1>9. CASE DropChannels(s)
  <2>1. /\ UNCHANGED <<subscribers, out>>
        /\ pc[s] = "drop" /\ pc'[s] = "done" /\ chan'[s] = <<>>
    BY <1>1, <1>9 DEF DropChannels, Router!DropReceiver, Goto, clientVars
  <2>2. /\ Router!HasSender(s)' <=> Router!HasSender(s)
        /\ GivenUp(s)' <=> GivenUp(s)
        /\ Told(s)' <=> Told(s)
        /\ Revealed(s)' <=> Revealed(s)
    BY <1>3, <2>1, SenderKept DEF GivenUp, Told, Revealed, Has, Router!MaxDrops
  <2>3. Listens(s)'
    BY <1>2, <1>3, <2>1, <2>2 DEF Listens, InTask, Ending
  <2>4. s \notin gone /\ ~Told(s) => chan[s] = <<>>
    BY <1>2, <2>1 DEF Listens, Ending
  <2>5. OnItsWay(s) /\ s \notin gone' => OnItsWay(s)'
    BY <1>3, <2>1, <2>2, <2>4 DEF OnItsWay, Dispatched, HoldsNews, Router!Busy
  <2> QED
    BY <2>3, <2>5
<1>10. \/ SendCreated(s) /\ (Send(s, "created") \/ SendFails(s))
       \/ Forward(s) /\ (Send(s, "outcome") \/ SendFails(s))
       \/ TakeEvent(s) \/ Hangup(s) \/ EndOfEvents(s) \/ Leave(s)
       \/ ReleasePermit(s) \/ DropChannels(s)
  BY DEF Task, SendCreated, Forward
<1> QED
  BY <1>4, <1>5, <1>6, <1>7, <1>8, <1>9, <1>10

LEMMA PeerListens ==
    ASSUME OwnershipInv, DeliveryInv, NEW s \in Stream, Kind[s] = "invoice", Peer(s)
    PROVE  Listens(s)' /\ (OnItsWay(s) /\ s \notin gone' => OnItsWay(s)')
<1>1. Listens(s)
  BY DEF DeliveryInv
<1>2. UNCHANGED <<job, bridge, notified, drops, chan, subscribers, pc>>
  BY DEF Peer, Read, Disconnect, routerVars, serverVars, clnVars
<1>3. /\ Router!HasSender(s)' <=> Router!HasSender(s)
      /\ GivenUp(s)' <=> GivenUp(s)
  BY <1>2, SenderKept DEF GivenUp, Router!MaxDrops
<1>4. CASE Read(s)
  <2>1. /\ Told(s)' <=> Told(s)
        /\ Revealed(s)' <=> Revealed(s)
        /\ got[s] \subseteq got'[s] /\ UNCHANGED gone
    BY <1>4, ReadKeeps DEF Read
  <2>2. Listens(s)'
    BY <1>1, <1>2, <1>3, <2>1 DEF Listens
  <2> QED
    BY <1>2, <2>1, <2>2, StaysOnItsWay
<1>5. CASE Disconnect(s)
  <2>1. s \in gone' /\ got' = got /\ out'[s] = <<>>
    BY <1>5 DEF Disconnect, OwnershipInv, TypeOK
  <2>2. Revealed(s)' => Revealed(s)
    BY <2>1 DEF Revealed, Has
  <2> QED
    BY <1>1, <1>2, <2>1, <2>2 DEF Listens
<1> QED
  BY <1>4, <1>5 DEF Peer

(***************************************************************************)
(* So a task or a client neither misses nor loses any news.                *)
(***************************************************************************)
LEMMA TaskDelivers ==
    ASSUME OwnershipInv, DeliveryInv, NEW s \in Stream, Task(s) \/ Peer(s)
    PROVE  DeliveryInv' /\ PaidInvoiceIsKeptStep
<1>1. /\ \A q \in Stream \ {s} : LeavesAlone(q)
      /\ UNCHANGED <<job, bridge, notified, drops>>
      /\ \A q \in Stream : rx[q] = "closed" => rx'[q] = "closed"
  BY TaskAlone
<1>2. NewsTyped' /\ Condemned'
  BY <1>1, SideKept DEF DeliveryInv
<1>3. ASSUME NEW q \in Stream, Kind[q] = "invoice"
      PROVE  Listens(q)' /\ (OnItsWay(q) /\ q \notin gone' => OnItsWay(q)')
  <2>1. CASE q = s
    BY <1>3, <2>1, TaskListens, PeerListens
  <2>2. CASE q # s
    <3>1. LeavesAlone(q)
      BY <1>1, <2>2
    <3>2. Listens(q)'
      BY <1>1, <1>3, <3>1, AloneListens, SenderKept DEF DeliveryInv, LeavesAlone
    <3>3. OnItsWay(q) => OnItsWay(q)'
      BY <1>1, <3>1 DEF OnItsWay, Dispatched, HoldsNews, Told, Has, Router!Busy, LeavesAlone
    <3> QED
      BY <3>2, <3>3
  <2> QED
    BY <2>1, <2>2
<1>4. PaidInvoiceIsKeptStep
  BY <1>1, <1>3 DEF PaidInvoiceIsKeptStep
<1> QED
  BY <1>2, <1>3, <1>4 DEF DeliveryInv

(***************************************************************************)
(* CLN announces that an invoice was paid only once its client has read    *)
(* the bolt11, and the notification goes to the end of the bridge.         *)
(***************************************************************************)
LEMMA ClnDelivers ==
    ASSUME OwnershipInv, DeliveryInv, Cln
    PROVE  DeliveryInv' /\ PaidInvoiceIsKeptStep
<1> USE StreamSessionAssumption
<1> DEFINE Note == [type : Type, body : Body]
<1>1. /\ UNCHANGED <<subscribers, drops, chan, rx, job, pc, out, gone, got>>
      /\ bridge \in Seq(Note)
  BY DEF Cln, NotifyPayment, NotifyPaid, Announce, NotifyOther, routerVars, serverVars,
     clientVars, OwnershipInv, TypeOK
<1>2. PICK note \in Note :
          /\ bridge' = Append(bridge, note)
          /\ \/ UNCHANGED notified /\ note.body \in {"part", "other"}
             \/ /\ note.body \in Stream /\ note.type = TypeOf[note.body]
                /\ notified' = notified \cup {note.body}
                /\ Kind[note.body] = "invoice" => "created" \in got[note.body]
  <2>1. CASE \E t \in Type, b \in {"part", "other"} : NotifyOther(t, b)
    <3>1. PICK t \in Type, b \in {"part", "other"} : NotifyOther(t, b)
      BY <2>1
    <3>2. [type |-> t, body |-> b] \in Note
      BY DEF Body
    <3> QED
      BY <3>1, <3>2 DEF NotifyOther, Enqueue
  <2>2. CASE \E s \in Stream : NotifyPayment(s) \/ NotifyPaid(s)
    <3>1. PICK s \in Stream : NotifyPayment(s) \/ NotifyPaid(s)
      BY <2>2
    <3>2. [type |-> TypeOf[s], body |-> s] \in Note
      BY DEF Body
    <3>3. /\ Announce(s)
          /\ Kind[s] = "invoice" => "created" \in got[s]
      BY <3>1 DEF NotifyPayment, NotifyPaid
    <3> QED
      BY <3>2, <3>3 DEF Announce, Enqueue
  <2> QED
    BY <2>1, <2>2 DEF Cln
<1> HIDE DEF Note
<1>3. /\ \A b : HoldsNews(bridge', b) <=> HoldsNews(bridge, b) \/ note.body = b
      /\ DOMAIN bridge' = 1..(Len(bridge) + 1) /\ DOMAIN bridge = 1..Len(bridge)
      /\ \A n \in 1..Len(bridge) : bridge'[n] = bridge[n]
      /\ bridge'[Len(bridge) + 1] = note
  <2>1. \A b : HoldsNews(Append(bridge, note), b) <=> HoldsNews(bridge, b) \/ note.body = b
    BY <1>1, NewsAppend
  <2> QED
    BY <1>1, <1>2, <2>1
<1>4. NewsTyped'
  <2>1. notified \subseteq notified'
    BY <1>2
  <2>2. ASSUME NEW s \in Stream, Dispatched(s)'
        PROVE  job'["bridge"].event.type = TypeOf[s] /\ s \in notified'
    BY <1>1, <2>1, <2>2 DEF DeliveryInv, NewsTyped, Dispatched, Router!Busy
  <2>3. ASSUME NEW s \in Stream, NEW n \in DOMAIN bridge', bridge'[n].body = s
        PROVE  bridge'[n].type = TypeOf[s] /\ s \in notified'
    <3>1. CASE n \in DOMAIN bridge
      <4>1. bridge'[n] = bridge[n]
        BY <1>3, <3>1
      <4> QED
        BY <2>1, <2>3, <3>1, <4>1 DEF DeliveryInv, NewsTyped
    <3>2. CASE n \notin DOMAIN bridge
      <4>1. Len(bridge) \in Nat
        BY <1>1
      <4>2. bridge'[n] = note
        BY <1>3, <3>2, <4>1
      <4> QED
        BY <1>2, <2>3, <4>2
    <3> QED
      BY <3>1, <3>2
  <2> QED
    BY <2>2, <2>3 DEF NewsTyped
<1>5. Condemned'
  BY <1>1 DEF DeliveryInv, Condemned, Router!Busy, Router!MaxDrops
<1>6. ASSUME NEW q \in Stream, Kind[q] = "invoice" PROVE Listens(q)'
  <2>1. /\ Router!HasSender(q)' <=> Router!HasSender(q)
        /\ GivenUp(q)' <=> GivenUp(q)
        /\ Told(q)' <=> Told(q)
        /\ Revealed(q)' <=> Revealed(q)
    BY <1>1, SenderKept DEF GivenUp, Told, Revealed, Has, Router!MaxDrops
  <2>2. q \in notified' => "created" \in got'[q]
    BY <1>1, <1>2, <1>6 DEF DeliveryInv, Listens
  <2> QED
    BY <1>1, <1>6, <2>1, <2>2 DEF DeliveryInv, Listens
<1>7. PaidInvoiceIsKeptStep
  <2>1. ASSUME NEW q \in Stream, OnItsWay(q) \/ q \in notified' \ notified
        PROVE  OnItsWay(q)'
    <3>1. CASE q \in notified' \ notified
      <4>1. HoldsNews(bridge', q)
        BY <1>2, <1>3, <3>1
      <4> QED
        BY <4>1 DEF OnItsWay
    <3>2. CASE OnItsWay(q)
      BY <1>1, <1>3, <3>2 DEF OnItsWay, Dispatched, HoldsNews, Told, Has, Router!Busy
    <3> QED
      BY <2>1, <3>1, <3>2
  <2> QED
    BY <2>1 DEF PaidInvoiceIsKeptStep
<1> QED
  BY <1>4, <1>5, <1>6, <1>7 DEF DeliveryInv

(***************************************************************************)
(* The dispatcher takes a notification and snapshots the subscribers of    *)
(* its type in one step: a request that is subscribed is among them.       *)
(***************************************************************************)
LEMMA TakeDelivers ==
    ASSUME OwnershipInv, DeliveryInv, BridgeTake
    PROVE  DeliveryInv' /\ PaidInvoiceIsKeptStep
<1> DEFINE Note == [type : Type, body : Body]
           note == Head(bridge)
           reached == Router!ListOf(note.type)
<1>1. /\ UNCHANGED <<subscribers, drops, chan, rx, pc, out, gone, got, notified>>
      /\ bridge \in Seq(Note) /\ bridge # <<>> /\ bridge' = Tail(bridge)
      /\ ~Router!Busy("bridge")
  BY DEF BridgeTake, Router!Snapshot, serverVars, clientVars, OwnershipInv, TypeOK
<1>2. \/ reached = {} /\ UNCHANGED job
      \/ /\ reached # {}
         /\ job'["bridge"].step = "send" /\ job'["bridge"].todo = reached
         /\ job'["bridge"].doomed = {}
         /\ job'["bridge"].event.type = note.type
         /\ job'["bridge"].event.body = note.body
  BY RouterShape DEF BridgeTake, Router!Snapshot, Router!Sending, Dispatcher
<1>3. /\ Router!Busy("bridge")' =>
            /\ job'["bridge"].todo = reached /\ job'["bridge"].doomed = {}
            /\ job'["bridge"].event.type = note.type
            /\ job'["bridge"].event.body = note.body
      /\ reached # {} => Router!Busy("bridge")'
  BY <1>1, <1>2 DEF Router!Busy
<1>4. /\ DOMAIN bridge = 1..Len(bridge) /\ DOMAIN bridge' = 1..(Len(bridge) - 1)
      /\ Len(bridge) \in Nat /\ Len(bridge) >= 1 /\ note = bridge[1]
      /\ \A n \in 1..(Len(bridge) - 1) : bridge'[n] = bridge[n + 1]
  <2> HIDE DEF Note
  <2> QED
    BY <1>1
<1>5. /\ \A b : HoldsNews(bridge, b) => note.body = b \/ HoldsNews(bridge', b)
      /\ \A s \in Stream :
             note.body = s => note.type = TypeOf[s] /\ s \in notified
  <2>1. \A b : HoldsNews(bridge, b) => note.body = b \/ HoldsNews(Tail(bridge), b)
    <3> HIDE DEF Note
    <3> QED
      BY <1>1, NewsTail
  <2>2. 1 \in DOMAIN bridge
    BY <1>4
  <2> QED
    BY <1>1, <1>4, <2>1, <2>2 DEF DeliveryInv, NewsTyped
<1> HIDE DEF note, Note
<1>6. NewsTyped'
  <2>1. ASSUME NEW s \in Stream, Dispatched(s)'
        PROVE  job'["bridge"].event.type = TypeOf[s] /\ s \in notified'
    BY <1>1, <1>3, <1>5, <2>1 DEF Dispatched
  <2>2. ASSUME NEW s \in Stream, NEW n \in DOMAIN bridge', bridge'[n].body = s
        PROVE  bridge'[n].type = TypeOf[s] /\ s \in notified'
    <3>1. n + 1 \in DOMAIN bridge /\ bridge'[n] = bridge[n + 1]
      BY <1>4
    <3> QED
      BY <1>1, <2>2, <3>1 DEF DeliveryInv, NewsTyped
  <2> QED
    BY <2>1, <2>2 DEF NewsTyped
<1>7. Condemned'
  BY <1>3 DEF Condemned
<1>8. \A q \in Stream :
          /\ Router!HasSender(q)' <=> Router!HasSender(q)
          /\ Router!HasSender(q) <=> q \in subscribers
          /\ GivenUp(q)' <=> GivenUp(q)
          /\ Told(q)' <=> Told(q)
          /\ Revealed(q)' <=> Revealed(q)
  BY <1>1, <1>3, Senders, SendersNext
  DEF GivenUp, Told, Revealed, Has, Router!MaxDrops, Router!ListOf
<1>9. ASSUME NEW q \in Stream, Kind[q] = "invoice" PROVE Listens(q)'
  BY <1>1, <1>8, <1>9 DEF DeliveryInv, Listens
<1>10. ASSUME NEW q \in Stream, Kind[q] = "invoice", q \notin gone', OnItsWay(q)
       PROVE  OnItsWay(q)' \/ (HoldsNews(bridge, q) /\ GivenUp(q))
  <2>1. CASE HoldsNews(bridge', q) \/ HoldsNews(chan[q], q) \/ pc[q] = "forward" \/ Told(q)
    BY <1>1, <1>8, <2>1 DEF OnItsWay, HoldsNews
  <2>2. CASE HoldsNews(bridge, q) /\ ~HoldsNews(bridge', q) /\ ~Told(q)
    <3>1. note.type = TypeOf[q] /\ q \in notified /\ note.body = q
      BY <1>5, <2>2
    <3>2. q \in subscribers \/ GivenUp(q)
      BY <1>1, <1>10, <2>2, <3>1 DEF DeliveryInv, Listens, Revealed, InTask, Ending
    <3>3. CASE q \in subscribers
      <4>1. q \in reached
        BY <3>1, <3>3 DEF Router!ListOf
      <4>2. Dispatched(q)' /\ q \in job'["bridge"].todo
        BY <1>3, <3>1, <4>1 DEF Dispatched
      <4> QED
        BY <4>2 DEF OnItsWay
    <3> QED
      BY <2>2, <3>2, <3>3
  <2> QED
    BY <1>1, <1>10, <2>1, <2>2 DEF OnItsWay, Dispatched
<1>11. PaidInvoiceIsKeptStep
  BY <1>1, <1>10 DEF PaidInvoiceIsKeptStep
<1> QED
  BY <1>6, <1>7, <1>9, <1>11 DEF DeliveryInv

(***************************************************************************)
(* One try_send: the event reaches the channel of the request, or counts   *)
(* as lost; a receiver that is gone belongs to a client already told.      *)
(***************************************************************************)
LEMMA SendDelivers ==
    ASSUME OwnershipInv, DeliveryInv, BridgeSend
    PROVE  DeliveryInv' /\ PaidInvoiceIsKeptStep
<1>1. PICK x \in Stream : Router!TrySend("bridge", x)
  BY DEF BridgeSend
<1> DEFINE before == job["bridge"]
           after == job'["bridge"]
<1>2. /\ Router!Busy("bridge") /\ x \in before.todo
      /\ UNCHANGED <<subscribers, rx, pc, out, gone, got, bridge, notified>>
      /\ before \in Router!Dispatching /\ before.event \in Router!Event
  BY <1>1, RouterShape DEF BridgeSend, Router!TrySend, serverVars, clientVars, clnVars
<1>3. /\ Router!Busy("bridge")'
      /\ after.event = before.event
      /\ after.todo = before.todo \ {x}
      /\ \/ after.doomed = before.doomed
         \/ /\ after.doomed = before.doomed \cup {x}
            /\ rx[x] = "closed" \/ drops'[x] >= Router!MaxDrops
  <2>1. "bridge" \in Dispatcher /\ job \in [Dispatcher -> Router!Job]
    BY RouterShape DEF Dispatcher
  <2>2. \/ job' = [job EXCEPT !["bridge"] = [before EXCEPT !.todo = @ \ {x}]]
        \/ /\ job' = [job EXCEPT !["bridge"] =
                        [before EXCEPT !.todo = @ \ {x}, !.doomed = @ \cup {x}]]
           /\ rx[x] = "closed" \/ drops'[x] >= Router!MaxDrops
    <3>1. CASE Router!Deliver("bridge", x)
      BY <3>1 DEF Router!Deliver, Router!Sent
    <3>2. CASE Router!Full("bridge", x)
      <4>1. drops'[x] = drops[x] + 1
        BY <3>2, RouterShape DEF Router!Full
      <4> QED
        BY <3>2, <4>1 DEF Router!Full, Router!Sent, Router!Doomed
    <3>3. CASE Router!Dead("bridge", x)
      BY <3>3 DEF Router!Dead, Router!Doomed
    <3> QED
      BY <1>1, <3>1, <3>2, <3>3 DEF Router!TrySend
  <2>3. before.step = "send" /\ DOMAIN before = {"step", "event", "todo", "doomed"}
    BY <1>2 DEF Router!Dispatching
  <2>4. \/ after = [before EXCEPT !.todo = @ \ {x}]
        \/ /\ after = [before EXCEPT !.todo = @ \ {x}, !.doomed = @ \cup {x}]
           /\ rx[x] = "closed" \/ drops'[x] >= Router!MaxDrops
    BY <2>1, <2>2
  <2> HIDE DEF before, after
  <2>5. after.step = "send"
    BY <2>3, <2>4
  <2>6. after.event = before.event /\ after.todo = before.todo \ {x}
    BY <2>3, <2>4
  <2>7. \/ after.doomed = before.doomed
        \/ /\ after.doomed = before.doomed \cup {x}
           /\ rx[x] = "closed" \/ drops'[x] >= Router!MaxDrops
    BY <2>3, <2>4
  <2>8. Router!Busy("bridge")'
    BY <2>5 DEF Router!Busy, after
  <2> QED
    BY <2>6, <2>7, <2>8
<1>4. /\ \A q \in Stream \ {x} : chan'[q] = chan[q] /\ drops'[q] = drops[q]
      /\ \/ HoldsNews(chan'[x], before.event.body)
            /\ \A b : HoldsNews(chan[x], b) => HoldsNews(chan'[x], b)
         \/ drops'[x] > drops[x] /\ UNCHANGED chan
         \/ rx[x] = "closed" /\ UNCHANGED chan
  <2>1. CASE Router!Deliver("bridge", x)
    <3>1. /\ chan[x] \in Seq(Router!Event) /\ chan'[x] = Append(chan[x], before.event)
          /\ \A q \in Stream \ {x} : chan'[q] = chan[q] /\ drops'[q] = drops[q]
      BY <2>1, RouterShape DEF Router!Deliver
    <3>2. \A b : HoldsNews(Append(chan[x], before.event), b)
                   <=> HoldsNews(chan[x], b) \/ before.event.body = b
      BY <1>2, <3>1, NewsAppend
    <3> QED
      BY <3>1, <3>2
  <2>2. CASE Router!Full("bridge", x)
    BY <2>2, RouterShape DEF Router!Full
  <2>3. CASE Router!Dead("bridge", x)
    BY <2>3 DEF Router!Dead
  <2> QED
    BY <1>1, <2>1, <2>2, <2>3 DEF Router!TrySend
<1> HIDE DEF before, after
<1>5. /\ Dispatched(x)' <=> Dispatched(x)
      /\ \A q \in Stream : Dispatched(q)' <=> Dispatched(q)
  BY <1>2, <1>3 DEF Dispatched, before, after
<1>6. NewsTyped'
  BY <1>2, <1>3, <1>5 DEF DeliveryInv, NewsTyped, before, after
<1>7. Condemned'
  <2>1. /\ before.todo \cap before.doomed = {} /\ before.doomed \subseteq Stream
        /\ \A s \in before.doomed : rx[s] = "closed" \/ drops[s] >= Router!MaxDrops
    BY <1>2 DEF DeliveryInv, Condemned, Router!Dispatching, before
  <2>2. after.todo \cap after.doomed = {}
    BY <1>3, <2>1
  <2>3. ASSUME NEW s \in after.doomed
        PROVE  rx'[s] = "closed" \/ drops'[s] >= Router!MaxDrops
    <3>1. CASE s = x
      BY <1>2, <1>3, <2>1, <3>1
    <3>2. CASE s # x
      BY <1>2, <1>3, <1>4, <2>1, <3>2
    <3> QED
      BY <3>1, <3>2
  <2> QED
    BY <2>2, <2>3 DEF Condemned, after, Router!MaxDrops
<1>8. /\ \A q \in Stream \ {x} :
            /\ Router!HasSender(q)' <=> Router!HasSender(q)
            /\ GivenUp(q)' <=> GivenUp(q)
      /\ Router!HasSender(x)
      /\ Router!HasSender(x)' <=> x \in subscribers
      /\ \A q \in Stream :
            (Told(q)' <=> Told(q)) /\ (Revealed(q)' <=> Revealed(q))
  BY <1>2, <1>3, <1>4, Senders, SendersNext
  DEF GivenUp, Told, Revealed, Has, Router!MaxDrops, before, after
<1>9. Kind[x] = "invoice" /\ x \notin gone /\ ~Told(x) =>
          /\ pc[x] \in InTask \cup Ending => x \in subscribers
          /\ pc[x] \notin Ending
  BY <1>8 DEF DeliveryInv, Listens, GivenUp
<1>10. ASSUME NEW q \in Stream, Kind[q] = "invoice" PROVE Listens(q)'
  <2>1. Listens(q)
    BY <1>10 DEF DeliveryInv
  <2>2. CASE q = x
    BY <1>2, <1>8, <1>9, <1>10, <2>1, <2>2 DEF Listens
  <2>3. CASE q # x
    BY <1>2, <1>4, <1>8, <2>1, <2>3 DEF Listens
  <2> QED
    BY <2>2, <2>3
<1>11. ASSUME NEW q \in Stream, Kind[q] = "invoice", q \notin gone', OnItsWay(q)
       PROVE  OnItsWay(q)' \/ (Dispatched(q) /\ drops'[q] > drops[q])
  <2>1. CASE HoldsNews(bridge, q) \/ pc[q] = "forward" \/ Told(q)
    BY <1>2, <1>8, <2>1 DEF OnItsWay
  <2>2. CASE HoldsNews(chan[q], q)
    BY <1>4, <2>2 DEF OnItsWay, HoldsNews
  <2>3. CASE Dispatched(q) /\ q \in before.todo /\ q # x
    BY <1>3, <1>5, <2>3 DEF OnItsWay, before, after
  <2>4. CASE Dispatched(q) /\ q = x /\ ~Told(q)
    <3>1. before.event.body = q
      BY <2>4 DEF Dispatched, before
    <3>2. CASE HoldsNews(chan'[q], q)
      BY <3>2 DEF OnItsWay
    <3>3. CASE drops'[q] > drops[q]
      BY <2>4, <3>3
    <3>4. rx[q] # "closed"
      <4>1. q \in notified
        BY <2>4 DEF DeliveryInv, NewsTyped
      <4>2. pc[q] \in {"loop", "forward"} \cup Ending
        BY <1>11, <4>1 DEF DeliveryInv, Listens, Revealed
      <4>3. pc[q] \in InTask
        BY <1>2, <1>9, <1>11, <2>4, <4>2 DEF InTask
      <4> QED
        BY <4>3 DEF OwnershipInv, Owns
    <3> QED
      BY <1>4, <2>4, <3>1, <3>2, <3>3, <3>4
  <2> QED
    BY <1>11, <2>1, <2>2, <2>3, <2>4 DEF OnItsWay, before
<1>12. PaidInvoiceIsKeptStep
  BY <1>2, <1>11 DEF PaidInvoiceIsKeptStep
<1> QED
  BY <1>6, <1>7, <1>10, <1>12 DEF DeliveryInv

(***************************************************************************)
(* The end of a dispatch removes only requests whose task is over or that  *)
(* have missed too many events.                                            *)
(***************************************************************************)
LEMMA FinishDelivers ==
    ASSUME OwnershipInv, DeliveryInv, BridgeFinish
    PROVE  DeliveryInv' /\ PaidInvoiceIsKeptStep
<1>1. /\ Router!Busy("bridge") /\ job["bridge"].todo = {}
      /\ subscribers' = subscribers \ job["bridge"].doomed
      /\ UNCHANGED <<drops, chan, rx, pc, out, gone, got, bridge, notified>>
  BY DEF BridgeFinish, Router!Finish, Router!Remove, serverVars, clientVars, clnVars
<1>2. ~Router!Busy("bridge")'
  BY RouterShape DEF BridgeFinish, Router!Finish, Router!Busy, Router!Resting, Dispatcher
<1>3. NewsTyped' /\ Condemned'
  BY <1>1, <1>2 DEF DeliveryInv, NewsTyped, Condemned, Dispatched
<1>4. \A q \in Stream :
          /\ Router!HasSender(q) <=> q \in subscribers
          /\ Router!HasSender(q)' <=> q \in subscribers'
          /\ (Told(q)' <=> Told(q)) /\ (Revealed(q)' <=> Revealed(q))
  BY <1>1, <1>2, Senders, SendersNext DEF Told, Revealed, Has
<1>5. ASSUME NEW q \in Stream, Kind[q] = "invoice" PROVE Listens(q)'
  <2>1. Listens(q)
    BY <1>5 DEF DeliveryInv
  <2>2. ASSUME q \notin gone, ~Told(q), pc[q] \in InTask \cup Ending
        PROVE  q \in subscribers' \/ GivenUp(q)'
    <3>1. CASE q \in subscribers /\ q \in job["bridge"].doomed
      <4>1. pc[q] \in InTask
        BY <1>4, <2>1, <2>2, <3>1 DEF Listens
      <4>2. rx[q] # "closed"
        BY <4>1 DEF OwnershipInv, Owns
      <4>3. drops[q] >= Router!MaxDrops
        BY <1>1, <3>1, <4>2 DEF DeliveryInv, Condemned
      <4> QED
        BY <1>1, <1>4, <3>1, <4>3 DEF GivenUp, Router!MaxDrops
    <3>2. CASE q \in subscribers /\ q \notin job["bridge"].doomed
      BY <1>1, <3>2
    <3>3. CASE q \notin subscribers
      BY <1>1, <1>4, <2>1, <2>2, <3>3 DEF Listens, GivenUp, Router!MaxDrops
    <3> QED
      BY <3>1, <3>2, <3>3
  <2> QED
    BY <1>1, <1>4, <2>1, <2>2 DEF Listens
<1>6. PaidInvoiceIsKeptStep
  <2>1. \A q \in Stream : OnItsWay(q) => OnItsWay(q)'
    BY <1>1, <1>4 DEF OnItsWay, HoldsNews
  <2> QED
    BY <1>1, <2>1 DEF PaidInvoiceIsKeptStep
<1> QED
  BY <1>3, <1>5, <1>6 DEF DeliveryInv

-----------------------------------------------------------------------------
LEMMA Initially == Init => SessionInv
<1> SUFFICES ASSUME Init PROVE SessionInv
  OBVIOUS
<1>1. OwnershipInv
  BY OwnershipInitially
<1>2. ~Router!Busy("bridge")
  BY DEF Init, Router!Init, Router!Busy, Router!Resting, Dispatcher
<1>3. NewsTyped /\ Condemned
  BY <1>2 DEF Init, NewsTyped, Condemned, Dispatched
<1>4. \A s \in Stream : Listens(s)
  BY DEF Init, Listens, Revealed, Has, InTask, Ending
<1> QED
  BY <1>1, <1>3, <1>4 DEF SessionInv, DeliveryInv

(***************************************************************************)
(* Every step of the server preserves SessionInv, and keeps the news that  *)
(* an invoice was paid.                                                    *)
(***************************************************************************)
LEMMA Inductive ==
    ASSUME SessionInv, [Next]_vars
    PROVE  SessionInv' /\ [PaidInvoiceIsKeptStep]_vars
<1>1. OwnershipInv /\ DeliveryInv
  BY DEF SessionInv
<1>2. OwnershipInv'
  BY <1>1, OwnershipInductive
<1>3. CASE Next
  <2>1. DeliveryInv' /\ PaidInvoiceIsKeptStep
    BY <1>1, <1>3, HandlerDelivers, TaskDelivers, ClnDelivers, TakeDelivers,
       SendDelivers, FinishDelivers
    DEF Next, Bridge
  <2> QED
    BY <1>2, <2>1 DEF SessionInv
<1>4. CASE UNCHANGED vars
  <2>1. DeliveryInv'
    BY <1>1, <1>4
    DEF vars, routerVars, serverVars, clientVars, clnVars, DeliveryInv, NewsTyped, Listens,
        Condemned, Dispatched, Told, Revealed, GivenUp, Has, Router!HasSender,
        Router!Busy, Router!MaxDrops
  <2> QED
    BY <1>2, <1>4, <2>1 DEF SessionInv
<1> QED
  BY <1>3, <1>4

(***************************************************************************)
(* Whatever clients, CLN and the bridge do and in whatever order: queues   *)
(* keep to their capacity and streams to their budget, the router's        *)
(* counter is exact and its caps hold, every subscriber and every permit   *)
(* belongs to a request that is still running, and whoever has shown its   *)
(* bolt11 to a client listens until that client is told.                   *)
(***************************************************************************)
THEOREM Invariance == Spec => []SessionInv
<1>1. SessionInv /\ [Next]_vars => SessionInv'
  BY Inductive
<1> QED
  BY <1>1, Initially, PTL DEF Spec

(***************************************************************************)
(* No step loses the news that an invoice was paid, between CLN's          *)
(* announcement and the client, unless its channel is full or it was       *)
(* evicted: for any number of requests, clients, queues and capacities.    *)
(***************************************************************************)
THEOREM PaidInvoicesKept == Spec => PaidInvoiceIsKept
<1>1. SessionInv /\ [Next]_vars => [PaidInvoiceIsKeptStep]_vars
  BY Inductive
<1> QED
  BY <1>1, Invariance, PTL DEF Spec, PaidInvoiceIsKept

(***************************************************************************)
(* Availability invariant 12: a subscriber always belongs to a task that   *)
(* holds a permit, a permit to a handler or a task that still runs.        *)
(***************************************************************************)
THEOREM NothingOutlives == Spec => []SubscriberHoldsPermit
<1>1. SessionInv => SubscriberHoldsPermit
  BY DEF SessionInv, OwnershipInv
<1> QED
  BY <1>1, Invariance, PTL

-----------------------------------------------------------------------------
(* The server uses its two parts as they promise to be used.               *)

(***************************************************************************)
(* Handlers and tasks use the router only through its operations, so they  *)
(* get everything it promises: the composition implements the router.      *)
(***************************************************************************)
THEOREM RouterImplemented == Spec => RP!Spec
<1>1. Init => RP!Init
  BY SameInit DEF Init
<1>2. SessionInv /\ [Next]_vars => [RP!Next]_(RP!vars)
  BY RouterStep DEF SessionInv, OwnershipInv
<1> QED
  BY <1>1, <1>2, Invariance, PTL DEF Spec, RP!Spec

(***************************************************************************)
(* The server has one dispatcher, so no stream misses slow_subscriber_     *)
(* max_drops events between two it takes, and dispatch evicts only those   *)
(* that did or whose receiver is gone.                                     *)
(***************************************************************************)
THEOREM StreamsLoseLittle == Spec => RP!BoundedLoss /\ RP!EvictionJustified /\ []RP!StreakExact
<1>1. RP!OneDispatcher
  BY DEF RP!OneDispatcher, Dispatcher
<1> QED
  BY <1>1, RouterConfigured, RouterImplemented, RP!LossBounded, RP!EvictionsJustified, RP!StreaksExact

(***************************************************************************)
(* A permit is taken only by acquire and given back only by the drop of    *)
(* one that is held: the composition keeps to the stream budget.           *)
(***************************************************************************)
THEOREM BudgetImplemented == Spec => Budget!Spec
<1>1. Init => Budget!Init
  BY DEF Init
<1>2. [Next]_vars => [Budget!Next]_active
  <2> SUFFICES ASSUME [Next]_vars PROVE Budget!Next \/ UNCHANGED active
    OBVIOUS
  <2>1. ASSUME NEW s \in Stream, Handler(s)
        PROVE  Budget!Open(s) \/ Budget!Close(s) \/ UNCHANGED active
    BY <2>1 DEF Handler, Admit, Overloaded, BackendActs, BackendFails,
       BackendReturns, Prepare, Join, JoinRefused, Cancelled
  <2>2. ASSUME NEW s \in Stream, Task(s)
        PROVE  Budget!Close(s) \/ UNCHANGED active
    BY <2>2 DEF Task, SendCreated, TakeEvent, Hangup, EndOfEvents, Forward, Leave,
       ReleasePermit, DropChannels
  <2>3. ASSUME NEW s \in Stream, Peer(s) PROVE UNCHANGED active
    BY <2>3 DEF Peer, Read, Disconnect, serverVars
  <2>4. Cln \/ Bridge \/ UNCHANGED vars => UNCHANGED active
    BY DEF Cln, NotifyPayment, NotifyPaid, NotifyOther, Announce, Bridge, BridgeTake,
       BridgeSend, BridgeFinish, serverVars, vars
  <2> QED
    BY <2>1, <2>2, <2>3, <2>4 DEF Next, Budget!Next
<1> QED
  BY <1>1, <1>2, PTL DEF Spec, Budget!Spec

-----------------------------------------------------------------------------
(* Refusals.                                                               *)

(***************************************************************************)
(* Permits and subscribers at a request that subscribes: it has a permit   *)
(* and is no subscriber yet, so every subscriber is another request with a *)
(* permit, and the router counts nobody else.                              *)
(***************************************************************************)
LEMMA SubscribersAreOthers ==
    ASSUME OwnershipInv, NEW s \in Stream, pc[s] = "subscribe"
    PROVE  /\ s \in active /\ active \subseteq Stream /\ IsFiniteSet(active)
           /\ subscribers \subseteq active \ {s}
           /\ tracked = Cardinality(subscribers)
<1>1. /\ active \subseteq Stream
      /\ subscribers \subseteq active /\ tracked = Cardinality(subscribers)
  BY SameCardinality
  DEF OwnershipInv, TypeOK, SubscriberHoldsPermit, Router!IInv, Router!CounterExact
<1>2. s \in active /\ s \notin subscribers
  BY DEF OwnershipInv, Owns, InHandler, InAwait, InTask
<1>3. IsFiniteSet(active)
  BY <1>1, StreamSessionAssumption, FS_Subset
<1> QED
  BY <1>1, <1>2, <1>3

(***************************************************************************)
(* So when the router refuses, others with permits fill one of its caps.   *)
(***************************************************************************)
LEMMA RefusedByOthers ==
    ASSUME OwnershipInv, NEW s \in Stream, pc[s] = "subscribe", Router!Refused(s)
    PROVE  FilledByOthers(s)
<1> DEFINE others == active \ {s}
           alike == {o \in others : TypeOf[o] = TypeOf[s]}
<1>1. /\ IsFiniteSet(others) /\ IsFiniteSet(alike) /\ alike \subseteq others
      /\ subscribers \subseteq others /\ tracked = Cardinality(subscribers)
  BY SubscribersAreOthers, FS_Subset
<1>2. Router!ListOf(TypeOf[s]) \subseteq alike
  BY <1>1 DEF Router!ListOf
<1>3. /\ Cardinality(subscribers) <= Cardinality(others)
      /\ Cardinality(Router!ListOf(TypeOf[s])) <= Cardinality(alike)
      /\ Cardinality(subscribers) \in Nat /\ Cardinality(others) \in Nat
      /\ Cardinality(Router!ListOf(TypeOf[s])) \in Nat /\ Cardinality(alike) \in Nat
  BY <1>1, <1>2, FS_Subset, FS_CardinalityType
<1>4. Router!GlobalCap \in Nat /\ Router!TypeCap \in Nat
  BY StreamSessionAssumption DEF Router!GlobalCap, Router!TypeCap, Router!AtLeastOne
<1>5. \/ Cardinality(Router!ListOf(TypeOf[s])) >= Router!TypeCap
      \/ tracked >= Router!GlobalCap
  BY SameCardinality DEF Router!Refused
<1> HIDE DEF others, alike
<1>6. Cardinality(others) >= Router!GlobalCap \/ Cardinality(alike) >= Router!TypeCap
  BY <1>1, <1>3, <1>4, <1>5
<1> QED
  BY <1>6 DEF FilledByOthers, others, alike

\* No request that has not begun has reached CLN.
NothingBefore == \A s \in Stream : pc[s] = "idle" => s \notin effect

\* What a step does to the place of a request and to the effects.
HandlerGoes(s) ==
    \/ /\ UNCHANGED effect
       /\ \E label \in {"backend", "subscribe", "failed", "answered", "created",
                        "loop", "done"} : pc' = [pc EXCEPT ![s] = label]
    \/ /\ UNCHANGED effect
       /\ pc[s] = "idle" /\ pc' = [pc EXCEPT ![s] = "refused"]
    \/ /\ UNCHANGED effect /\ pc[s] = "subscribe" /\ Router!Refused(s)
       /\ Budget!Close(s)
       /\ pc' = [pc EXCEPT ![s] = "refused"]
    \/ /\ effect' = effect \cup {s}
       /\ \E label \in {"effected", "done"} : pc' = [pc EXCEPT ![s] = label]

TaskGoes(s) ==
    /\ UNCHANGED effect
    /\ \E label \in {"loop", "forward", "unsubscribe", "release", "drop", "done"} :
           pc' = [pc EXCEPT ![s] = label]

LEMMA RequestsGo ==
    ASSUME [Next]_vars
    PROVE  \/ \E s \in Stream : HandlerGoes(s) \/ TaskGoes(s)
           \/ UNCHANGED <<pc, effect>>
<1>1. ASSUME NEW s \in Stream, Handler(s) PROVE HandlerGoes(s)
  BY <1>1 DEF Handler, Admit, Overloaded, BackendActs, BackendFails, BackendReturns,
     Prepare, Join, JoinRefused, Router!SubscribeRefused, Cancelled, Goto, clnVars, HandlerGoes
<1>2. ASSUME NEW s \in Stream, Task(s) PROVE TaskGoes(s)
  BY <1>2 DEF Task, SendCreated, TakeEvent, Hangup, EndOfEvents, Forward, Leave,
     ReleasePermit, DropChannels, Goto, clnVars, TaskGoes
<1>3. ASSUME NEW s \in Stream, Peer(s) PROVE UNCHANGED <<pc, effect>>
  BY <1>3 DEF Peer, Read, Disconnect, serverVars, clnVars
<1>4. Cln \/ Bridge \/ UNCHANGED vars => UNCHANGED <<pc, effect>>
  BY DEF Cln, NotifyPayment, NotifyPaid, NotifyOther, Announce, Bridge, BridgeTake,
     BridgeSend, BridgeFinish, serverVars, clnVars, vars
<1> QED
  BY <1>1, <1>2, <1>3, <1>4 DEF Next

LEMMA RefusalStep ==
    ASSUME OwnershipInv, NothingBefore, [Next]_vars
    PROVE  NothingBefore' /\ LateRefusalIsJustifiedStep
<1>1. pc \in [Stream -> {"idle", "drop"} \cup Ended \cup InHandler \cup InTask]
  BY DEF OwnershipInv, TypeOK
<1>2. ASSUME NEW s \in Stream, HandlerGoes(s)
      PROVE  NothingBefore' /\ LateRefusalIsJustifiedStep
  <2>1. NothingBefore'
    BY <1>1, <1>2 DEF HandlerGoes, NothingBefore
  <2>2. ASSUME NEW r \in Stream, pc[r] # "refused", pc'[r] = "refused", r \in effect
        PROVE  r \in active /\ active' = active \ {r} /\ FilledByOthers(r)
    <3>1. r = s /\ pc[s] = "subscribe" /\ Router!Refused(s) /\ Budget!Close(s)
      BY <1>1, <1>2, <2>2 DEF HandlerGoes, NothingBefore
    <3> QED
      BY <3>1, RefusedByOthers DEF Budget!Close
  <2> QED
    BY <2>1, <2>2 DEF LateRefusalIsJustifiedStep
<1>3. ASSUME NEW s \in Stream, TaskGoes(s)
      PROVE  NothingBefore' /\ LateRefusalIsJustifiedStep
  BY <1>1, <1>3 DEF TaskGoes, NothingBefore, LateRefusalIsJustifiedStep
<1>4. UNCHANGED <<pc, effect>> => NothingBefore' /\ LateRefusalIsJustifiedStep
  BY DEF NothingBefore, LateRefusalIsJustifiedStep
<1> QED
  BY <1>2, <1>3, <1>4, RequestsGo

(***************************************************************************)
(* A request that is answered RESOURCE_EXHAUSTED after CLN has created its *)
(* invoice or made its payment gives its permit back, while other requests *)
(* with permits fill a cap of the router; for any budget and any caps.     *)
(***************************************************************************)
THEOREM LateRefusalsJustified == Spec => LateRefusalIsJustified
<1>1. Init => NothingBefore
  BY DEF Init, NothingBefore
<1>2. SessionInv /\ NothingBefore /\ [Next]_vars
        => NothingBefore' /\ LateRefusalIsJustifiedStep
  BY RefusalStep DEF SessionInv
<1> QED
  BY <1>1, <1>2, Invariance, PTL DEF Spec, LateRefusalIsJustified

\* The stream budget fits in both caps of the router, as with the defaults
\* of src/grpc/limits.rs: 256 streams, 512 and 256 subscribers.
BudgetFits ==
    MaxGlobal <= MaxSubscribersGlobal /\ MaxGlobal <= MaxSubscribersPerType

\* What the comment on acquire_stream promises.
RefusalHasNoEffect == \A s \in Stream : pc[s] = "refused" => s \notin effect

(***************************************************************************)
(* Others with permits are fewer than the budget.                          *)
(***************************************************************************)
LEMMA RouterHasRoom ==
    ASSUME BudgetFits, OwnershipInv, NEW s \in active
    PROVE  ~FilledByOthers(s)
<1> USE StreamSessionAssumption
<1> DEFINE others == active \ {s}
           alike == {o \in others : TypeOf[o] = TypeOf[s]}
<1>1. IsFiniteSet(active) /\ Cardinality(active) <= MaxGlobal
  BY FS_Subset DEF OwnershipInv, TypeOK, BudgetKept
<1>2. IsFiniteSet(others) /\ Cardinality(others) = Cardinality(active) - 1
  BY <1>1, FS_RemoveElement
<1>3. /\ Cardinality(alike) <= Cardinality(others)
      /\ Cardinality(active) \in Nat /\ Cardinality(alike) \in Nat
  BY <1>1, <1>2, FS_Subset, FS_CardinalityType
<1>4. /\ Router!GlobalCap \in Nat /\ MaxGlobal <= Router!GlobalCap
      /\ Router!TypeCap \in Nat /\ MaxGlobal <= Router!TypeCap
  BY DEF BudgetFits, Router!GlobalCap, Router!TypeCap, Router!AtLeastOne
<1> HIDE DEF others, alike
<1>5. ~(Cardinality(others) >= Router!GlobalCap) /\ ~(Cardinality(alike) >= Router!TypeCap)
  BY <1>1, <1>2, <1>3, <1>4
<1> QED
  BY <1>5 DEF FilledByOthers, others, alike

(***************************************************************************)
(* So with caps that fit the budget, as the defaults do, a request that is *)
(* answered RESOURCE_EXHAUSTED has neither created an invoice nor paid.    *)
(***************************************************************************)
THEOREM RefusedAreHarmless == Spec => [](BudgetFits => RefusalHasNoEffect)
<1> DEFINE Harmless == BudgetFits => RefusalHasNoEffect
<1>1. Init => NothingBefore /\ Harmless
  BY DEF Init, NothingBefore, RefusalHasNoEffect
<1>2. ASSUME SessionInv, NothingBefore, Harmless, [Next]_vars
      PROVE  NothingBefore' /\ Harmless'
  <2>1. OwnershipInv /\ NothingBefore' /\ LateRefusalIsJustifiedStep
    BY <1>2, RefusalStep DEF SessionInv
  <2>2. ASSUME BudgetFits, NEW s \in Stream, pc'[s] = "refused" PROVE s \notin effect'
    <3>1. CASE pc[s] = "refused"
      <4>1. s \notin effect
        BY <1>2, <2>2, <3>1 DEF RefusalHasNoEffect
      <4>2. effect' = effect \/ \E r \in Stream : HandlerGoes(r)
        BY <1>2, RequestsGo DEF TaskGoes
      <4> QED
        BY <2>1, <2>2, <3>1, <4>1, <4>2 DEF HandlerGoes, OwnershipInv, TypeOK
    <3>2. CASE pc[s] # "refused"
      <4>1. s \notin effect
        BY <2>1, <2>2, <3>2, RouterHasRoom DEF LateRefusalIsJustifiedStep
      <4>2. effect' = effect
        BY <1>2, <2>1, <2>2, <3>2, RequestsGo
        DEF HandlerGoes, TaskGoes, OwnershipInv, TypeOK
      <4> QED
        BY <4>1, <4>2
    <3> QED
      BY <3>1, <3>2
  <2> QED
    BY <2>1, <2>2 DEF BudgetFits, RefusalHasNoEffect
<1> HIDE DEF Harmless
<1>3. Spec => []Harmless
  BY <1>1, <1>2, Invariance, PTL DEF Spec
<1> QED
  BY <1>3 DEF Harmless
=============================================================================
