------------------------- MODULE EventRouterProofs -------------------------
(***************************************************************************)
(* Proofs about EventRouter, for any finite set of subscribers, any number *)
(* of concurrent dispatchers and any limits: the counter kept beside the   *)
(* map is exact and the caps hold.                                         *)
(***************************************************************************)
EXTENDS EventRouter, FiniteSetTheorems, TLAPS

(***************************************************************************)
(* Any part of the map is finite and has no more elements than the map.    *)
(***************************************************************************)
LEMMA PartsCount ==
    ASSUME NEW S \in SUBSET Sub, NEW T \in SUBSET S
    PROVE  /\ IsFiniteSet(S) /\ IsFiniteSet(T)
           /\ Cardinality(S) \in Nat /\ Cardinality(T) \in Nat
           /\ Cardinality(T) <= Cardinality(S)
<1>1. IsFiniteSet(S)
  BY FS_Subset, EventRouterAssumption
<1>2. IsFiniteSet(T) /\ Cardinality(T) <= Cardinality(S)
  BY <1>1, FS_Subset
<1> QED
  BY <1>1, <1>2, FS_CardinalityType

(***************************************************************************)
(* The limits in force, raised to one by with_limits, are numbers.         *)
(***************************************************************************)
LEMMA CapsAreNumbers == GlobalCap \in Nat /\ TypeCap \in Nat
BY EventRouterAssumption DEF GlobalCap, TypeCap, AtLeastOne

(***************************************************************************)
(* Removing any set of ids, still present or not, keeps the counter exact  *)
(* and the caps respected.                                                 *)
(***************************************************************************)
LEMMA RemoveKeepsCounts ==
    ASSUME IInv, NEW gone, Remove(gone)
    PROVE  /\ subscribers' \subseteq subscribers
           /\ tracked' \in Nat
           /\ CounterExact' /\ WithinCaps'
<1> USE DEF IInv
<1>1. subscribers \in SUBSET Sub /\ subscribers' = subscribers \ gone
  BY DEF TypeOK, Remove
<1>2. IsFiniteSet(subscribers) /\ Cardinality(subscribers) \in Nat
  BY <1>1, PartsCount
<1>3. /\ Cardinality(subscribers \cap gone) \in Nat
      /\ Cardinality(subscribers') \in Nat
      /\ Cardinality(subscribers') <= Cardinality(subscribers)
  <2>1. /\ subscribers \cap gone \in SUBSET subscribers
        /\ subscribers' \in SUBSET subscribers
    BY <1>1
  <2> QED
    BY <1>1, <2>1, PartsCount
<1>4. Cardinality(subscribers') =
        Cardinality(subscribers) - Cardinality(subscribers \cap gone)
  BY <1>1, <1>2, FS_Difference
<1>5. CounterExact' /\ tracked' \in Nat
  BY <1>3, <1>4 DEF CounterExact, Remove
<1>6. ASSUME NEW t \in Type PROVE Cardinality(ListOf(t)') <= TypeCap
  <2>1. ListOf(t) \in SUBSET Sub /\ ListOf(t)' \in SUBSET ListOf(t)
    BY <1>1 DEF ListOf
  <2>2. /\ Cardinality(ListOf(t)) \in Nat /\ Cardinality(ListOf(t)') \in Nat
        /\ Cardinality(ListOf(t)') <= Cardinality(ListOf(t))
    BY <2>1, PartsCount
  <2>3. Cardinality(ListOf(t)) <= TypeCap
    BY DEF WithinCaps
  <2> QED
    BY <2>2, <2>3, CapsAreNumbers
<1>7. Cardinality(subscribers') <= GlobalCap
  BY <1>2, <1>3, CapsAreNumbers DEF WithinCaps
<1> QED
  BY <1>1, <1>5, <1>6, <1>7 DEF WithinCaps

(***************************************************************************)
(* subscribe adds one to the map and one to the counter, within the caps.  *)
(***************************************************************************)
LEMMA SubscribeKeepsCounts ==
    ASSUME IInv, NEW s \in Sub, Subscribe(s)
    PROVE  tracked' \in Nat /\ CounterExact' /\ WithinCaps'
<1> USE DEF IInv
<1>1. /\ subscribers \in SUBSET Sub /\ s \notin subscribers
      /\ subscribers' = subscribers \cup {s} /\ tracked' = tracked + 1
  BY DEF TypeOK, Joined, Subscribe
<1>2. IsFiniteSet(subscribers) /\ Cardinality(subscribers) \in Nat
  BY <1>1, PartsCount
<1>3. Cardinality(subscribers') = Cardinality(subscribers) + 1
  BY <1>1, <1>2, FS_AddElement
<1>4. tracked < GlobalCap /\ Cardinality(ListOf(TypeOf[s])) < TypeCap
  <2>1. ListOf(TypeOf[s]) \in SUBSET Sub
    BY <1>1 DEF ListOf
  <2>2. Cardinality(ListOf(TypeOf[s])) \in Nat
    BY <2>1, PartsCount
  <2> QED
    BY <1>2, <2>2, CapsAreNumbers DEF Subscribe, Refused, CounterExact
<1>5. ASSUME NEW t \in Type PROVE Cardinality(ListOf(t)') <= TypeCap
  <2>1. CASE t = TypeOf[s]
    <3>1. ListOf(t) \in SUBSET Sub /\ ListOf(t)' = ListOf(t) \cup {s}
      BY <1>1, <2>1 DEF ListOf
    <3>2. IsFiniteSet(ListOf(t)) /\ Cardinality(ListOf(t)) \in Nat
      BY <3>1, PartsCount
    <3>3. s \notin ListOf(t)
      BY <1>1 DEF ListOf
    <3>4. Cardinality(ListOf(t)') = Cardinality(ListOf(t)) + 1
      BY <3>1, <3>2, <3>3, FS_AddElement
    <3> QED
      BY <1>4, <2>1, <3>2, <3>4, CapsAreNumbers
  <2>2. CASE t # TypeOf[s]
    <3>1. ListOf(t)' = ListOf(t)
      BY <1>1, <2>2 DEF ListOf
    <3> QED
      BY <3>1 DEF WithinCaps
  <2> QED
    BY <2>1, <2>2
<1> QED
  BY <1>1, <1>2, <1>3, <1>4, <1>5, CapsAreNumbers DEF CounterExact, WithinCaps

(***************************************************************************)
(* One try_send touches neither the map nor the counter, and leaves every  *)
(* channel within its capacity.                                            *)
(***************************************************************************)
LEMMA TrySendTypes ==
    ASSUME TypeOK, NEW d \in Dispatcher, NEW s \in Sub, TrySend(d, s)
    PROVE  TypeOK'
<1> USE DEF TypeOK
<1>1. job[d] \in Dispatching /\ UNCHANGED <<subscribers, tracked, rx, issued>>
  BY DEF TrySend, Busy, Job, Resting
<1>2. Sent(d, s) \/ Doomed(d, s)
  BY DEF TrySend, Deliver, Full, Dead
<1>3. job' \in [Dispatcher -> Job]
  <2>1. PICK j \in Dispatching : job' = [job EXCEPT ![d] = j]
    <3> DEFINE rest == [job[d] EXCEPT !.todo = @ \ {s}]
    <3>1. /\ rest \in Dispatching
          /\ [rest EXCEPT !.doomed = @ \cup {s}] \in Dispatching
      BY <1>1 DEF Dispatching
    <3>2. \/ job' = [job EXCEPT ![d] = rest]
          \/ job' = [job EXCEPT ![d] = [rest EXCEPT !.doomed = @ \cup {s}]]
      BY <1>1, <1>2 DEF Sent, Doomed, Dispatching
    <3> QED
      BY <3>1, <3>2
  <2> QED
    BY <2>1 DEF Job
<1>4. CASE Deliver(d, s)
  <2>1. chan' \in [Sub -> Seq(Event)] /\ \A r \in Sub : Len(chan'[r]) <= ChanCap
    BY <1>1, <1>4, EventRouterAssumption DEF Deliver, Dispatching
  <2>2. drops' \in [Sub -> Nat] /\ last' \in [Sub -> Nat]
    BY <1>1, <1>4 DEF Deliver, Dispatching, Event
  <2> QED
    BY <1>1, <1>3, <2>1, <2>2
<1>5. CASE Full(d, s)
  BY <1>1, <1>3, <1>5 DEF Full
<1>6. CASE Dead(d, s)
  BY <1>1, <1>3, <1>6 DEF Dead
<1> QED
  BY <1>4, <1>5, <1>6 DEF TrySend

(***************************************************************************)
(* A new router satisfies IInv: no subscriber, a counter at zero.          *)
(***************************************************************************)
LEMMA Initially == Init => IInv
<1> SUFFICES ASSUME Init PROVE IInv
  OBVIOUS
<1> USE EventRouterAssumption DEF Init
<1>1. TypeOK
  BY DEF TypeOK, Job
<1>2. \A t \in Type : ListOf(t) = {}
  BY DEF ListOf
<1>3. Cardinality({}) = 0
  BY FS_EmptySet
<1>4. Cardinality({}) <= TypeCap /\ Cardinality({}) <= GlobalCap
  BY <1>3, CapsAreNumbers
<1>5. \A t \in Type : Cardinality(ListOf(t)) <= TypeCap
  BY <1>2, <1>4
<1> QED
  BY <1>1, <1>3, <1>4, <1>5 DEF IInv, CounterExact, WithinCaps, Joined

(***************************************************************************)
(* Every operation of the router preserves IInv.                           *)
(***************************************************************************)
LEMMA Inductive == IInv /\ [Next]_vars => IInv'
<1> SUFFICES ASSUME IInv, [Next]_vars PROVE IInv'
  OBVIOUS
<1>1. ASSUME NEW s \in Sub, Subscribe(s) PROVE IInv'
  <2>1. tracked' \in Nat /\ CounterExact' /\ WithinCaps'
    BY <1>1, SubscribeKeepsCounts
  <2>2. TypeOK'
    BY <1>1, <2>1, EventRouterAssumption DEF IInv, TypeOK, Subscribe
  <2>3. Joined'
    BY <1>1 DEF IInv, TypeOK, Joined, Subscribe
  <2> QED
    BY <2>1, <2>2, <2>3 DEF IInv
<1>2. ASSUME NEW s \in Sub, SubscribeRefused(s) PROVE IInv'
  <2>1. TypeOK' /\ Joined'
    BY <1>2 DEF IInv, TypeOK, Joined, SubscribeRefused, observed
  <2> QED
    BY <1>2, <2>1 DEF IInv, SubscribeRefused, CounterExact, WithinCaps, ListOf
<1>3. ASSUME NEW s \in Sub, Unsubscribe(s) PROVE IInv'
  <2>1. /\ subscribers' \subseteq subscribers
        /\ tracked' \in Nat /\ CounterExact' /\ WithinCaps'
    BY <1>3, RemoveKeepsCounts DEF Unsubscribe
  <2> QED
    BY <1>3, <2>1 DEF IInv, TypeOK, Joined, Unsubscribe, observed
<1>4. ASSUME NEW s \in Sub, Recv(s) PROVE IInv'
  <2>1. chan' \in [Sub -> Seq(Event)] /\ \A r \in Sub : Len(chan'[r]) <= ChanCap
    BY <1>4, EventRouterAssumption DEF IInv, TypeOK, Recv
  <2>2. TypeOK' /\ Joined'
    BY <1>4, <2>1 DEF IInv, TypeOK, Joined, Recv, observed
  <2> QED
    BY <1>4, <2>2 DEF IInv, Recv, CounterExact, WithinCaps, ListOf
<1>5. ASSUME NEW s \in Sub, DropReceiver(s) PROVE IInv'
  <2>1. TypeOK' /\ Joined'
    BY <1>5, EventRouterAssumption DEF IInv, TypeOK, Joined, DropReceiver, observed
  <2> QED
    BY <1>5, <2>1 DEF IInv, DropReceiver, CounterExact, WithinCaps, ListOf
<1>6. ASSUME NEW d \in Dispatcher, NEW t \in Type, NEW b \in Body, Snapshot(d, t, b)
      PROVE  IInv'
  <2>1. issued[t] + 1 \in Nat /\ ListOf(t) \in SUBSET Sub
    BY DEF IInv, TypeOK, ListOf
  <2>2. Sending([n |-> issued[t] + 1, type |-> t, body |-> b], ListOf(t), {}) \in Job
    BY <2>1 DEF Sending, Job, Dispatching, Event
  <2>3. job' \in [Dispatcher -> Job]
    BY <1>6, <2>2 DEF IInv, TypeOK, Snapshot
  <2>4. TypeOK' /\ Joined'
    BY <1>6, <2>3 DEF IInv, TypeOK, Joined, Snapshot
  <2> QED
    BY <1>6, <2>4 DEF IInv, Snapshot, CounterExact, WithinCaps, ListOf
<1>7. ASSUME NEW d \in Dispatcher, NEW s \in Sub, TrySend(d, s) PROVE IInv'
  <2>1. TypeOK'
    BY <1>7, TrySendTypes DEF IInv
  <2> QED
    BY <1>7, <2>1 DEF IInv, TrySend, CounterExact, WithinCaps, ListOf, Joined
<1>8. ASSUME NEW d \in Dispatcher, Finish(d) PROVE IInv'
  <2>1. /\ subscribers' \subseteq subscribers
        /\ tracked' \in Nat /\ CounterExact' /\ WithinCaps'
    BY <1>8, RemoveKeepsCounts DEF Finish
  <2> QED
    BY <1>8, <2>1 DEF IInv, TypeOK, Joined, Finish, Job, observed
<1>9. CASE UNCHANGED vars
  BY <1>9 DEF IInv, TypeOK, CounterExact, WithinCaps, ListOf, Joined, vars
<1> QED
  BY <1>1, <1>2, <1>3, <1>4, <1>5, <1>6, <1>7, <1>8, <1>9
  DEF Next, Subscriber, Dispatch

(***************************************************************************)
(* Every reachable state satisfies the inductive invariant.                *)
(***************************************************************************)
THEOREM Invariance == Spec => []IInv
BY Initially, Inductive, PTL DEF Spec

(***************************************************************************)
(* The router's state has its type; no channel exceeds its capacity and    *)
(* tracked_subscribers, an unsigned integer, never goes below zero.        *)
(***************************************************************************)
THEOREM TypeCorrect == Spec => []TypeOK
<1>1. IInv => TypeOK
  BY DEF IInv
<1> QED
  BY <1>1, Invariance, PTL

(***************************************************************************)
(* tracked_subscribers equals the recomputed total in every state, however *)
(* many dispatchers and unsubscriptions aim at the same subscriber.        *)
(***************************************************************************)
THEOREM TrackedExact == Spec => []CounterExact
<1>1. IInv => CounterExact
  BY DEF IInv
<1> QED
  BY <1>1, Invariance, PTL

(***************************************************************************)
(* Availability invariants 3 and 4, the subscriber caps, for every limit.  *)
(***************************************************************************)
THEOREM CapsHold == Spec => []WithinCaps
<1>1. IInv => WithinCaps
  BY DEF IInv
<1> QED
  BY <1>1, Invariance, PTL

-----------------------------------------------------------------------------
(***************************************************************************)
(* Loss and eviction.  The server has one dispatcher, the loop of          *)
(* start_all; with two, a streak would be counted by both.                 *)
(***************************************************************************)
OneDispatcher == \A d, e \in Dispatcher : d = e

\* A dispatch in progress has still to send to s, or has decided to remove it.
InJob(s) == \E d \in Dispatcher : Busy(d) /\ s \in job[d].todo \cup job[d].doomed

\* A new id has no streak and no dispatch knows it.
Fresh == \A s \in Sub : rx[s] = "none" => drops[s] = 0 /\ ~InJob(s)

\* The event being dispatched is the last one of its type.
Numbered == \A d \in Dispatcher : Busy(d) => job[d].event.n = issued[job[d].event.type]

\* Whoever has not been sent it yet lacks exactly one event more than counted.
Pending ==
    \A d \in Dispatcher : Busy(d) =>
        \A s \in job[d].todo :
            /\ TypeOf[s] = job[d].event.type
            /\ s \notin job[d].doomed
            /\ rx[s] = "open" =>
                 drops[s] = issued[TypeOf[s]] - 1 - last[s] /\ drops[s] < MaxDrops

\* Whoever is to be removed has missed enough or is gone.
Condemned ==
    \A d \in Dispatcher : Busy(d) =>
        \A s \in job[d].doomed :
            rx[s] = "open" => issued[TypeOf[s]] - last[s] >= MaxDrops

\* For everybody else the streak is exact and short.
Settled ==
    \A s \in subscribers :
        rx[s] = "open" /\ ~InJob(s) =>
            drops[s] = issued[TypeOf[s]] - last[s] /\ drops[s] < MaxDrops

StreakInv == Fresh /\ Numbered /\ Pending /\ Condemned /\ Settled

(***************************************************************************)
(* with_limits raises slow_subscriber_max_drops to at least one.           *)
(***************************************************************************)
LEMMA MaxDropsPositive == MaxDrops \in Nat /\ MaxDrops >= 1
BY EventRouterAssumption DEF MaxDrops, AtLeastOne

(***************************************************************************)
(* A dispatch in progress works on subscriber ids.                         *)
(***************************************************************************)
LEMMA JobIds ==
    ASSUME TypeOK, NEW d \in Dispatcher, Busy(d)
    PROVE  /\ job[d] \in Dispatching
           /\ job[d].todo \subseteq Sub /\ job[d].doomed \subseteq Sub
           /\ job[d].event.n \in Nat /\ job[d].event.type \in Type
BY DEF TypeOK, Busy, Job, Resting, Dispatching, Event

(***************************************************************************)
(* A step that only closes receivers or takes ids out of the map, or moves *)
(* events out of channels, disturbs no streak.                             *)
(***************************************************************************)
LEMMA QuietStep ==
    ASSUME TypeOK, StreakInv, UNCHANGED <<job, drops, issued, last>>,
           subscribers' \subseteq subscribers,
           \A s \in Sub : rx'[s] = rx[s] \/ rx'[s] = "closed"
    PROVE  StreakInv'
<1>1. \A s : InJob(s)' <=> InJob(s)
  BY DEF InJob, Busy
<1>2. Fresh'
  BY <1>1 DEF StreakInv, Fresh
<1>3. Numbered'
  BY DEF StreakInv, Numbered, Busy
<1>4. \A d \in Dispatcher : Busy(d) => job[d].todo \subseteq Sub /\ job[d].doomed \subseteq Sub
  BY JobIds
<1>5. Pending' /\ Condemned'
  BY <1>4 DEF StreakInv, Pending, Condemned, Busy
<1>6. Settled'
  BY <1>1 DEF StreakInv, Settled, TypeOK
<1> QED
  BY <1>2, <1>3, <1>5, <1>6 DEF StreakInv

(***************************************************************************)
(* A subscriber that joins has missed nothing.                             *)
(***************************************************************************)
LEMMA SubscribeStreak ==
    ASSUME TypeOK, StreakInv, NEW s \in Sub, Subscribe(s)
    PROVE  StreakInv'
<1>1. /\ rx[s] = "none" /\ drops[s] = 0 /\ ~InJob(s)
      /\ UNCHANGED <<drops, job, issued>>
      /\ last' = [last EXCEPT ![s] = issued[TypeOf[s]]]
      /\ rx' = [rx EXCEPT ![s] = "open"]
      /\ subscribers' = subscribers \cup {s}
  BY DEF Subscribe, StreakInv, Fresh
<1>2. \A r : InJob(r)' <=> InJob(r)
  BY <1>1 DEF InJob, Busy
<1>3. \A d \in Dispatcher : Busy(d) => /\ job[d].todo \subseteq Sub \ {s}
                                      /\ job[d].doomed \subseteq Sub \ {s}
  BY <1>1, JobIds DEF InJob
<1>4. Fresh'
  BY <1>1, <1>2 DEF StreakInv, Fresh, TypeOK
<1>5. Numbered'
  BY <1>1 DEF StreakInv, Numbered, Busy
<1>6. Pending' /\ Condemned'
  BY <1>1, <1>3 DEF StreakInv, Pending, Condemned, Busy, TypeOK
<1>7. Settled'
  <2> SUFFICES ASSUME NEW r \in subscribers', rx'[r] = "open", ~InJob(r)'
               PROVE  drops'[r] = issued'[TypeOf[r]] - last'[r] /\ drops'[r] < MaxDrops
    BY DEF Settled
  <2>1. CASE r = s
    <3>1. TypeOf[s] \in Type
      BY EventRouterAssumption
    <3> QED
      BY <1>1, <2>1, <3>1, MaxDropsPositive DEF TypeOK
  <2>2. CASE r # s
    BY <1>1, <1>2, <2>2 DEF StreakInv, Settled, TypeOK
  <2> QED
    BY <2>1, <2>2
<1> QED
  BY <1>4, <1>5, <1>6, <1>7 DEF StreakInv

(***************************************************************************)
(* The snapshot puts every subscriber of the type in debt for one event.   *)
(***************************************************************************)
LEMMA SnapshotStreak ==
    ASSUME OneDispatcher, IInv, StreakInv, NEW d \in Dispatcher, NEW t \in Type,
           NEW b \in Body, Snapshot(d, t, b)
    PROVE  StreakInv'
<1>1. /\ ~Busy(d) /\ \A e \in Dispatcher : e = d
      /\ issued' = [issued EXCEPT ![t] = @ + 1]
      /\ UNCHANGED <<subscribers, drops, rx, last>>
  BY DEF Snapshot, OneDispatcher
<1>2. \A s : ~InJob(s)
  BY <1>1 DEF InJob
<1>3. CASE ListOf(t) = {} /\ UNCHANGED job
  <2>1. \A s : ~InJob(s)'
    BY <1>1, <1>3 DEF InJob, Busy
  <2>2. Fresh'
    BY <1>1, <2>1 DEF StreakInv, Fresh
  <2>3. Numbered' /\ Pending' /\ Condemned'
    BY <1>1, <1>3 DEF Numbered, Pending, Condemned, Busy
  <2>4. Settled'
    BY <1>1, <1>2, <1>3, EventRouterAssumption
    DEF IInv, TypeOK, StreakInv, Settled, ListOf
  <2> QED
    BY <2>2, <2>3, <2>4 DEF StreakInv
<1>4. CASE job' = [job EXCEPT ![d] =
                     Sending([n |-> issued[t] + 1, type |-> t, body |-> b],
                             ListOf(t), {})]
  <2>1. /\ Busy(d)' /\ job'[d].todo = ListOf(t) /\ job'[d].doomed = {}
        /\ job'[d].event.n = issued[t] + 1 /\ job'[d].event.type = t
    BY <1>4 DEF IInv, TypeOK, Busy, Sending
  <2>2. \A s : InJob(s)' <=> s \in ListOf(t)
    BY <1>1, <2>1 DEF InJob
  <2>3. ListOf(t) \subseteq subscribers /\ subscribers \subseteq Sub
        /\ \A s \in subscribers : s \in ListOf(t) <=> TypeOf[s] = t
    BY DEF IInv, TypeOK, ListOf
  <2>4. Fresh'
    BY <1>1, <2>2, <2>3 DEF IInv, Joined, StreakInv, Fresh
  <2>5. Numbered' /\ Condemned'
    BY <1>1, <2>1 DEF IInv, TypeOK, Numbered, Condemned
  <2>6. Pending'
    BY <1>1, <1>2, <2>1, <2>3 DEF IInv, TypeOK, StreakInv, Settled, Pending
  <2>7. Settled'
    BY <1>1, <1>2, <2>2, <2>3, EventRouterAssumption DEF IInv, TypeOK, StreakInv, Settled
  <2> QED
    BY <2>4, <2>5, <2>6, <2>7 DEF StreakInv
<1> QED
  BY <1>3, <1>4 DEF Snapshot

(***************************************************************************)
(* One try_send settles the debt, counts it, or condemns the subscriber;   *)
(* what the channel takes comes after fewer than MaxDrops lost events.     *)
(***************************************************************************)
LEMMA TrySendStreak ==
    ASSUME OneDispatcher, IInv, StreakInv, NEW d \in Dispatcher, NEW s \in Sub,
           TrySend(d, s)
    PROVE  StreakInv' /\ BoundedLossStep
<1>1. /\ Busy(d) /\ s \in job[d].todo /\ \A e \in Dispatcher : e = d
      /\ UNCHANGED <<subscribers, rx, issued>>
  BY DEF TrySend, OneDispatcher
<1>2. /\ job[d] \in Dispatching /\ job[d].event.n \in Nat /\ job[d].event.type \in Type
      /\ job[d].todo \subseteq Sub /\ job[d].doomed \subseteq Sub
  BY <1>1, JobIds DEF IInv
<1>3. /\ TypeOf[s] = job[d].event.type /\ s \notin job[d].doomed
      /\ job[d].event.n = issued[TypeOf[s]] /\ issued[TypeOf[s]] \in Nat
      /\ drops[s] \in Nat /\ last[s] \in Nat
      /\ rx[s] = "open" =>
           drops[s] = issued[TypeOf[s]] - 1 - last[s] /\ drops[s] < MaxDrops
  BY <1>1, <1>2 DEF StreakInv, Pending, Numbered, IInv, TypeOK
<1>4. rx[s] # "none"
  BY <1>1 DEF StreakInv, Fresh, InJob
<1>5. /\ Busy(d)' /\ job'[d].event = job[d].event /\ job'[d].todo = job[d].todo \ {s}
      /\ \/ Sent(d, s) /\ job'[d].doomed = job[d].doomed
         \/ Doomed(d, s) /\ job'[d].doomed = job[d].doomed \cup {s}
  <2>1. Sent(d, s) \/ Doomed(d, s)
    BY DEF TrySend, Deliver, Full, Dead
  <2> QED
    BY <1>1, <1>2, <2>1 DEF Sent, Doomed, Dispatching, Busy, IInv, TypeOK
<1>6. \A r : r # s => (InJob(r)' <=> InJob(r))
  BY <1>1, <1>5 DEF InJob
<1>7. \A r \in Sub : r # s => drops'[r] = drops[r] /\ last'[r] = last[r]
  BY DEF TrySend, Deliver, Full, Dead, IInv, TypeOK
<1>8. Fresh' /\ Numbered'
  BY <1>1, <1>2, <1>4, <1>5, <1>6, <1>7 DEF StreakInv, Fresh, Numbered
<1>9. Pending'
  BY <1>1, <1>2, <1>5, <1>7 DEF StreakInv, Pending
<1>10. ASSUME NEW r \in subscribers, r # s, rx[r] = "open", ~InJob(r)
       PROVE  drops'[r] = issued[TypeOf[r]] - last'[r] /\ drops'[r] < MaxDrops
  BY <1>7, <1>10 DEF StreakInv, Settled, IInv, TypeOK
<1>11. CASE Deliver(d, s)
  <2>1. /\ job'[d].doomed = job[d].doomed
        /\ drops'[s] = 0 /\ last'[s] = issued[TypeOf[s]] /\ rx[s] = "open"
    BY <1>2, <1>3, <1>11 DEF Deliver, Sent, Dispatching, IInv, TypeOK
  <2>2. Condemned'
    BY <1>1, <1>2, <1>3, <1>5, <1>7, <2>1 DEF StreakInv, Condemned
  <2>3. Settled'
    BY <1>1, <1>3, <1>6, <1>10, <2>1, MaxDropsPositive DEF Settled
  <2>4. BoundedLossStep
    BY <1>3, <1>7, <2>1, MaxDropsPositive DEF BoundedLossStep
  <2> QED
    BY <1>8, <1>9, <2>2, <2>3, <2>4 DEF StreakInv
<1>12. CASE Full(d, s)
  <2>1. /\ rx[s] = "open" /\ last' = last /\ drops'[s] = issued[TypeOf[s]] - last[s]
        /\ \/ job'[d].doomed = job[d].doomed \cup {s} /\ drops'[s] >= MaxDrops
           \/ job'[d].doomed = job[d].doomed /\ drops'[s] < MaxDrops
    BY <1>2, <1>3, <1>12, MaxDropsPositive
    DEF Full, Sent, Doomed, Dispatching, IInv, TypeOK
  <2>2. Condemned'
    BY <1>1, <1>2, <1>3, <1>5, <2>1 DEF StreakInv, Condemned
  <2>3. Settled'
    BY <1>1, <1>3, <1>5, <1>6, <1>10, <2>1 DEF Settled, InJob
  <2>4. BoundedLossStep
    BY <2>1 DEF BoundedLossStep
  <2> QED
    BY <1>8, <1>9, <2>2, <2>3, <2>4 DEF StreakInv
<1>13. CASE Dead(d, s)
  <2>1. /\ rx[s] = "closed" /\ last' = last /\ drops' = drops
        /\ job'[d].doomed = job[d].doomed \cup {s}
    BY <1>2, <1>13 DEF Dead, Doomed, Dispatching, IInv, TypeOK
  <2>2. Condemned'
    BY <1>1, <1>2, <1>5, <2>1 DEF StreakInv, Condemned
  <2>3. Settled'
    BY <1>1, <1>6, <1>10, <2>1 DEF Settled
  <2>4. BoundedLossStep
    BY <2>1 DEF BoundedLossStep
  <2> QED
    BY <1>8, <1>9, <2>2, <2>3, <2>4 DEF StreakInv
<1> QED
  BY <1>11, <1>12, <1>13 DEF TrySend

(***************************************************************************)
(* The removal takes exactly the condemned, which leaves short streaks.    *)
(***************************************************************************)
LEMMA FinishStreak ==
    ASSUME OneDispatcher, IInv, StreakInv, NEW d \in Dispatcher, Finish(d)
    PROVE  StreakInv'
<1>1. /\ Busy(d) /\ job[d].todo = {} /\ \A e \in Dispatcher : e = d
      /\ subscribers' = subscribers \ job[d].doomed
      /\ UNCHANGED <<drops, rx, issued, last>>
  BY DEF Finish, Remove, OneDispatcher, observed
<1>2. ~Busy(d)'
  BY DEF Finish, Busy, Resting, IInv, TypeOK
<1>3. \A s : ~InJob(s)'
  BY <1>1, <1>2 DEF InJob
<1>4. \A s \in subscribers' : ~InJob(s)
  BY <1>1 DEF InJob
<1>5. Fresh' /\ Numbered' /\ Pending' /\ Condemned'
  BY <1>1, <1>2, <1>3 DEF StreakInv, Fresh, Numbered, Pending, Condemned
<1>6. Settled'
  BY <1>1, <1>4 DEF StreakInv, Settled
<1> QED
  BY <1>5, <1>6 DEF StreakInv

(***************************************************************************)
(* A new router satisfies StreakInv.                                       *)
(***************************************************************************)
LEMMA StreakInitially == Init => StreakInv
BY DEF Init, StreakInv, Fresh, Numbered, Pending, Condemned, Settled, InJob, Busy, Resting

(***************************************************************************)
(* Every operation of a router with one dispatcher preserves StreakInv,    *)
(* and none makes a channel skip MaxDrops events.                          *)
(***************************************************************************)
LEMMA StreakInductive ==
    ASSUME OneDispatcher, IInv, StreakInv, [Next]_vars
    PROVE  StreakInv' /\ (BoundedLossStep \/ UNCHANGED vars)
<1>1. ASSUME NEW s \in Sub, Subscribe(s) PROVE StreakInv' /\ BoundedLossStep
  <2>1. StreakInv'
    BY <1>1, SubscribeStreak DEF IInv
  <2>2. BoundedLossStep
    BY <1>1 DEF Subscribe, BoundedLossStep, IInv, TypeOK
  <2> QED
    BY <2>1, <2>2
<1>2. ASSUME NEW s \in Sub, SubscribeRefused(s) \/ Unsubscribe(s) \/ Recv(s) \/ DropReceiver(s)
      PROVE  StreakInv' /\ BoundedLossStep
  <2>1. /\ UNCHANGED <<job, drops, issued, last>>
        /\ subscribers' \subseteq subscribers
        /\ \A r \in Sub : rx'[r] = rx[r] \/ rx'[r] = "closed"
    BY <1>2
    DEF SubscribeRefused, Unsubscribe, Remove, Recv, DropReceiver, observed, IInv, TypeOK
  <2>2. StreakInv'
    BY <2>1, QuietStep DEF IInv
  <2> QED
    BY <2>1, <2>2 DEF BoundedLossStep
<1>3. ASSUME NEW d \in Dispatcher, NEW t \in Type, NEW b \in Body, Snapshot(d, t, b)
      PROVE  StreakInv' /\ BoundedLossStep
  BY <1>3, SnapshotStreak DEF Snapshot, BoundedLossStep
<1>4. ASSUME NEW d \in Dispatcher, NEW s \in Sub, TrySend(d, s)
      PROVE  StreakInv' /\ BoundedLossStep
  BY <1>4, TrySendStreak
<1>5. ASSUME NEW d \in Dispatcher, Finish(d) PROVE StreakInv' /\ BoundedLossStep
  BY <1>5, FinishStreak DEF Finish, BoundedLossStep, observed
<1>6. CASE UNCHANGED vars
  BY <1>6, QuietStep DEF vars, IInv
<1> QED
  BY <1>1, <1>2, <1>3, <1>4, <1>5, <1>6 DEF Next, Subscriber, Dispatch

(***************************************************************************)
(* The streak that decides an eviction is what it should be, in every      *)
(* state of a router with one dispatcher.                                  *)
(***************************************************************************)
THEOREM StreakInvariance ==
    ASSUME OneDispatcher PROVE Spec => []StreakInv
<1>1. IInv /\ StreakInv /\ [Next]_vars => StreakInv'
  BY StreakInductive
<1> QED
  BY <1>1, StreakInitially, Invariance, PTL DEF Spec

(***************************************************************************)
(* Between two dispatches every streak counter is exact and below          *)
(* slow_subscriber_max_drops.                                              *)
(***************************************************************************)
THEOREM StreaksExact ==
    ASSUME OneDispatcher PROVE Spec => []StreakExact
<1>1. StreakInv => StreakExact
  BY DEF StreakInv, Settled, StreakExact, InJob
<1> QED
  BY <1>1, StreakInvariance, PTL

(***************************************************************************)
(* A channel takes the events of its type in order, and fewer than         *)
(* slow_subscriber_max_drops are lost between two it takes.                *)
(***************************************************************************)
THEOREM LossBounded ==
    ASSUME OneDispatcher PROVE Spec => BoundedLoss
<1>1. IInv /\ StreakInv /\ [Next]_vars => [BoundedLossStep]_vars
  BY StreakInductive
<1> QED
  BY <1>1, Invariance, StreakInvariance, PTL DEF Spec, BoundedLoss

(***************************************************************************)
(* dispatch removes only subscribers that are gone or that have missed the *)
(* last slow_subscriber_max_drops events.                                  *)
(***************************************************************************)
THEOREM EvictionsJustified ==
    ASSUME OneDispatcher PROVE Spec => EvictionJustified
<1>1. IInv /\ StreakInv => EvictionJustifiedStep
  <2> SUFFICES ASSUME IInv, StreakInv, NEW d \in Dispatcher, Finish(d),
                      NEW s \in subscribers \ subscribers'
               PROVE  rx[s] = "closed" \/ issued[TypeOf[s]] - last[s] >= MaxDrops
    BY DEF EvictionJustifiedStep
  <2>1. Busy(d) /\ s \in subscribers /\ s \in job[d].doomed
    BY DEF Finish, Remove
  <2>2. rx[s] # "none" /\ rx[s] \in {"none", "open", "closed"}
    BY <2>1 DEF IInv, TypeOK, Joined
  <2> QED
    BY <2>1, <2>2 DEF StreakInv, Condemned
<1> QED
  BY <1>1, Invariance, StreakInvariance, PTL DEF EvictionJustified
=============================================================================
