---------------------------- MODULE EventRouter ----------------------------
(***************************************************************************)
(* The fan-out of src/events/router.rs: subscribers grouped by event type  *)
(* behind a read-write lock, one bounded channel per subscriber, an O(1)   *)
(* counter kept beside the map, and dispatch, which sends from a snapshot  *)
(* with no lock held and removes dead or slow subscribers afterwards.      *)
(*                                                                         *)
(* What a lock guard covers is one step.  Between the snapshot, each       *)
(* try_send and the removal, anybody may subscribe, unsubscribe, receive   *)
(* or drop a receiver, so dispatch works on a view that is already old.    *)
(* The counters of EventRouterStats, which only a metrics log reads, are   *)
(* left out.                                                               *)
(***************************************************************************)
EXTENDS Integers, Sequences, FiniteSets

CONSTANTS
    Sub,                      \* subscriber ids; next_subscriber_id never repeats one
    Type,                     \* event types
    TypeOf,                   \* the event type each subscriber asks for
    Dispatcher,               \* callers of dispatch
    Body,                     \* what an event carries
    ChanCap,                  \* capacity of a subscriber's channel
    MaxSubscribersGlobal,     \* RouterLimits
    MaxSubscribersPerType,
    SlowSubscriberMaxDrops,
    MaxDispatches             \* bound: dispatch calls for each event type

ASSUME EventRouterAssumption ==
    /\ IsFiniteSet(Sub)
    /\ TypeOf \in [Sub -> Type]
    /\ ChanCap \in Nat \ {0}
    /\ MaxSubscribersGlobal \in Nat
    /\ MaxSubscribersPerType \in Nat
    /\ SlowSubscriberMaxDrops \in Nat
    /\ MaxDispatches \in [Type -> Nat]

\* with_limits raises every limit to at least one.
AtLeastOne(n) == IF n = 0 THEN 1 ELSE n
GlobalCap == AtLeastOne(MaxSubscribersGlobal)
TypeCap == AtLeastOne(MaxSubscribersPerType)
MaxDrops == AtLeastOne(SlowSubscriberMaxDrops)

VARIABLES
    subscribers,  \* ids present in the map; each is in the list of its type
    tracked,      \* tracked_subscribers
    drops,        \* consecutive events each subscriber's full channel lost
    chan,         \* contents of each subscriber's channel
    rx,           \* its receiver: not created, open, or dropped
    job,          \* what each dispatcher is doing
    issued,       \* observation: dispatch calls so far, per event type
    last          \* observation: number of the last event each channel took

vars == <<subscribers, tracked, drops, chan, rx, job, issued, last>>
observed == <<issued, last>>

-----------------------------------------------------------------------------
ListOf(t) == {s \in subscribers : TypeOf[s] = t}

\* An event is what it carries and its number among the events of its type.
Event == [n : Nat, type : Type, body : Body]

\* A dispatch in progress: the event, the snapshot entries not yet sent to,
\* and the ids to remove when all are done.
Resting == [step |-> "rest"]
Sending(e, todo, doomed) ==
    [step |-> "send", event |-> e, todo |-> todo, doomed |-> doomed]
Busy(d) == job[d].step = "send"

\* A sender of the channel of s is alive: in the map or in a snapshot.
HasSender(s) ==
    s \in subscribers \/ \E d \in Dispatcher : Busy(d) /\ s \in job[d].todo

Init ==
    /\ subscribers = {}
    /\ tracked = 0
    /\ drops = [s \in Sub |-> 0]
    /\ chan = [s \in Sub |-> <<>>]
    /\ rx = [s \in Sub |-> "none"]
    /\ job = [d \in Dispatcher |-> Resting]
    /\ issued = [t \in Type |-> 0]
    /\ last = [s \in Sub |-> 0]

-----------------------------------------------------------------------------
\* subscribe: both caps are checked and the entry is pushed under one write
\* lock.  A refused sender is dropped.
Refused(s) ==
    \/ Cardinality(ListOf(TypeOf[s])) >= TypeCap
    \/ tracked >= GlobalCap

Subscribe(s) ==
    /\ rx[s] = "none"
    /\ ~Refused(s)
    /\ subscribers' = subscribers \cup {s}
    /\ tracked' = tracked + 1
    /\ rx' = [rx EXCEPT ![s] = "open"]
    /\ last' = [last EXCEPT ![s] = issued[TypeOf[s]]]
    /\ UNCHANGED <<drops, chan, job, issued>>

SubscribeRefused(s) ==
    /\ rx[s] = "none"
    /\ Refused(s)
    /\ rx' = [rx EXCEPT ![s] = "closed"]
    /\ UNCHANGED <<subscribers, tracked, drops, chan, job, observed>>

\* Mutant of Remove: the counter loses every id asked for, found or not.
Remove_CountsAll(gone) ==
    /\ subscribers' = subscribers \ gone
    /\ tracked' = tracked - Cardinality(gone)

\* The map loses the ids in gone that it still holds, and the counter follows.
Remove(gone) ==
    /\ subscribers' = subscribers \ gone
    /\ tracked' = tracked - Cardinality(subscribers \cap gone)

Unsubscribe(s) ==
    /\ rx[s] = "open"
    /\ Remove({s})
    /\ UNCHANGED <<drops, chan, rx, job, observed>>

\* The receiving task takes the next event, or drops its receiver.
Recv(s) ==
    /\ rx[s] = "open"
    /\ chan[s] # <<>>
    /\ chan' = [chan EXCEPT ![s] = Tail(@)]
    /\ UNCHANGED <<subscribers, tracked, drops, rx, job, observed>>

DropReceiver(s) ==
    /\ rx[s] = "open"
    /\ rx' = [rx EXCEPT ![s] = "closed"]
    /\ chan' = [chan EXCEPT ![s] = <<>>]
    /\ UNCHANGED <<subscribers, tracked, drops, job, observed>>

\* dispatch, the snapshot under the read lock; with no subscriber it returns.
Snapshot(d, t, b) ==
    /\ ~Busy(d)
    /\ issued[t] < MaxDispatches[t]
    /\ issued' = [issued EXCEPT ![t] = @ + 1]
    /\ \/ /\ ListOf(t) = {}
          /\ UNCHANGED job
       \/ /\ ListOf(t) # {}
          /\ job' = [job EXCEPT ![d] =
                       Sending([n |-> issued[t] + 1, type |-> t, body |-> b],
                               ListOf(t), {})]
    /\ UNCHANGED <<subscribers, tracked, drops, chan, rx, last>>

Sent(d, s) == job' = [job EXCEPT ![d].todo = @ \ {s}]
Doomed(d, s) ==
    job' = [job EXCEPT ![d].todo = @ \ {s}, ![d].doomed = @ \cup {s}]

\* dispatch, one try_send: the channel takes the event and the streak of lost
\* events ends; or it is full and the streak grows; or its receiver is gone.
Deliver(d, s) ==
    /\ rx[s] = "open"
    /\ Len(chan[s]) < ChanCap
    /\ chan' = [chan EXCEPT ![s] = Append(@, job[d].event)]
    /\ drops' = [drops EXCEPT ![s] = 0]
    /\ last' = [last EXCEPT ![s] = job[d].event.n]
    /\ Sent(d, s)

\* Mutant of Full: a full channel is never a reason to remove anybody.
Full_NeverDooms(d, s) ==
    /\ rx[s] = "open"
    /\ Len(chan[s]) >= ChanCap
    /\ drops' = [drops EXCEPT ![s] = @ + 1]
    /\ Sent(d, s)
    /\ UNCHANGED <<chan, last>>

\* Mutant of Full: the first lost event is enough.
Full_DoomsAtOnce(d, s) ==
    /\ rx[s] = "open"
    /\ Len(chan[s]) >= ChanCap
    /\ drops' = [drops EXCEPT ![s] = @ + 1]
    /\ Doomed(d, s)
    /\ UNCHANGED <<chan, last>>

\* Mutant of Full: send instead of try_send, which waits for room.
Full_Waits(d, s) == FALSE

Full(d, s) ==
    /\ rx[s] = "open"
    /\ Len(chan[s]) >= ChanCap
    /\ drops' = [drops EXCEPT ![s] = @ + 1]
    /\ \/ drops[s] + 1 >= MaxDrops /\ Doomed(d, s)
       \/ drops[s] + 1 < MaxDrops /\ Sent(d, s)
    /\ UNCHANGED <<chan, last>>

Dead(d, s) ==
    /\ rx[s] = "closed"
    /\ Doomed(d, s)
    /\ UNCHANGED <<chan, drops, last>>

TrySend(d, s) ==
    /\ Busy(d)
    /\ s \in job[d].todo
    /\ Deliver(d, s) \/ Full(d, s) \/ Dead(d, s)
    /\ UNCHANGED <<subscribers, tracked, rx, issued>>

\* dispatch, the end: the ids found dead or slow are removed under the write
\* lock, if they are still there.
Finish(d) ==
    /\ Busy(d)
    /\ job[d].todo = {}
    /\ Remove(job[d].doomed)
    /\ job' = [job EXCEPT ![d] = Resting]
    /\ UNCHANGED <<drops, chan, rx, observed>>

Dispatch(d) ==
    \/ \E t \in Type, b \in Body : Snapshot(d, t, b)
    \/ \E s \in Sub : TrySend(d, s)
    \/ Finish(d)

Subscriber(s) ==
    Subscribe(s) \/ SubscribeRefused(s) \/ Unsubscribe(s)
                 \/ Recv(s) \/ DropReceiver(s)

Next == (\E s \in Sub : Subscriber(s)) \/ (\E d \in Dispatcher : Dispatch(d))

Spec == Init /\ [][Next]_vars

-----------------------------------------------------------------------------
Dispatching ==
    [step : {"send"}, event : Event, todo : SUBSET Sub, doomed : SUBSET Sub]
Job == {Resting} \cup Dispatching

(***************************************************************************)
(* Types: no channel exceeds its capacity, and the unsigned counter        *)
(* tracked_subscribers never wraps below zero.                             *)
(***************************************************************************)
TypeOK ==
    /\ subscribers \subseteq Sub
    /\ tracked \in Nat
    /\ drops \in [Sub -> Nat]
    /\ chan \in [Sub -> Seq(Event)]
    /\ \A s \in Sub : Len(chan[s]) <= ChanCap
    /\ rx \in [Sub -> {"none", "open", "closed"}]
    /\ job \in [Dispatcher -> Job]
    /\ issued \in [Type -> Nat]
    /\ last \in [Sub -> Nat]

(***************************************************************************)
(* tracked_subscribers equals the recomputed total_subscribers in every    *)
(* state, although unsubscribe and the removal at the end of dispatch may  *)
(* both try to remove the same subscriber.                                 *)
(***************************************************************************)
CounterExact == tracked = Cardinality(subscribers)

(***************************************************************************)
(* Availability invariants 3 and 4: subscribers never exceed the global    *)
(* cap, nor those of one type the cap per type.                            *)
(***************************************************************************)
WithinCaps ==
    /\ Cardinality(subscribers) <= GlobalCap
    /\ \A t \in Type : Cardinality(ListOf(t)) <= TypeCap

\* An id in the map has a receiver, so it is not pushed a second time.
Joined == \A s \in subscribers : rx[s] # "none"

(***************************************************************************)
(* The invariant of subscribe, unsubscribe and dispatch, and inductive:    *)
(* types and capacities, an exact counter, and the caps that depend on it. *)
(***************************************************************************)
IInv == TypeOK /\ CounterExact /\ WithinCaps /\ Joined

(***************************************************************************)
(* Order and bounded loss: a channel takes the events of its type in the   *)
(* order they were dispatched, and between two it takes fewer than         *)
(* slow_subscriber_max_drops were lost.  Subscribers that fall further     *)
(* behind are gone.                                                        *)
(***************************************************************************)
BoundedLossStep ==
    \A s \in Sub :
        last'[s] # last[s] /\ rx[s] = "open" =>
            last'[s] - last[s] \in 1..MaxDrops

\* Order and bounded loss, of every step.
BoundedLoss == [][BoundedLossStep]_vars

(***************************************************************************)
(* Between two dispatches the streak counter is exact: it is the number of *)
(* events a subscriber has missed since the last one its channel took, and *)
(* nobody who reached slow_subscriber_max_drops is still subscribed.       *)
(***************************************************************************)
StreakExact ==
    (\A d \in Dispatcher : ~Busy(d)) =>
        \A s \in subscribers :
            rx[s] = "open" =>
                /\ drops[s] = issued[TypeOf[s]] - last[s]
                /\ drops[s] < MaxDrops

(***************************************************************************)
(* dispatch removes a subscriber only if its receiver is gone or if it has *)
(* missed the last slow_subscriber_max_drops events, also when it reads,   *)
(* or asks to leave, after the decision and before the removal.            *)
(***************************************************************************)
EvictionJustifiedStep ==
    \A d \in Dispatcher :
        Finish(d) =>
            \A s \in subscribers \ subscribers' :
                rx[s] = "closed" \/ issued[TypeOf[s]] - last[s] >= MaxDrops

\* No step evicts a subscriber that kept up.
EvictionJustified == [][EvictionJustifiedStep]_vars
=============================================================================
