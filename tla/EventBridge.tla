---------------------------- MODULE EventBridge ----------------------------
(***************************************************************************)
(* From CLN to the router, and the end of the server.  start_all of        *)
(* src/events/subscribers/mod.rs spawns one task per event type.  A task   *)
(* opens its notification streams one after the other, then selects among  *)
(* them and sends what it reads into one bounded queue; the dispatcher     *)
(* takes events from it and dispatches them one at a time.  The shutdown   *)
(* signal of src/grpc/server.rs aborts the dispatcher, which drops the     *)
(* receiver of the queue, but not the tasks, and lets the server drain.    *)
(*                                                                         *)
(* What dispatch does with an event is in EventRouter; here it is one step *)
(* that never waits.  An event is the stream it comes from and its number  *)
(* there.                                                                  *)
(***************************************************************************)
EXTENDS Integers, Sequences, FiniteSets, FiniteSetsExt

CONSTANTS
    Task,        \* the notification tasks, one per event type
    Stream,      \* the notification streams of CLN
    StreamsOf,   \* the streams each task opens, in order
    QueueCap,    \* capacity of the queue
    Request,     \* requests of clients that stay open: streams
    MaxNotes     \* bound: notifications CLN sends, on all streams together

ASSUME EventBridgeAssumption ==
    /\ StreamsOf \in [Task -> Seq(Stream)]
    /\ \A t \in Task : Len(StreamsOf[t]) > 0
    /\ \A t, u \in Task :
          \A i \in 1..Len(StreamsOf[t]), j \in 1..Len(StreamsOf[u]) :
             StreamsOf[t][i] = StreamsOf[u][j] => t = u /\ i = j
    /\ \A s \in Stream : \E t \in Task :
          \E i \in 1..Len(StreamsOf[t]) : StreamsOf[t][i] = s
    /\ QueueCap \in Nat \ {0}
    /\ MaxNotes \in Nat

VARIABLES
    cln,      \* each stream, as CLN left it: closed, open, or ended
    sent,     \* notifications CLN has sent on each stream
    read,     \* how many of them the task has read
    task,     \* what each task does: subscribe, select, send, or ended
    hand,     \* the events a task is sending: none or one
    queue,    \* the queue of events
    bridge,   \* the dispatcher: recv, dispatch, done, or aborted
    at,       \* the events it is dispatching: none or one
    routed,   \* number of the last event of each stream that was dispatched
    server,   \* serving, draining, or exited
    request   \* each request: open, or over

streams == <<cln, sent, read>>
tasks == <<task, hand>>
vars == <<streams, tasks, queue, bridge, at, routed, server, request>>

-----------------------------------------------------------------------------
Mine(t) == {StreamsOf[t][i] : i \in 1..Len(StreamsOf[t])}
TaskOf(s) == CHOOSE t \in Task : s \in Mine(t)
Event == [stream : Stream, n : Nat]

\* The receiver of the queue exists.
Receiving == bridge \in {"recv", "dispatch"}

Init ==
    /\ cln = [s \in Stream |-> "closed"]
    /\ sent = [s \in Stream |-> 0]
    /\ read = [s \in Stream |-> 0]
    /\ task = [t \in Task |-> "subscribe"]
    /\ hand = [t \in Task |-> <<>>]
    /\ queue = <<>>
    /\ bridge = "recv"
    /\ at = <<>>
    /\ routed = [s \in Stream |-> 0]
    /\ server = "serving"
    /\ request = [r \in Request |-> "open"]

-----------------------------------------------------------------------------
(* CLN.                                                                    *)

\* CLN notifies whoever has the stream open, or ends the stream.
Notify(s) ==
    /\ cln[s] = "open"
    /\ MapThenSumSet(LAMBDA u : sent[u], Stream) < MaxNotes
    /\ sent' = [sent EXCEPT ![s] = @ + 1]
    /\ UNCHANGED <<cln, read, tasks, queue, bridge, at, routed, server, request>>

End(s) ==
    /\ cln[s] = "open"
    /\ cln' = [cln EXCEPT ![s] = "ended"]
    /\ UNCHANGED <<sent, read, tasks, queue, bridge, at, routed, server, request>>

-----------------------------------------------------------------------------
(* A notification task: run of payment, invoice, channel, peer, system.    *)

\* The task returns: its streams and its sender are dropped.  Nothing starts
\* it again.
Return(t) ==
    /\ task' = [task EXCEPT ![t] = "ended"]
    /\ hand' = [hand EXCEPT ![t] = <<>>]
    /\ cln' = [s \in Stream |-> IF s \in Mine(t) THEN "closed" ELSE cln[s]]

\* The first stream of the task that is not open yet.  Those before it may
\* have ended meanwhile: nobody looks at them until all are open.
Opened(t) == {i \in 1..Len(StreamsOf[t]) : cln[StreamsOf[t][i]] # "closed"}
Subscribe(t) ==
    LET i == Cardinality(Opened(t)) + 1 IN
    /\ task[t] = "subscribe"
    /\ cln' = [cln EXCEPT ![StreamsOf[t][i]] = "open"]
    /\ task' = [task EXCEPT ![t] =
                  IF i = Len(StreamsOf[t]) THEN "select" ELSE "subscribe"]
    /\ UNCHANGED <<sent, read, hand, queue, bridge, at, routed, server, request>>

SubscribeFails(t) ==
    /\ task[t] = "subscribe"
    /\ Return(t)
    /\ UNCHANGED <<sent, read, queue, bridge, at, routed, server, request>>

\* One of the streams has a notification.  select! tries them in any order.
Receive(t, s) ==
    /\ task[t] = "select"
    /\ read[s] < sent[s]
    /\ read' = [read EXCEPT ![s] = @ + 1]
    /\ hand' = [hand EXCEPT ![t] = <<[stream |-> s, n |-> read[s] + 1]>>]
    /\ task' = [task EXCEPT ![t] = "send"]
    /\ UNCHANGED <<cln, sent, queue, bridge, at, routed, server, request>>

\* One of the streams is over, after its last notification: Ok(None), and the
\* whole task returns.
StreamOver(t, s) ==
    /\ task[t] = "select"
    /\ cln[s] = "ended"
    /\ read[s] = sent[s]
    /\ Return(t)
    /\ UNCHANGED <<sent, read, queue, bridge, at, routed, server, request>>

\* The connection to CLN fails: Err, which may overtake notifications.
StreamError(t) ==
    /\ task[t] = "select"
    /\ Return(t)
    /\ UNCHANGED <<sent, read, queue, bridge, at, routed, server, request>>

\* Mutant of Send: try_send, which drops the event when the queue is full.
Send_Drops(t) ==
    /\ task[t] = "send"
    /\ queue' = IF Receiving /\ Len(queue) < QueueCap
                THEN queue \o hand[t] ELSE queue
    /\ task' = [task EXCEPT ![t] = "select"]
    /\ hand' = [hand EXCEPT ![t] = <<>>]
    /\ UNCHANGED <<streams, bridge, at, routed, server, request>>

\* Mutant of Send: a send that fails is tried again.
Send_Retries(t) ==
    /\ task[t] = "send"
    /\ Receiving
    /\ Len(queue) < QueueCap
    /\ queue' = queue \o hand[t]
    /\ task' = [task EXCEPT ![t] = "select"]
    /\ hand' = [hand EXCEPT ![t] = <<>>]
    /\ UNCHANGED <<streams, bridge, at, routed, server, request>>

\* tx.send waits for room in the queue.  Without a receiver it fails at once,
\* the event is lost and the failure ignored: the task reads on.
Send(t) ==
    /\ task[t] = "send"
    /\ \/ /\ Receiving
          /\ Len(queue) < QueueCap
          /\ queue' = queue \o hand[t]
       \/ /\ ~Receiving
          /\ UNCHANGED queue
    /\ task' = [task EXCEPT ![t] = "select"]
    /\ hand' = [hand EXCEPT ![t] = <<>>]
    /\ UNCHANGED <<streams, bridge, at, routed, server, request>>

Loop(t) == \E s \in Mine(t) : Receive(t, s) \/ StreamOver(t, s)
Run(t) == Subscribe(t) \/ SubscribeFails(t) \/ StreamError(t) \/ Loop(t) \/ Send(t)

-----------------------------------------------------------------------------
(* The dispatcher: the end of start_all.                                   *)

Recv ==
    /\ bridge = "recv"
    /\ queue # <<>>
    /\ at' = <<Head(queue)>>
    /\ queue' = Tail(queue)
    /\ bridge' = "dispatch"
    /\ UNCHANGED <<streams, tasks, routed, server, request>>

Dispatch ==
    /\ bridge = "dispatch"
    /\ routed' = [routed EXCEPT ![at[1].stream] = at[1].n]
    /\ at' = <<>>
    /\ bridge' = "recv"
    /\ UNCHANGED <<streams, tasks, queue, server, request>>

\* Mutant of Finish: the first task that returns ends the bridge.
Finish_FirstTask ==
    /\ bridge = "recv"
    /\ queue = <<>>
    /\ \E t \in Task : task[t] = "ended"
    /\ bridge' = "done"
    /\ UNCHANGED <<streams, tasks, queue, at, routed, server, request>>

\* Mutant of Finish: the loop stops with the tasks, not with the queue.
Finish_LeavesQueue ==
    /\ bridge = "recv"
    /\ \A t \in Task : task[t] = "ended"
    /\ bridge' = "done"
    /\ UNCHANGED <<streams, tasks, queue, at, routed, server, request>>

\* Every sender is dropped and the queue is empty: recv returns None, and the
\* tasks are joined.
Finish ==
    /\ bridge = "recv"
    /\ queue = <<>>
    /\ \A t \in Task : task[t] = "ended"
    /\ bridge' = "done"
    /\ UNCHANGED <<streams, tasks, queue, at, routed, server, request>>

Bridge == Recv \/ Dispatch \/ Finish

-----------------------------------------------------------------------------
(* Shutdown.                                                               *)

\* A request ends because its client leaves: nothing else ends a stream.
Leave(r) ==
    /\ request[r] = "open"
    /\ request' = [request EXCEPT ![r] = "over"]
    /\ UNCHANGED <<streams, tasks, queue, bridge, at, routed, server>>

\* Ctrl-C, or SIGTERM: shutdown_signal asks for the abort of the bridge and
\* returns; from here on the server takes no more requests.
Shutdown ==
    /\ server = "serving"
    /\ server' = "draining"
    /\ UNCHANGED <<streams, tasks, queue, bridge, at, routed, request>>

\* The abort takes effect where the bridge waits: it is dropped with the
\* receiver and all that is queued.  The tasks it spawned are detached.
Aborted ==
    /\ server = "draining"
    /\ Receiving
    /\ queue' = <<>>
    /\ at' = <<>>
    /\ bridge' = "aborted"
    /\ UNCHANGED <<streams, tasks, routed, server, request>>

\* Mutant of Exit: the notification tasks are awaited.
Exit_Awaits ==
    /\ server = "draining"
    /\ \A r \in Request : request[r] # "open"
    /\ \A t \in Task : task[t] = "ended"
    /\ server' = "exited"
    /\ UNCHANGED <<streams, tasks, queue, bridge, at, routed, request>>

\* Every request is over, serve_with_shutdown returns, and with main all
\* tasks end.
Exit ==
    /\ server = "draining"
    /\ \A r \in Request : request[r] # "open"
    /\ server' = "exited"
    /\ UNCHANGED <<streams, tasks, queue, bridge, at, routed, request>>

-----------------------------------------------------------------------------
Node == \E s \in Stream : Notify(s) \/ End(s)
Clients == \E r \in Request : Leave(r)
Stopping == Shutdown \/ Aborted \/ Exit

\* Nothing runs once the process has exited.
Next ==
    /\ server # "exited"
    /\ Node \/ Clients \/ Stopping \/ Bridge \/ \E t \in Task : Run(t)

Spec == Init /\ [][Next]_vars

Alive(A) == server # "exited" /\ A

\* The runtime polls tasks that can proceed.  A sender of a full queue waits
\* in line, so room that comes again and again comes to it (strong fairness).
\* CLN, the clients and the signal owe nothing.
Fairness ==
    /\ \A t \in Task : WF_vars(Alive(Loop(t))) /\ SF_vars(Alive(Send(t)))
    /\ WF_vars(Alive(Bridge))
    /\ WF_vars(Alive(Aborted)) /\ WF_vars(Alive(Exit))

FairSpec == Spec /\ Fairness

-----------------------------------------------------------------------------
(***************************************************************************)
(* Types; the queue never exceeds its capacity, and an event is at hand    *)
(* exactly while a task sends or the dispatcher dispatches.                *)
(***************************************************************************)
TypeOK ==
    /\ cln \in [Stream -> {"closed", "open", "ended"}]
    /\ sent \in [Stream -> Nat]
    /\ read \in [Stream -> Nat]
    /\ task \in [Task -> {"subscribe", "select", "send", "ended"}]
    /\ hand \in [Task -> Seq(Event)]
    /\ \A t \in Task : Len(hand[t]) = IF task[t] = "send" THEN 1 ELSE 0
    /\ queue \in Seq(Event)
    /\ Len(queue) <= QueueCap
    /\ bridge \in {"recv", "dispatch", "done", "aborted"}
    /\ at \in Seq(Event)
    /\ Len(at) = IF bridge = "dispatch" THEN 1 ELSE 0
    /\ routed \in [Stream -> Nat]
    /\ server \in {"serving", "draining", "exited"}
    /\ request \in [Request -> {"open", "over"}]

\* A task sends what it read last, from one of its own streams.
HandIsLastRead ==
    \A t \in Task :
        task[t] = "send" =>
            /\ hand[t][1].stream \in Mine(t)
            /\ hand[t][1].n = read[hand[t][1].stream]

\* The events between the tasks and the router, first to last, and the number
\* of the last event of a stream that has come that far.
Transit == at \o queue
Put(s) ==
    LET t == TaskOf(s) IN
    IF task[t] = "send" /\ hand[t][1].stream = s THEN read[s] - 1 ELSE read[s]

\* Of stream s there is in transit what is neither routed nor still with the
\* task, all of it, and in order, so that nothing is there twice.
ExactFor(s) ==
    /\ routed[s] <= Put(s)
    /\ \A i \in 1..Len(Transit) :
          Transit[i].stream = s => Transit[i].n \in routed[s] + 1..Put(s)
    /\ \A n \in routed[s] + 1..Put(s) :
          \E i \in 1..Len(Transit) : Transit[i] = [stream |-> s, n |-> n]
    /\ \A i, j \in 1..Len(Transit) :
          i < j /\ Transit[i].stream = s /\ Transit[j].stream = s =>
              Transit[i].n < Transit[j].n

(***************************************************************************)
(* The tasks send and do not try: until the bridge is aborted, every       *)
(* notification that was read is routed or on its way, once and in order,  *)
(* also those of tasks that have ended; when the bridge is done, nothing   *)
(* is left behind.                                                         *)
(***************************************************************************)
TransitExact ==
    /\ bridge # "aborted" => \A s \in Stream : ExactFor(s)
    /\ bridge = "done" => queue = <<>> /\ \A t \in Task : task[t] = "ended"

(***************************************************************************)
(* The invariant of the bridge, and inductive: a queue within its          *)
(* capacity, and every event accounted for between task and router.        *)
(***************************************************************************)
BridgeInv == TypeOK /\ HandIsLastRead /\ TransitExact

(***************************************************************************)
(* Tasks, queue and dispatcher implement one pipe per stream.              *)
(***************************************************************************)
Flow == INSTANCE EventFlow
            WITH taken <- read, given <- routed, stopped <- bridge = "aborted"
ImplementsFlow == Flow!Spec

(***************************************************************************)
(* The end of one stream takes with it the streams of its own task and no  *)
(* other: what CLN sends on a stream whose task listens reaches the        *)
(* router, whatever becomes of the other tasks, until that task returns or *)
(* the server is stopped.                                                  *)
(***************************************************************************)
OthersKeepFlowing ==
    \A s \in Stream, n \in 1..MaxNotes :
        sent[s] >= n /\ task[TaskOf(s)] \in {"select", "send"}
            ~> \/ routed[s] >= n
               \/ task[TaskOf(s)] = "ended"
               \/ server # "serving"

(***************************************************************************)
(* No task waits for ever for room in the queue: not behind others, and    *)
(* not when the dispatcher is aborted while the queue is full.             *)
(***************************************************************************)
BlockedTasksReleased ==
    \A t \in Task : task[t] = "send" ~> task[t] # "send" \/ server = "exited"

(***************************************************************************)
(* A signal stops the server, whatever CLN does, provided that its clients *)
(* leave: open streams are not ended for them.                             *)
(***************************************************************************)
SignalStopsServer ==
    (\A r \in Request : <>[](request[r] # "open"))
        => (server = "draining" ~> server = "exited")
=============================================================================
