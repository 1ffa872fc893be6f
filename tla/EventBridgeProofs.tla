------------------------- MODULE EventBridgeProofs -------------------------
(***************************************************************************)
(* Proofs about EventBridge for any tasks, streams, requests and capacity, *)
(* and of its refinement of EventFlow.  What is between the tasks and the  *)
(* router is one sequence, Transit: a send appends to it, the dispatcher   *)
(* takes from its front, and nothing else changes it but the abort.        *)
(***************************************************************************)
EXTENDS EventBridge, SequenceTheorems, TLAPS

(***************************************************************************)
(* Every stream belongs to one task.                                       *)
(***************************************************************************)
LEMMA Ownership ==
    /\ \A s \in Stream : TaskOf(s) \in Task /\ s \in Mine(TaskOf(s))
    /\ \A t \in Task : \A s \in Mine(t) : s \in Stream /\ TaskOf(s) = t
<1>1. ASSUME NEW t \in Task, NEW s \in Mine(t) PROVE s \in Stream
  <2>1. PICK i \in 1..Len(StreamsOf[t]) : s = StreamsOf[t][i]
    BY DEF Mine
  <2>2. StreamsOf[t] \in Seq(Stream)
    BY EventBridgeAssumption
  <2> QED
    BY <2>1, <2>2, ElementOfSeq
<1>2. ASSUME NEW t \in Task, NEW u \in Task, NEW s \in Mine(t), s \in Mine(u)
      PROVE  t = u
  <2>1. PICK i \in 1..Len(StreamsOf[t]) : s = StreamsOf[t][i]
    BY DEF Mine
  <2>2. PICK j \in 1..Len(StreamsOf[u]) : s = StreamsOf[u][j]
    BY <1>2 DEF Mine
  <2>3. \A a \in 1..Len(StreamsOf[t]), b \in 1..Len(StreamsOf[u]) :
            StreamsOf[t][a] = StreamsOf[u][b] => t = u
    BY EventBridgeAssumption
  <2> QED
    BY <2>1, <2>2, <2>3, Zenon
<1>3. ASSUME NEW s \in Stream PROVE \E t \in Task : s \in Mine(t)
  <2>1. PICK t \in Task : \E i \in 1..Len(StreamsOf[t]) : StreamsOf[t][i] = s
    BY EventBridgeAssumption
  <2> QED
    BY <2>1, Zenon DEF Mine
<1>4. \A s \in Stream : TaskOf(s) \in Task /\ s \in Mine(TaskOf(s))
  BY <1>3 DEF TaskOf
<1> QED
  BY <1>1, <1>2, <1>4

(***************************************************************************)
(* A send appends to what is in transit.                                   *)
(***************************************************************************)
LEMMA TransitAppend ==
    ASSUME TypeOK, NEW h \in Seq(Event), Len(h) = 1,
           queue' = queue \o h, at' = at
    PROVE  /\ queue' \in Seq(Event) /\ Len(queue') = Len(queue) + 1
           /\ Len(Transit) \in Nat
           /\ Len(Transit') = Len(Transit) + 1
           /\ \A i \in 1..Len(Transit) : Transit'[i] = Transit[i]
           /\ Transit'[Len(Transit) + 1] = h[1]
<1>1. at \in Seq(Event) /\ queue \in Seq(Event)
  BY DEF TypeOK
<1>2. /\ queue' \in Seq(Event) /\ Len(queue') = Len(queue) + Len(h)
      /\ \A i \in 1..Len(queue) + Len(h) :
            queue'[i] = IF i <= Len(queue) THEN queue[i] ELSE h[i - Len(queue)]
  BY <1>1, ConcatProperties, Zenon
<1>3. /\ Transit \in Seq(Event) /\ Len(Transit) = Len(at) + Len(queue)
      /\ \A i \in 1..Len(at) + Len(queue) :
            Transit[i] = IF i <= Len(at) THEN at[i] ELSE queue[i - Len(at)]
  BY <1>1, ConcatProperties, Zenon DEF Transit
<1>4. /\ Len(Transit') = Len(at) + Len(queue')
      /\ \A i \in 1..Len(at) + Len(queue') :
            Transit'[i] = IF i <= Len(at) THEN at[i] ELSE queue'[i - Len(at)]
  BY <1>1, <1>2, ConcatProperties, Zenon DEF Transit
<1>5. Len(at) \in Nat /\ Len(queue) \in Nat
  BY <1>1
<1>6. Len(queue') = Len(queue) + 1 /\ Len(Transit') = Len(Transit) + 1
  BY <1>2, <1>3, <1>4, <1>5
<1>7. ASSUME NEW i \in 1..Len(Transit) PROVE Transit'[i] = Transit[i]
  <2> i \in 1..Len(at) + Len(queue) /\ i \in 1..Len(at) + Len(queue')
    BY <1>3, <1>5, <1>6
  <2>1. CASE i <= Len(at)
    BY <1>3, <1>4, <2>1
  <2>2. CASE ~(i <= Len(at))
    <3>1. i - Len(at) \in 1..Len(queue)
      BY <1>3, <1>5, <2>2
    <3>2. queue'[i - Len(at)] = queue[i - Len(at)]
      BY <1>2, <1>5, <3>1
    <3> QED
      BY <1>3, <1>4, <2>2, <3>2
  <2> QED
    BY <2>1, <2>2
<1>8. Transit'[Len(Transit) + 1] = h[1]
  <2>1. queue'[Len(queue) + 1] = h[1]
    BY <1>2, <1>5
  <2>2. /\ Len(Transit) + 1 \in 1..Len(at) + Len(queue')
        /\ ~(Len(Transit) + 1 <= Len(at))
        /\ Len(Transit) + 1 - Len(at) = Len(queue) + 1
    BY <1>3, <1>5, <1>6
  <2> QED
    BY <1>4, <2>1, <2>2
<1> QED
  BY <1>2, <1>3, <1>5, <1>6, <1>7, <1>8

(***************************************************************************)
(* recv moves the front of the queue into the hands of the dispatcher.     *)
(***************************************************************************)
LEMMA TransitRecv ==
    ASSUME TypeOK, Recv
    PROVE  /\ queue' \in Seq(Event) /\ Len(queue') <= Len(queue)
           /\ at' \in Seq(Event) /\ Len(at') = 1
           /\ Transit' = Transit
<1>1. /\ at \in Seq(Event) /\ queue \in Seq(Event) /\ Len(at) = 0
      /\ queue # <<>> /\ at' = <<Head(queue)>> /\ queue' = Tail(queue)
  BY DEF TypeOK, Recv
<1>2. /\ Head(queue) \in Event /\ Tail(queue) \in Seq(Event)
      /\ queue = <<Head(queue)>> \o Tail(queue)
  BY <1>1, HeadTailProperties
<1>3. at = <<>>
  BY <1>1, EmptySeq
<1>4. <<>> \o queue = queue
  BY <1>1, ConcatEmptySeq
<1>5. Len(queue') <= Len(queue)
  BY <1>1, HeadTailProperties
<1> QED
  BY <1>1, <1>2, <1>3, <1>4, <1>5 DEF Transit

(***************************************************************************)
(* A dispatch takes the first event in transit away.                       *)
(***************************************************************************)
LEMMA TransitDispatch ==
    ASSUME TypeOK, Dispatch
    PROVE  /\ Len(Transit) \in Nat \ {0} /\ Transit[1] = at[1] /\ at[1] \in Event
           /\ Len(Transit') = Len(Transit) - 1
           /\ \A i \in 1..Len(Transit') : Transit'[i] = Transit[i + 1]
           /\ Transit \in Seq(Event)
<1>1. /\ at \in Seq(Event) /\ queue \in Seq(Event) /\ Len(at) = 1
      /\ queue' = queue /\ at' = <<>>
  BY DEF TypeOK, Dispatch
<1>2. /\ Transit \in Seq(Event) /\ Len(Transit) = Len(at) + Len(queue)
      /\ \A i \in 1..Len(Transit) :
            Transit[i] = IF i <= Len(at) THEN at[i] ELSE queue[i - Len(at)]
  BY <1>1, ConcatProperties DEF Transit
<1>3. Transit' = queue
  BY <1>1, ConcatEmptySeq DEF Transit
<1>4. Len(queue) \in Nat
  BY <1>1
<1> QED
  BY <1>1, <1>2, <1>3, <1>4

(***************************************************************************)
(* Steps that neither move an event nor read one keep every account.       *)
(***************************************************************************)
LEMMA SameFlow ==
    ASSUME TransitExact, UNCHANGED <<routed, Transit>>,
           \A s \in Stream : Put(s)' = Put(s),
           bridge' # "aborted" => bridge # "aborted"
    PROVE  bridge' # "aborted" => \A s \in Stream : ExactFor(s)'
<1> SUFFICES ASSUME bridge' # "aborted", NEW s \in Stream PROVE ExactFor(s)'
  OBVIOUS
<1>1. ExactFor(s) /\ Put(s)' = Put(s)
  BY DEF TransitExact
<1> HIDE DEF Transit, Put
<1> QED
  BY <1>1 DEF ExactFor

(***************************************************************************)
(* Nothing has happened yet.                                               *)
(***************************************************************************)
LEMMA InitInv == Init => BridgeInv
<1> SUFFICES ASSUME Init PROVE BridgeInv
  OBVIOUS
<1>1. TypeOK
  <2>1. <<>> \in Seq(Event) /\ Len(<<>>) = 0
    BY EmptySeq
  <2> QED
    BY <2>1, EventBridgeAssumption DEF Init, TypeOK
<1>2. HandIsLastRead
  BY DEF Init, HandIsLastRead
<1>3. Transit = <<>> /\ Len(Transit) = 0
  BY ConcatEmptySeq, EmptySeq DEF Init, Transit
<1>4. \A s \in Stream : Put(s) = 0 /\ routed[s] = 0
  BY Ownership DEF Init, Put
<1>5. \A s \in Stream : ExactFor(s)
  BY <1>3, <1>4 DEF ExactFor
<1> QED
  BY <1>1, <1>2, <1>5 DEF Init, BridgeInv, TransitExact

(***************************************************************************)
(* CLN, the clients, the signal, the exit and the end of the loop move no  *)
(* event; the loop ends only when nothing is left to be moved.             *)
(***************************************************************************)
LEMMA QuietPreserves ==
    ASSUME BridgeInv, TypeOK', UNCHANGED <<read, tasks, queue, at, routed>>,
           \/ UNCHANGED bridge
           \/ Finish
    PROVE  BridgeInv'
<1>1. HandIsLastRead'
  BY DEF BridgeInv, HandIsLastRead, tasks
<1>2. UNCHANGED <<routed, Transit>> /\ \A s \in Stream : Put(s)' = Put(s)
  BY DEF Transit, Put, tasks
<1>3. bridge' # "aborted" => bridge # "aborted"
  BY DEF Finish
<1>4. bridge' # "aborted" => \A s \in Stream : ExactFor(s)'
  BY <1>2, <1>3, SameFlow DEF BridgeInv
<1>5. bridge' = "done" => queue' = <<>> /\ \A t \in Task : task'[t] = "ended"
  BY DEF BridgeInv, TransitExact, Finish, tasks
<1> QED
  BY <1>1, <1>4, <1>5 DEF BridgeInv, TransitExact

(***************************************************************************)
(* A task that opens its streams or returns holds no event.                *)
(***************************************************************************)
LEMMA IdleTaskPreserves ==
    ASSUME BridgeInv, TypeOK', NEW t \in Task, task[t] \in {"subscribe", "select"},
           NEW l \in {"subscribe", "select", "ended"},
           task' = [task EXCEPT ![t] = l], l # "ended" => task[t] = "subscribe",
           UNCHANGED hand \/ hand' = [hand EXCEPT ![t] = <<>>],
           UNCHANGED <<read, queue, bridge, at, routed>>
    PROVE  BridgeInv'
<1>1. /\ task \in [Task -> {"subscribe", "select", "send", "ended"}]
      /\ hand \in [Task -> Seq(Event)]
      /\ task'[t] = l /\ \A u \in Task \ {t} : task'[u] = task[u] /\ hand'[u] = hand[u]
  BY DEF BridgeInv, TypeOK
<1>2. HandIsLastRead'
  BY <1>1 DEF BridgeInv, HandIsLastRead
<1>3. \A s \in Stream : Put(s)' = Put(s)
  BY <1>1, Ownership DEF Put
<1>4. UNCHANGED <<routed, Transit>>
  BY DEF Transit
<1>5. bridge' # "aborted" => \A s \in Stream : ExactFor(s)'
  BY <1>3, <1>4, SameFlow DEF BridgeInv
<1>6. bridge' = "done" => queue' = <<>> /\ \A u \in Task : task'[u] = "ended"
  BY <1>1 DEF BridgeInv, TransitExact
<1> QED
  BY <1>2, <1>5, <1>6 DEF BridgeInv, TransitExact

(***************************************************************************)
(* A notification that is read goes into the hands of its task.            *)
(***************************************************************************)
LEMMA ReceivePreserves ==
    ASSUME BridgeInv, NEW t \in Task, NEW s \in Mine(t), Receive(t, s)
    PROVE  BridgeInv'
<1>1. s \in Stream /\ TaskOf(s) = t
  BY Ownership
<1>2. /\ task[t] = "select" /\ read[s] \in Nat
      /\ read' = [read EXCEPT ![s] = read[s] + 1]
      /\ hand' = [hand EXCEPT ![t] = <<[stream |-> s, n |-> read[s] + 1]>>]
      /\ task' = [task EXCEPT ![t] = "send"]
      /\ UNCHANGED <<cln, sent, queue, bridge, at, routed, server, request>>
  BY <1>1 DEF BridgeInv, TypeOK, Receive
<1>3. [stream |-> s, n |-> read[s] + 1] \in Event
  BY <1>1, <1>2 DEF Event
<1>4. /\ <<[stream |-> s, n |-> read[s] + 1]>> \in Seq(Event)
      /\ Len(<<[stream |-> s, n |-> read[s] + 1]>>) = 1
  BY <1>3
<1>5. /\ task'[t] = "send" /\ \A u \in Task \ {t} : task'[u] = task[u] /\ hand'[u] = hand[u]
      /\ hand'[t] = <<[stream |-> s, n |-> read[s] + 1]>>
      /\ read'[s] = read[s] + 1 /\ \A r \in Stream \ {s} : read'[r] = read[r]
      /\ read' \in [Stream -> Nat]
  BY <1>1, <1>2 DEF BridgeInv, TypeOK
<1>6. TypeOK'
  <2>1. hand' \in [Task -> Seq(Event)]
    BY <1>2, <1>4 DEF BridgeInv, TypeOK
  <2>2. \A u \in Task : Len(hand'[u]) = IF task'[u] = "send" THEN 1 ELSE 0
    BY <1>4, <1>5 DEF BridgeInv, TypeOK
  <2> QED
    BY <1>2, <1>5, <2>1, <2>2 DEF BridgeInv, TypeOK
<1>7. hand'[t][1].stream = s /\ hand'[t][1].n = read[s] + 1
  BY <1>5
<1>8. HandIsLastRead'
  <2> SUFFICES ASSUME NEW u \in Task, task'[u] = "send"
               PROVE  /\ hand'[u][1].stream \in Mine(u)
                      /\ hand'[u][1].n = read'[hand'[u][1].stream]
    BY DEF HandIsLastRead, Mine
  <2>1. CASE u = t
    BY <1>5, <1>7, <2>1
  <2>2. CASE u # t
    <3>1. /\ hand[u][1].stream \in Mine(u) /\ hand[u][1].n = read[hand[u][1].stream]
          /\ hand'[u] = hand[u]
      BY <1>5, <2>2 DEF BridgeInv, HandIsLastRead
    <3>2. hand[u][1].stream # s /\ hand[u][1].stream \in Stream
      BY <1>1, <2>2, <3>1, Ownership
    <3> QED
      BY <1>5, <3>1, <3>2
  <2> QED
    BY <2>1, <2>2
<1>9. ASSUME NEW r \in Stream PROVE Put(r)' = Put(r)
  <2>1. CASE r = s
    BY <1>1, <1>2, <1>5, <1>7, <2>1 DEF Put
  <2>2. CASE r # s /\ TaskOf(r) = t
    BY <1>2, <1>5, <1>7, <2>2 DEF Put
  <2>3. CASE r # s /\ TaskOf(r) # t
    <3>1. TaskOf(r) \in Task
      BY Ownership
    <3> QED
      BY <1>5, <2>3, <3>1 DEF Put
  <2> QED
    BY <2>1, <2>2, <2>3
<1>10. UNCHANGED <<routed, Transit>>
  BY <1>2 DEF Transit
<1>11. bridge' # "aborted" => \A r \in Stream : ExactFor(r)'
  BY <1>2, <1>9, <1>10, SameFlow DEF BridgeInv
<1>12. bridge' # "done"
  BY <1>2 DEF BridgeInv, TransitExact
<1> QED
  BY <1>6, <1>8, <1>11, <1>12 DEF BridgeInv, TransitExact

(***************************************************************************)
(* A send into the queue puts the event behind all others of its stream.   *)
(* Without a receiver the event is lost: only after an abort.              *)
(***************************************************************************)
LEMMA SendPreserves ==
    ASSUME BridgeInv, NEW t \in Task, Send(t)
    PROVE  BridgeInv'
<1> DEFINE e == hand[t][1]
           s == e.stream
<1>1. /\ task[t] = "send"
      /\ task' = [task EXCEPT ![t] = "select"] /\ hand' = [hand EXCEPT ![t] = <<>>]
      /\ UNCHANGED <<cln, sent, read, bridge, at, routed, server, request>>
  BY DEF Send, streams
<1>2. /\ hand[t] \in Seq(Event) /\ Len(hand[t]) = 1 /\ e \in Event
      /\ s \in Mine(t) /\ s \in Stream /\ TaskOf(s) = t /\ e.n = read[s]
  <2>1. hand[t] \in Seq(Event) /\ Len(hand[t]) = 1
    BY <1>1 DEF BridgeInv, TypeOK
  <2>2. e \in Event
    BY <2>1, ElementOfSeq
  <2>3. s \in Mine(t) /\ e.n = read[s]
    BY <1>1 DEF BridgeInv, HandIsLastRead
  <2> QED
    BY <2>1, <2>2, <2>3, Ownership
<1>3. /\ task'[t] = "select" /\ hand'[t] = <<>>
      /\ \A u \in Task \ {t} : task'[u] = task[u] /\ hand'[u] = hand[u]
      /\ task' \in [Task -> {"subscribe", "select", "send", "ended"}]
      /\ hand' \in [Task -> Seq(Event)]
  BY <1>1 DEF BridgeInv, TypeOK
<1>4. \/ Receiving /\ Len(queue) < QueueCap /\ queue' = queue \o hand[t]
      \/ bridge = "aborted" /\ UNCHANGED queue
  <2>1. bridge # "done"
    BY <1>1 DEF BridgeInv, TransitExact
  <2> QED
    BY <2>1 DEF BridgeInv, TypeOK, Send, Receiving
<1>5. TypeOK'
  <2>1. \A u \in Task : Len(hand'[u]) = IF task'[u] = "send" THEN 1 ELSE 0
    BY <1>3 DEF BridgeInv, TypeOK
  <2>2. queue' \in Seq(Event) /\ Len(queue') <= QueueCap
    <3>1. CASE queue' = queue \o hand[t] /\ Len(queue) < QueueCap
      <4>1. queue' \in Seq(Event) /\ Len(queue') = Len(queue) + 1
        BY <1>1, <1>2, <3>1, TransitAppend DEF BridgeInv
      <4>2. Len(queue) \in Nat
        BY DEF BridgeInv, TypeOK
      <4> QED
        BY <3>1, <4>1, <4>2, EventBridgeAssumption
    <3>2. CASE UNCHANGED queue
      BY <3>2 DEF BridgeInv, TypeOK
    <3> QED
      BY <1>4, <3>1, <3>2
  <2> QED
    BY <1>1, <1>3, <2>1, <2>2 DEF BridgeInv, TypeOK
<1>6. HandIsLastRead'
  BY <1>1, <1>3 DEF BridgeInv, HandIsLastRead, Mine
<1>7. ASSUME bridge' # "aborted", NEW r \in Stream PROVE ExactFor(r)'
  <2>1. Receiving /\ queue' = queue \o hand[t] /\ ExactFor(r)
    BY <1>1, <1>4, <1>7 DEF BridgeInv, TransitExact
  <2>2. /\ Len(Transit) \in Nat /\ Len(Transit') = Len(Transit) + 1
        /\ \A i \in 1..Len(Transit) : Transit'[i] = Transit[i]
        /\ Transit'[Len(Transit) + 1] = e
    BY <1>1, <1>2, <2>1, TransitAppend DEF BridgeInv
  <2>3. routed' = routed /\ routed[r] \in Nat /\ read[r] \in Nat /\ read' = read
    BY <1>1 DEF BridgeInv, TypeOK
  <2>4. CASE r = s
    <3>1. Put(r) = read[r] - 1 /\ Put(r)' = read[r]
      BY <1>1, <1>2, <1>3, <2>4 DEF Put
    <3>2. e = [stream |-> r, n |-> read[r]]
      BY <1>2, <2>4 DEF Event
    <3>3. routed'[r] <= Put(r)'
      BY <2>1, <2>3, <3>1 DEF ExactFor
    <3>4. ASSUME NEW i \in 1..Len(Transit'), Transit'[i].stream = r
          PROVE  Transit'[i].n \in routed'[r] + 1..Put(r)'
      BY <2>1, <2>2, <2>3, <3>1, <3>2, <3>4 DEF ExactFor
    <3>5. ASSUME NEW n \in routed'[r] + 1..Put(r)'
          PROVE  \E i \in 1..Len(Transit') : Transit'[i] = [stream |-> r, n |-> n]
      <4>1. CASE n = read[r]
        <5>1. Len(Transit) + 1 \in 1..Len(Transit')
          BY <2>2
        <5> QED
          BY <2>2, <3>2, <4>1, <5>1
      <4>2. CASE n # read[r]
        <5>1. n \in routed[r] + 1..Put(r)
          BY <2>3, <3>1, <4>2
        <5>2. PICK i \in 1..Len(Transit) : Transit[i] = [stream |-> r, n |-> n]
          BY <2>1, <5>1 DEF ExactFor
        <5>3. i \in 1..Len(Transit') /\ Transit'[i] = Transit[i]
          BY <2>2
        <5> QED
          BY <5>2, <5>3
      <4> QED
        BY <4>1, <4>2
    <3>6. ASSUME NEW i \in 1..Len(Transit'), NEW j \in 1..Len(Transit'), i < j,
                 Transit'[i].stream = r, Transit'[j].stream = r
          PROVE  Transit'[i].n < Transit'[j].n
      <4>1. i \in 1..Len(Transit) /\ Transit'[i] = Transit[i]
        BY <2>2, <3>6
      <4>2. CASE j \in 1..Len(Transit)
        BY <2>1, <2>2, <3>6, <4>1, <4>2 DEF ExactFor
      <4>3. CASE j = Len(Transit) + 1
        <5>1. Transit[i].n \in routed[r] + 1..Put(r)
          BY <2>1, <3>6, <4>1 DEF ExactFor
        <5> QED
          BY <2>2, <2>3, <3>1, <3>2, <4>1, <4>3, <5>1
      <4> QED
        BY <2>2, <4>2, <4>3
    <3> QED
      BY <3>3, <3>4, <3>5, <3>6 DEF ExactFor
  <2>5. CASE r # s
    <3>1. Put(r)' = Put(r)
      <4>1. CASE TaskOf(r) = t
        BY <1>1, <1>3, <2>5, <4>1 DEF Put
      <4>2. CASE TaskOf(r) # t
        BY <1>1, <1>3, <4>2, Ownership DEF Put
      <4> QED
        BY <4>1, <4>2
    <3>2. \A i \in 1..Len(Transit') :
             Transit'[i].stream = r => i \in 1..Len(Transit) /\ Transit'[i] = Transit[i]
      BY <2>2, <2>5
    <3>3. 1..Len(Transit) \subseteq 1..Len(Transit')
      BY <2>2
    <3>4. /\ routed'[r] <= Put(r)'
          /\ \A i \in 1..Len(Transit') :
                Transit'[i].stream = r => Transit'[i].n \in routed'[r] + 1..Put(r)'
      BY <2>1, <2>3, <3>1, <3>2 DEF ExactFor
    <3>5. ASSUME NEW n \in routed'[r] + 1..Put(r)'
          PROVE  \E i \in 1..Len(Transit') : Transit'[i] = [stream |-> r, n |-> n]
      <4>1. PICK i \in 1..Len(Transit) : Transit[i] = [stream |-> r, n |-> n]
        BY <2>1, <2>3, <3>1, <3>5 DEF ExactFor
      <4> QED
        BY <2>2, <3>3, <4>1
    <3>6. \A i, j \in 1..Len(Transit') :
             i < j /\ Transit'[i].stream = r /\ Transit'[j].stream = r =>
                 Transit'[i].n < Transit'[j].n
      BY <2>1, <3>2 DEF ExactFor
    <3> QED
      BY <3>4, <3>5, <3>6 DEF ExactFor
  <2> QED
    BY <2>4, <2>5
<1>8. bridge' # "done"
  BY <1>1 DEF BridgeInv, TransitExact
<1> QED
  BY <1>5, <1>6, <1>7, <1>8 DEF BridgeInv, TransitExact

(***************************************************************************)
(* What the dispatcher has in hand is the next event of its stream: the    *)
(* one after the last that was routed.                                     *)
(***************************************************************************)
LEMMA NextInOrder ==
    ASSUME BridgeInv, Dispatch
    PROVE  /\ at[1].stream \in Stream
           /\ at[1].n = routed[at[1].stream] + 1
           /\ routed[at[1].stream] < read[at[1].stream]
<1> DEFINE s == at[1].stream
<1>1. /\ Len(Transit) \in Nat \ {0} /\ Transit[1] = at[1] /\ at[1] \in Event
  BY TransitDispatch DEF BridgeInv
<1>2. s \in Stream /\ at[1].n \in Nat
  BY <1>1 DEF Event
<1>3. ExactFor(s)
  BY <1>2 DEF BridgeInv, TransitExact, Dispatch
<1>4. routed[s] \in Nat /\ read[s] \in Nat /\ Put(s) \in {read[s] - 1, read[s]}
  BY <1>2 DEF BridgeInv, TypeOK, Put
<1>5. at[1].n \in routed[s] + 1..Put(s)
  BY <1>1, <1>3 DEF ExactFor
<1>6. PICK i \in 1..Len(Transit) : Transit[i] = [stream |-> s, n |-> routed[s] + 1]
  <2>1. routed[s] + 1 \in routed[s] + 1..Put(s)
    BY <1>2, <1>4, <1>5
  <2> QED
    BY <1>3, <2>1 DEF ExactFor
<1>7. CASE i = 1
  BY <1>1, <1>2, <1>4, <1>5, <1>6, <1>7
<1>8. CASE i > 1
  <2>1. 1 \in 1..Len(Transit) /\ Transit[i].stream = s /\ Transit[i].n = routed[s] + 1
    BY <1>1, <1>6
  <2>2. Transit[1].n < Transit[i].n
    BY <1>1, <1>3, <1>8, <2>1 DEF ExactFor
  <2> QED
    BY <1>1, <1>2, <1>4, <1>5, <2>1, <2>2
<1> QED
  BY <1>1, <1>7, <1>8

(***************************************************************************)
(* recv moves an event and changes no account.                             *)
(***************************************************************************)
LEMMA RecvPreserves ==
    ASSUME BridgeInv, Recv
    PROVE  BridgeInv'
<1>1. /\ bridge = "recv" /\ bridge' = "dispatch"
      /\ UNCHANGED <<cln, sent, read, task, hand, routed, server, request>>
  BY DEF Recv, streams, tasks
<1>2. /\ queue' \in Seq(Event) /\ Len(queue') <= Len(queue)
      /\ at' \in Seq(Event) /\ Len(at') = 1 /\ Transit' = Transit
  BY TransitRecv DEF BridgeInv
<1>3. TypeOK'
  <2>1. Len(queue') \in Nat /\ Len(queue) \in Nat /\ Len(queue) <= QueueCap
    BY <1>2 DEF BridgeInv, TypeOK
  <2>2. Len(queue') <= QueueCap
    BY <1>2, <2>1, EventBridgeAssumption
  <2> QED
    BY <1>1, <1>2, <2>2 DEF BridgeInv, TypeOK
<1>4. HandIsLastRead'
  BY <1>1 DEF BridgeInv, HandIsLastRead
<1>5. \A s \in Stream : Put(s)' = Put(s)
  BY <1>1 DEF Put
<1>6. bridge' # "aborted" => \A s \in Stream : ExactFor(s)'
  BY <1>1, <1>2, <1>5, SameFlow DEF BridgeInv
<1> QED
  BY <1>1, <1>3, <1>4, <1>6 DEF BridgeInv, TransitExact

(***************************************************************************)
(* A dispatch gives the router the next event of its stream.               *)
(***************************************************************************)
LEMMA DispatchPreserves ==
    ASSUME BridgeInv, Dispatch
    PROVE  BridgeInv'
<1> DEFINE e == at[1]
           s == e.stream
<1>1. /\ bridge = "dispatch" /\ bridge' = "recv" /\ at' = <<>>
      /\ routed' = [routed EXCEPT ![s] = e.n]
      /\ UNCHANGED <<cln, sent, read, task, hand, queue, server, request>>
  BY DEF Dispatch, streams, tasks
<1>2. /\ Len(Transit) \in Nat \ {0} /\ Transit[1] = e /\ e \in Event
      /\ Len(Transit') = Len(Transit) - 1
      /\ \A i \in 1..Len(Transit') : Transit'[i] = Transit[i + 1]
  BY TransitDispatch DEF BridgeInv
<1>3. s \in Stream /\ e.n \in Nat /\ e.n = routed[s] + 1
  BY <1>2, NextInOrder DEF Event
<1>4. /\ routed' \in [Stream -> Nat] /\ routed'[s] = routed[s] + 1
      /\ \A r \in Stream \ {s} : routed'[r] = routed[r]
      /\ routed \in [Stream -> Nat] /\ read \in [Stream -> Nat]
  BY <1>1, <1>3 DEF BridgeInv, TypeOK
<1>5. TypeOK'
  BY <1>1, <1>4 DEF BridgeInv, TypeOK
<1>6. HandIsLastRead'
  BY <1>1 DEF BridgeInv, HandIsLastRead
<1>7. ASSUME NEW r \in Stream PROVE ExactFor(r)'
  <2>1. ExactFor(r) /\ Put(r)' = Put(r)
    BY <1>1 DEF BridgeInv, TransitExact, Put
  <2>2. Put(r) \in Int /\ routed[r] \in Nat
    BY <1>4 DEF Put
  <2>3. \A i \in 1..Len(Transit') :
           i + 1 \in 1..Len(Transit) /\ i + 1 > 1 /\ Transit'[i] = Transit[i + 1]
    BY <1>2
  <2>4. CASE r = s
    <3>1. routed'[r] <= Put(r)'
      <4>1. e.n \in routed[r] + 1..Put(r)
        BY <1>2, <2>1, <2>4 DEF ExactFor
      <4> QED
        BY <1>3, <1>4, <2>1, <2>2, <2>4, <4>1
    <3>2. ASSUME NEW i \in 1..Len(Transit'), Transit'[i].stream = r
          PROVE  Transit'[i].n \in routed'[r] + 1..Put(r)'
      <4>1. i + 1 \in 1..Len(Transit) /\ Transit[i + 1].stream = r /\ i \in Nat
        BY <2>3, <3>2
      <4>2. Transit[i + 1].n \in routed[r] + 1..Put(r)
        BY <2>1, <4>1 DEF ExactFor
      <4>3. Transit[1].n < Transit[i + 1].n
        <5>1. 1 \in 1..Len(Transit) /\ 1 < i + 1
          BY <1>2
        <5> QED
          BY <1>2, <2>1, <2>4, <4>1, <5>1 DEF ExactFor
      <4> QED
        BY <1>2, <1>3, <1>4, <2>1, <2>2, <2>3, <2>4, <4>2, <4>3
    <3>3. ASSUME NEW n \in routed'[r] + 1..Put(r)'
          PROVE  \E i \in 1..Len(Transit') : Transit'[i] = [stream |-> r, n |-> n]
      <4>1. n \in routed[r] + 1..Put(r) /\ n # e.n
        BY <1>3, <1>4, <2>1, <2>2, <2>4
      <4>2. PICK i \in 1..Len(Transit) : Transit[i] = [stream |-> r, n |-> n]
        BY <2>1, <4>1 DEF ExactFor
      <4>3. i # 1
        BY <1>2, <4>1, <4>2
      <4>4. i - 1 \in 1..Len(Transit') /\ (i - 1) + 1 = i
        BY <1>2, <4>3
      <4> QED
        BY <2>3, <4>2, <4>4
    <3>4. ASSUME NEW i \in 1..Len(Transit'), NEW j \in 1..Len(Transit'), i < j,
                 Transit'[i].stream = r, Transit'[j].stream = r
          PROVE  Transit'[i].n < Transit'[j].n
      BY <2>1, <2>3, <3>4 DEF ExactFor
    <3> QED
      BY <3>1, <3>2, <3>3, <3>4 DEF ExactFor
  <2>5. CASE r # s
    <3>1. /\ routed'[r] <= Put(r)'
          /\ \A i \in 1..Len(Transit') :
                Transit'[i].stream = r => Transit'[i].n \in routed'[r] + 1..Put(r)'
      <4>1. routed'[r] <= Put(r)'
        BY <1>4, <2>1, <2>5 DEF ExactFor
      <4>2. ASSUME NEW i \in 1..Len(Transit'), Transit'[i].stream = r
            PROVE  Transit'[i].n \in routed[r] + 1..Put(r)
        BY <2>1, <2>3, <4>2 DEF ExactFor
      <4> QED
        BY <1>4, <2>1, <2>5, <4>1, <4>2
    <3>2. ASSUME NEW n \in routed'[r] + 1..Put(r)'
          PROVE  \E i \in 1..Len(Transit') : Transit'[i] = [stream |-> r, n |-> n]
      <4>1. PICK i \in 1..Len(Transit) : Transit[i] = [stream |-> r, n |-> n]
        BY <1>4, <2>1, <2>5 DEF ExactFor
      <4>2. i # 1
        BY <1>2, <2>5, <4>1
      <4>3. i - 1 \in 1..Len(Transit') /\ (i - 1) + 1 = i
        BY <1>2, <4>2
      <4> QED
        BY <2>3, <4>1, <4>3
    <3>3. ASSUME NEW i \in 1..Len(Transit'), NEW j \in 1..Len(Transit'), i < j,
                 Transit'[i].stream = r, Transit'[j].stream = r
          PROVE  Transit'[i].n < Transit'[j].n
      BY <2>1, <2>3, <3>3 DEF ExactFor
    <3> QED
      BY <3>1, <3>2, <3>3 DEF ExactFor
  <2> QED
    BY <2>4, <2>5
<1> QED
  BY <1>1, <1>5, <1>6, <1>7 DEF BridgeInv, TransitExact

(***************************************************************************)
(* An abort drops what is in transit, and with it the promise.             *)
(***************************************************************************)
LEMMA AbortPreserves ==
    ASSUME BridgeInv, Aborted
    PROVE  BridgeInv'
<1>1. /\ bridge' = "aborted" /\ queue' = <<>> /\ at' = <<>>
      /\ UNCHANGED <<cln, sent, read, task, hand, routed, server, request>>
  BY DEF Aborted, streams, tasks
<1>2. TypeOK'
  BY <1>1, EventBridgeAssumption DEF BridgeInv, TypeOK
<1>3. HandIsLastRead'
  BY <1>1 DEF BridgeInv, HandIsLastRead
<1> QED
  BY <1>1, <1>2, <1>3 DEF BridgeInv, TransitExact

(***************************************************************************)
(* Every step of a task keeps the invariant.                               *)
(***************************************************************************)
LEMMA RunPreserves ==
    ASSUME BridgeInv, NEW t \in Task, Run(t)
    PROVE  BridgeInv'
<1>1. CASE Subscribe(t)
  <2>1. PICK l \in {"subscribe", "select"} : task' = [task EXCEPT ![t] = l]
    BY <1>1 DEF Subscribe
  <2>2. /\ task[t] = "subscribe"
        /\ UNCHANGED <<sent, read, hand, queue, bridge, at, routed, server, request>>
        /\ cln' \in [Stream -> {"closed", "open", "ended"}]
    BY <1>1 DEF Subscribe, BridgeInv, TypeOK
  <2>3. TypeOK'
    BY <2>1, <2>2 DEF BridgeInv, TypeOK
  <2> QED
    BY <2>1, <2>2, <2>3, IdleTaskPreserves
<1>2. CASE /\ Return(t) /\ task[t] \in {"subscribe", "select"}
           /\ UNCHANGED <<sent, read, queue, bridge, at, routed, server, request>>
  <2>1. /\ task' = [task EXCEPT ![t] = "ended"] /\ hand' = [hand EXCEPT ![t] = <<>>]
        /\ cln' \in [Stream -> {"closed", "open", "ended"}]
    BY <1>2 DEF Return, BridgeInv, TypeOK
  <2>2. /\ hand' \in [Task -> Seq(Event)]
        /\ task' \in [Task -> {"subscribe", "select", "send", "ended"}]
        /\ \A u \in Task : Len(hand'[u]) = IF task'[u] = "send" THEN 1 ELSE 0
    <3>1. <<>> \in Seq(Event) /\ Len(<<>>) = 0
      BY EmptySeq
    <3>2. /\ hand' \in [Task -> Seq(Event)]
          /\ task' \in [Task -> {"subscribe", "select", "send", "ended"}]
      BY <2>1, <3>1 DEF BridgeInv, TypeOK
    <3>3. /\ task'[t] = "ended" /\ hand'[t] = <<>>
          /\ \A u \in Task \ {t} : task'[u] = task[u] /\ hand'[u] = hand[u]
      BY <2>1 DEF BridgeInv, TypeOK
    <3>4. \A u \in Task : Len(hand'[u]) = IF task'[u] = "send" THEN 1 ELSE 0
      BY <3>1, <3>3 DEF BridgeInv, TypeOK
    <3> QED
      BY <3>2, <3>4
  <2>3. TypeOK'
    BY <1>2, <2>1, <2>2 DEF BridgeInv, TypeOK
  <2> QED
    BY <1>2, <2>1, <2>3, IdleTaskPreserves
<1>3. CASE SubscribeFails(t) \/ StreamError(t)
  BY <1>2, <1>3 DEF SubscribeFails, StreamError
<1>4. CASE Loop(t)
  <2>1. PICK s \in Mine(t) : Receive(t, s) \/ StreamOver(t, s)
    BY <1>4 DEF Loop
  <2>2. CASE Receive(t, s)
    BY <2>2, ReceivePreserves
  <2>3. CASE StreamOver(t, s)
    BY <1>2, <2>3 DEF StreamOver
  <2> QED
    BY <2>1, <2>2, <2>3
<1>5. CASE Send(t)
  BY <1>5, SendPreserves
<1> QED
  BY <1>1, <1>3, <1>4, <1>5 DEF Run

(***************************************************************************)
(* Every step of CLN, of a client, of the exit and of the end of the loop  *)
(* keeps the invariant.                                                    *)
(***************************************************************************)
LEMMA OutsidePreserves ==
    ASSUME BridgeInv, Node \/ Clients \/ Shutdown \/ Exit \/ Finish \/ UNCHANGED vars
    PROVE  BridgeInv'
<1>1. /\ UNCHANGED <<read, tasks, queue, at, routed>>
      /\ UNCHANGED bridge \/ Finish
  BY DEF Node, Notify, End, Clients, Leave, Shutdown, Exit, Finish, vars, streams
<1>2. /\ cln' \in [Stream -> {"closed", "open", "ended"}] /\ sent' \in [Stream -> Nat]
      /\ server' \in {"serving", "draining", "exited"}
      /\ request' \in [Request -> {"open", "over"}]
  <2>1. ASSUME NEW s \in Stream, Notify(s)
        PROVE  sent' \in [Stream -> Nat] /\ UNCHANGED <<cln, server, request>>
    BY <2>1 DEF Notify, BridgeInv, TypeOK
  <2>2. ASSUME NEW s \in Stream, End(s)
        PROVE  /\ cln' \in [Stream -> {"closed", "open", "ended"}]
               /\ UNCHANGED <<sent, server, request>>
    BY <2>2 DEF End, BridgeInv, TypeOK
  <2>3. ASSUME NEW r \in Request, Leave(r)
        PROVE  request' \in [Request -> {"open", "over"}] /\ UNCHANGED <<cln, sent, server>>
    BY <2>3 DEF Leave, BridgeInv, TypeOK, streams
  <2>4. CASE Shutdown \/ Exit \/ Finish \/ UNCHANGED vars
    BY <2>4 DEF Shutdown, Exit, Finish, vars, streams, BridgeInv, TypeOK
  <2>5. TypeOK
    BY DEF BridgeInv
  <2> QED
    BY <2>1, <2>2, <2>3, <2>4, <2>5 DEF Node, Clients, TypeOK
<1>3. TypeOK'
  <2>1. bridge' \in {"recv", "dispatch", "done", "aborted"}
    BY <1>1 DEF Finish, BridgeInv, TypeOK
  <2>2. bridge' = "dispatch" <=> bridge = "dispatch"
    BY <1>1 DEF Finish
  <2> QED
    BY <1>1, <1>2, <2>1, <2>2 DEF BridgeInv, TypeOK, tasks
<1> QED
  BY <1>1, <1>3, QuietPreserves

(***************************************************************************)
(* BridgeInv holds in every state, for any tasks, streams and capacity:    *)
(* what was read is routed or on its way, once and in order, until an      *)
(* abort.                                                                  *)
(***************************************************************************)
THEOREM Invariance == Spec => []BridgeInv
<1>1. BridgeInv /\ [Next]_vars => BridgeInv'
  <2> SUFFICES ASSUME BridgeInv, [Next]_vars PROVE BridgeInv'
    OBVIOUS
  <2>1. CASE Node \/ Clients \/ Shutdown \/ Exit \/ Finish \/ UNCHANGED vars
    BY <2>1, OutsidePreserves
  <2>2. CASE Aborted
    BY <2>2, AbortPreserves
  <2>3. CASE Recv
    BY <2>3, RecvPreserves
  <2>4. CASE Dispatch
    BY <2>4, DispatchPreserves
  <2>5. ASSUME NEW t \in Task, Run(t) PROVE BridgeInv'
    BY <2>5, RunPreserves
  <2> QED
    BY <2>1, <2>2, <2>3, <2>4, <2>5 DEF Next, Stopping, Bridge
<1> QED
  BY InitInv, <1>1, PTL DEF Spec

\* When the bridge is done, all that was ever read has been routed.
DoneMeansRouted == bridge = "done" => routed = read

(***************************************************************************)
(* A bridge that ended by itself leaves nothing behind: recv returns None  *)
(* only when every event that any task read has been dispatched.           *)
(***************************************************************************)
THEOREM NothingLeftBehind == Spec => []DoneMeansRouted
<1>1. BridgeInv => DoneMeansRouted
  <2> SUFFICES ASSUME BridgeInv, bridge = "done" PROVE routed = read
    BY DEF DoneMeansRouted
  <2>1. ASSUME NEW s \in Stream PROVE routed[s] = read[s]
    <3>1. ExactFor(s) /\ queue = <<>> /\ task[TaskOf(s)] = "ended"
      BY Ownership DEF BridgeInv, TransitExact
    <3>2. Put(s) = read[s] /\ routed[s] \in Nat /\ read[s] \in Nat
      BY <3>1 DEF BridgeInv, TypeOK, Put
    <3>3. at \in Seq(Event) /\ Len(at) = 0
      BY DEF BridgeInv, TypeOK
    <3>4. Len(Transit) = 0
      BY <3>1, <3>3, ConcatEmptySeq DEF Transit
    <3>5. ~ \E n \in routed[s] + 1..Put(s) : TRUE
      BY <3>1, <3>4 DEF ExactFor
    <3>6. routed[s] <= read[s]
      BY <3>1, <3>2 DEF ExactFor
    <3> QED
      BY <3>2, <3>5, <3>6
  <2> QED
    BY <2>1 DEF BridgeInv, TypeOK
<1> QED
  BY Invariance, <1>1, PTL

(***************************************************************************)
(* Every step of the bridge is a step of EventFlow or leaves it alone: a   *)
(* notification that is read is taken, one that is dispatched is given,    *)
(* the abort stops the flow.                                               *)
(***************************************************************************)
LEMMA FlowStep ==
    ASSUME BridgeInv, [Next]_vars
    PROVE  [Flow!Next]_(Flow!flow)
<1> USE DEF Flow!flow
<1>1. CASE Node \/ Clients \/ Shutdown \/ Exit \/ UNCHANGED vars
  <2>1. UNCHANGED <<read, routed, bridge>>
    BY <1>1 DEF Node, Notify, End, Clients, Leave, Shutdown, Exit, vars, streams
  <2> QED
    BY <2>1
<1>2. CASE Finish \/ Recv
  <2>1. /\ UNCHANGED <<read, routed>>
        /\ bridge # "aborted" /\ bridge' # "aborted"
    BY <1>2 DEF Finish, Recv, streams
  <2> QED
    BY <2>1
<1>3. CASE Aborted
  <2>1. /\ UNCHANGED <<read, routed>>
        /\ bridge # "aborted" /\ bridge' = "aborted"
    BY <1>3 DEF Aborted, Receiving, streams
  <2>2. Flow!Stop
    BY <2>1 DEF Flow!Stop
  <2> QED
    BY <2>2 DEF Flow!Next
<1>4. CASE Dispatch
  <2> DEFINE s == at[1].stream
  <2>1. /\ bridge = "dispatch" /\ bridge' = "recv" /\ UNCHANGED read
        /\ routed' = [routed EXCEPT ![s] = at[1].n]
    BY <1>4 DEF Dispatch, streams
  <2>2. s \in Stream /\ at[1].n = routed[s] + 1 /\ routed[s] < read[s]
    BY <1>4, NextInOrder
  <2>3. Flow!Give(s)
    BY <2>1, <2>2 DEF Flow!Give
  <2> QED
    BY <2>2, <2>3 DEF Flow!Next
<1>5. ASSUME NEW t \in Task, Run(t) PROVE [Flow!Next]_(Flow!flow)
  <2>1. ASSUME NEW s \in Mine(t), Receive(t, s) PROVE Flow!Next
    <3>1. s \in Stream
      BY Ownership
    <3>2. read' = [read EXCEPT ![s] = read[s] + 1] /\ UNCHANGED <<routed, bridge>>
      BY <2>1 DEF Receive
    <3>3. Flow!Take(s)
      BY <3>2 DEF Flow!Take
    <3> QED
      BY <3>1, <3>3 DEF Flow!Next
  <2>2. CASE Subscribe(t) \/ SubscribeFails(t) \/ StreamError(t) \/ Send(t)
             \/ \E s \in Mine(t) : StreamOver(t, s)
    <3>1. UNCHANGED <<read, routed, bridge>>
      BY <2>2 DEF Subscribe, SubscribeFails, StreamError, Send, StreamOver, streams
    <3> QED
      BY <3>1
  <2> QED
    BY <1>5, <2>1, <2>2 DEF Run, Loop
<1> QED
  BY <1>1, <1>2, <1>3, <1>4, <1>5 DEF Next, Stopping, Bridge

(***************************************************************************)
(* Tasks, queue and dispatcher implement one pipe per stream, for any      *)
(* number of tasks and streams and any capacity of the queue.              *)
(***************************************************************************)
THEOREM Refinement == Spec => ImplementsFlow
<1>1. Init => Flow!Init
  BY DEF Init, Flow!Init
<1>2. BridgeInv /\ [Next]_vars => [Flow!Next]_(Flow!flow)
  BY FlowStep
<1> QED
  BY Invariance, <1>1, <1>2, PTL DEF Spec, ImplementsFlow, Flow!Spec
=============================================================================
