------------------------- MODULE StreamLimitsProofs -------------------------
(***************************************************************************)
(* Proofs about StreamLimits for any finite set of requests and any        *)
(* limits.  The counting argument is in GotoCounts: moving one request     *)
(* from one control point to another changes the number of slot holders by *)
(* what the two points say.                                                *)
(***************************************************************************)
EXTENDS StreamLimits, FiniteSetTheorems, TLAPS

USE DEF Idle, Cloned, GotGlobal, NoGlobal, NoClient, UnwindGlobal,
        Holding, DropClient, DropArc

\* Slots a request holds, by the control point it stands at.
GlobalSlots(l) == IF l \in HasGlobal THEN 1 ELSE 0
ClientSlots(l) == IF l \in HasClient THEN 1 ELSE 0

(***************************************************************************)
(* The holders of slots are finite sets, so they can be counted; a holder  *)
(* makes the count positive.                                               *)
(***************************************************************************)
LEMMA HoldersCount ==
    ASSUME NEW c \in Client
    PROVE  /\ IsFiniteSet(GlobalHolders)
           /\ Cardinality(GlobalHolders) \in Nat
           /\ \A s \in GlobalHolders : Cardinality(GlobalHolders) > 0
           /\ IsFiniteSet(ClientHolders(c))
           /\ Cardinality(ClientHolders(c)) \in Nat
           /\ \A s \in ClientHolders(c) : Cardinality(ClientHolders(c)) > 0
<1>1. GlobalHolders \in SUBSET Stream /\ ClientHolders(c) \in SUBSET Stream
  BY DEF GlobalHolders, ClientHolders
<1>2. IsFiniteSet(GlobalHolders) /\ IsFiniteSet(ClientHolders(c))
  BY <1>1, FS_Subset, StreamLimitsAssumption
<1>3. Cardinality(GlobalHolders) \in Nat /\ Cardinality(ClientHolders(c)) \in Nat
  BY <1>2, FS_CardinalityType
<1>4. /\ GlobalHolders # {} => Cardinality(GlobalHolders) # 0
      /\ ClientHolders(c) # {} => Cardinality(ClientHolders(c)) # 0
  BY <1>2, FS_EmptySet
<1> QED
  BY <1>2, <1>3, <1>4

(***************************************************************************)
(* The counts are numbers in the next state too.                           *)
(***************************************************************************)
LEMMA HoldersCountNext ==
    ASSUME NEW c \in Client
    PROVE  /\ Cardinality(GlobalHolders') \in Nat
           /\ Cardinality(ClientHolders(c)') \in Nat
<1>1. GlobalHolders' \in SUBSET Stream /\ ClientHolders(c)' \in SUBSET Stream
  BY DEF GlobalHolders, ClientHolders
<1> QED
  BY <1>1, FS_Subset, FS_CardinalityType, StreamLimitsAssumption

(***************************************************************************)
(* How a move of request s changes the two counts.                         *)
(***************************************************************************)
LEMMA GotoCounts ==
    ASSUME TypeOK, NEW s \in Stream, NEW l \in PC, Goto(s, l), NEW c \in Client
    PROVE  /\ pc' \in [Stream -> PC]
           /\ Cardinality(GlobalHolders') + GlobalSlots(pc[s])
                = Cardinality(GlobalHolders) + GlobalSlots(l)
           /\ Owner[s] = c =>
                Cardinality(ClientHolders(c)') + ClientSlots(pc[s])
                  = Cardinality(ClientHolders(c)) + ClientSlots(l)
           /\ Owner[s] # c => ClientHolders(c)' = ClientHolders(c)
<1>1. pc' \in [Stream -> PC] /\ pc'[s] = l /\ \A r \in Stream \ {s} : pc'[r] = pc[r]
  BY DEF TypeOK, Goto
<1>2. /\ l \in HasGlobal => GlobalHolders' = GlobalHolders \cup {s}
      /\ l \notin HasGlobal => GlobalHolders' = GlobalHolders \ {s}
      /\ s \in GlobalHolders <=> pc[s] \in HasGlobal
  BY <1>1 DEF GlobalHolders
<1>3. /\ Owner[s] = c /\ l \in HasClient =>
             ClientHolders(c)' = ClientHolders(c) \cup {s}
      /\ Owner[s] = c /\ l \notin HasClient =>
             ClientHolders(c)' = ClientHolders(c) \ {s}
      /\ Owner[s] = c => (s \in ClientHolders(c) <=> pc[s] \in HasClient)
      /\ Owner[s] # c => ClientHolders(c)' = ClientHolders(c)
  BY <1>1 DEF ClientHolders
<1>4. /\ Cardinality(GlobalHolders \cup {s}) =
           IF s \in GlobalHolders THEN Cardinality(GlobalHolders)
                                  ELSE Cardinality(GlobalHolders) + 1
      /\ Cardinality(GlobalHolders \ {s}) =
           IF s \in GlobalHolders THEN Cardinality(GlobalHolders) - 1
                                  ELSE Cardinality(GlobalHolders)
      /\ Cardinality(ClientHolders(c) \cup {s}) =
           IF s \in ClientHolders(c) THEN Cardinality(ClientHolders(c))
                                     ELSE Cardinality(ClientHolders(c)) + 1
      /\ Cardinality(ClientHolders(c) \ {s}) =
           IF s \in ClientHolders(c) THEN Cardinality(ClientHolders(c)) - 1
                                     ELSE Cardinality(ClientHolders(c))
  BY HoldersCount, FS_AddElement, FS_RemoveElement
<1>5. /\ l \in HasGlobal =>
             Cardinality(GlobalHolders') = Cardinality(GlobalHolders \cup {s})
      /\ l \notin HasGlobal =>
             Cardinality(GlobalHolders') = Cardinality(GlobalHolders \ {s})
  BY <1>2, Zenon
<1>6. /\ Owner[s] = c /\ l \in HasClient =>
             Cardinality(ClientHolders(c)') = Cardinality(ClientHolders(c) \cup {s})
      /\ Owner[s] = c /\ l \notin HasClient =>
             Cardinality(ClientHolders(c)') = Cardinality(ClientHolders(c) \ {s})
  BY <1>3, Zenon
<1>7. Cardinality(GlobalHolders) \in Nat /\ Cardinality(ClientHolders(c)) \in Nat
  BY HoldersCount
<1>8. Cardinality(GlobalHolders') + GlobalSlots(pc[s])
        = Cardinality(GlobalHolders) + GlobalSlots(l)
  BY <1>2, <1>4, <1>5, <1>7 DEF GlobalSlots
<1>9. Owner[s] = c =>
        Cardinality(ClientHolders(c)') + ClientSlots(pc[s])
          = Cardinality(ClientHolders(c)) + ClientSlots(l)
  BY <1>3, <1>4, <1>6, <1>7 DEF ClientSlots
<1> QED
  BY <1>1, <1>3, <1>8, <1>9

(***************************************************************************)
(* A move that keeps both kinds of slots, and leaves the semaphores alone, *)
(* keeps both accounts.                                                    *)
(***************************************************************************)
LEMMA SlotNeutralMove ==
    ASSUME IInv, NEW s \in Stream, NEW l \in PC, Goto(s, l),
           GlobalSlots(l) = GlobalSlots(pc[s]),
           ClientSlots(l) = ClientSlots(pc[s])
    PROVE  /\ pc' \in [Stream -> PC]
           /\ Cardinality(GlobalHolders') = Cardinality(GlobalHolders)
           /\ \A c \in Client :
                Cardinality(ClientHolders(c)') = Cardinality(ClientHolders(c))
<1>1. TypeOK /\ Owner[s] \in Client
  BY StreamLimitsAssumption DEF IInv
<1>2. ASSUME NEW c \in Client
      PROVE  /\ pc' \in [Stream -> PC]
             /\ Cardinality(GlobalHolders') = Cardinality(GlobalHolders)
             /\ Cardinality(ClientHolders(c)') = Cardinality(ClientHolders(c))
  <2>1. /\ pc' \in [Stream -> PC]
        /\ Cardinality(GlobalHolders') + GlobalSlots(pc[s])
             = Cardinality(GlobalHolders) + GlobalSlots(l)
        /\ Owner[s] = c =>
             Cardinality(ClientHolders(c)') + ClientSlots(pc[s])
               = Cardinality(ClientHolders(c)) + ClientSlots(l)
        /\ Owner[s] # c => ClientHolders(c)' = ClientHolders(c)
    BY <1>1, GotoCounts
  <2>2. /\ Cardinality(GlobalHolders) \in Nat /\ Cardinality(GlobalHolders') \in Nat
        /\ Cardinality(ClientHolders(c)) \in Nat
        /\ Cardinality(ClientHolders(c)') \in Nat
    BY HoldersCount, HoldersCountNext
  <2>3. GlobalSlots(l) \in Nat /\ ClientSlots(l) \in Nat
    BY DEF GlobalSlots, ClientSlots
  <2>4. Cardinality(GlobalHolders') = Cardinality(GlobalHolders)
    BY <2>1, <2>2, <2>3
  <2>5. CASE Owner[s] = c
    BY <2>1, <2>2, <2>3, <2>4, <2>5
  <2>6. CASE Owner[s] # c
    BY <2>1, <2>4, <2>6, Zenon
  <2> QED
    BY <2>5, <2>6
<1> QED
  BY <1>1, <1>2

(****************************************************************************)
(* The map lookup of acquire keeps the invariant: a client found in the    *)
(* map is cloned, a new client gets a semaphore nobody else refers to.     *)
(****************************************************************************)
LEMMA LookupPreserves ==
    ASSUME IInv, NEW s \in Stream, Lookup(s)
    PROVE  IInv'
<1> DEFINE o == Owner[s]
<1>1. o \in Client /\ Cloned \in PC /\ Goto(s, Cloned) /\ pc[s] = Idle
  BY StreamLimitsAssumption DEF Lookup, PC
<1>2. /\ GlobalSlots(Cloned) = GlobalSlots(pc[s])
      /\ ClientSlots(Cloned) = ClientSlots(pc[s])
  BY <1>1 DEF GlobalSlots, ClientSlots, HasGlobal, HasClient
<1>3. /\ pc' \in [Stream -> PC]
      /\ Cardinality(GlobalHolders') = Cardinality(GlobalHolders)
      /\ \A c \in Client :
           Cardinality(ClientHolders(c)') = Cardinality(ClientHolders(c))
  BY <1>1, <1>2, SlotNeutralMove
<1>4. GlobalAccounting'
  BY <1>3 DEF IInv, GlobalAccounting, ActiveStreams, Lookup
<1>5. CASE perClient[o] # NoSem
  <2>1. /\ sem' = [sem EXCEPT ![s] = perClient[o]]
        /\ UNCHANGED <<perClient, avail, global, visiting>>
    BY <1>5 DEF Lookup
  <2>2. TypeOK'
    BY <1>1, <1>3, <2>1 DEF IInv, TypeOK, Tracked
  <2>3. ArcsAreCurrent'
    BY <1>1, <1>3, <1>5, <2>1
    DEF IInv, TypeOK, ArcsAreCurrent, HasArc, PC, Goto
  <2>4. DistinctSemaphores'
    BY <2>1 DEF IInv, DistinctSemaphores, Tracked
  <2>5. ClientAccounting'
    BY <1>3, <2>1 DEF IInv, ClientAccounting, ActiveStreamsFor
  <2> QED
    BY <1>4, <2>2, <2>3, <2>4, <2>5 DEF IInv
<1>6. CASE perClient[o] = NoSem
  <2>1. PICK x \in Unreferenced :
          /\ perClient' = [perClient EXCEPT ![o] = x]
          /\ avail' = [avail EXCEPT ![x] = MaxPerClient]
          /\ sem' = [sem EXCEPT ![s] = x]
    BY <1>6 DEF Lookup
  <2>2. /\ x \in Sem /\ x # NoSem
        /\ \A c \in Client : perClient[c] # x
        /\ \A r \in Stream : sem[r] # x
    BY StreamLimitsAssumption DEF Unreferenced
  <2>3. visiting' = {} /\ global' = global
    BY DEF Lookup, MapUnlocked
  <2>4. TypeOK'
    BY <1>1, <1>3, <2>1, <2>2, <2>3, StreamLimitsAssumption DEF IInv, TypeOK
  <2>5. ArcsAreCurrent'
    BY <1>1, <1>6, <2>1, <2>2, StreamLimitsAssumption
    DEF IInv, TypeOK, ArcsAreCurrent, HasArc, PC, Goto
  <2>6. DistinctSemaphores'
    BY <1>1, <2>1, <2>2 DEF IInv, TypeOK, DistinctSemaphores, Tracked
  <2>7. ASSUME NEW c \in Client
        PROVE  ActiveStreamsFor(c)' = Cardinality(ClientHolders(c)')
    <3>1. ActiveStreamsFor(c) = Cardinality(ClientHolders(c))
      BY DEF IInv, ClientAccounting
    <3>2. Cardinality(ClientHolders(c)') = Cardinality(ClientHolders(c))
      BY <1>3
    <3>3. CASE c = o
      BY <1>1, <1>6, <2>1, <2>2, <3>1, <3>2, <3>3, StreamLimitsAssumption
      DEF IInv, TypeOK, ActiveStreamsFor
    <3>4. CASE c # o
      BY <1>1, <2>1, <2>2, <3>1, <3>2, <3>4 DEF IInv, TypeOK, ActiveStreamsFor
    <3> QED
      BY <3>3, <3>4
  <2>8. ClientAccounting'
    BY <2>7 DEF ClientAccounting
  <2> QED
    BY <1>4, <2>4, <2>5, <2>6, <2>8 DEF IInv
<1> QED
  BY <1>5, <1>6

(****************************************************************************)
(* A refused attempt that drops its clone keeps the invariant.             *)
(****************************************************************************)
LEMMA RejectDropArcPreserves ==
    ASSUME IInv, NEW s \in Stream, RejectDropArc(s)
    PROVE  IInv'
<1>1. PICK l \in {Idle, UnwindGlobal} :
        /\ Goto(s, l)
        /\ pc[s] = IF l = Idle THEN NoGlobal ELSE NoClient
  BY DEF RejectDropArc
<1>2. /\ l \in PC
      /\ GlobalSlots(l) = GlobalSlots(pc[s])
      /\ ClientSlots(l) = ClientSlots(pc[s])
  BY <1>1 DEF GlobalSlots, ClientSlots, HasGlobal, HasClient, PC
<1>3. /\ pc' \in [Stream -> PC]
      /\ Cardinality(GlobalHolders') = Cardinality(GlobalHolders)
      /\ \A c \in Client :
           Cardinality(ClientHolders(c)') = Cardinality(ClientHolders(c))
  BY <1>1, <1>2, SlotNeutralMove
<1>4. /\ sem' = [sem EXCEPT ![s] = NoSem]
      /\ UNCHANGED <<perClient, avail, global, visiting>>
  BY DEF RejectDropArc
<1>5. TypeOK'
  BY <1>3, <1>4 DEF IInv, TypeOK, Tracked
<1>6. ArcsAreCurrent'
  BY <1>1, <1>4 DEF IInv, TypeOK, ArcsAreCurrent, HasArc, PC, Goto
<1>7. DistinctSemaphores'
  BY <1>4 DEF IInv, DistinctSemaphores, Tracked
<1>8. GlobalAccounting' /\ ClientAccounting'
  BY <1>3, <1>4
  DEF IInv, GlobalAccounting, ActiveStreams, ClientAccounting, ActiveStreamsFor
<1> QED
  BY <1>5, <1>6, <1>7, <1>8 DEF IInv

(****************************************************************************)
(* The last step of a permit's drop keeps the invariant.                   *)
(****************************************************************************)
LEMMA ReleaseArcPreserves ==
    ASSUME IInv, NEW s \in Stream, ReleaseArc(s)
    PROVE  IInv'
<1>1. Idle \in PC /\ Goto(s, Idle) /\ pc[s] = DropArc
  BY DEF ReleaseArc, PC
<1>2. /\ GlobalSlots(Idle) = GlobalSlots(pc[s])
      /\ ClientSlots(Idle) = ClientSlots(pc[s])
  BY <1>1 DEF GlobalSlots, ClientSlots, HasGlobal, HasClient
<1>3. /\ pc' \in [Stream -> PC]
      /\ Cardinality(GlobalHolders') = Cardinality(GlobalHolders)
      /\ \A c \in Client :
           Cardinality(ClientHolders(c)') = Cardinality(ClientHolders(c))
  BY <1>1, <1>2, SlotNeutralMove
<1>4. /\ sem' = [sem EXCEPT ![s] = NoSem]
      /\ UNCHANGED <<perClient, avail, global, visiting>>
  BY DEF ReleaseArc
<1>5. TypeOK'
  BY <1>3, <1>4 DEF IInv, TypeOK, Tracked
<1>6. ArcsAreCurrent'
  BY <1>1, <1>4 DEF IInv, TypeOK, ArcsAreCurrent, HasArc, PC, Goto
<1>7. DistinctSemaphores'
  BY <1>4 DEF IInv, DistinctSemaphores, Tracked
<1>8. GlobalAccounting' /\ ClientAccounting'
  BY <1>3, <1>4
  DEF IInv, GlobalAccounting, ActiveStreams, ClientAccounting, ActiveStreamsFor
<1> QED
  BY <1>5, <1>6, <1>7, <1>8 DEF IInv

(***************************************************************************)
(* The three steps that take or return a global slot keep the invariant.   *)
(***************************************************************************)
LEMMA GlobalSlotPreserves ==
    ASSUME IInv, NEW s \in Stream,
           TryGlobal(s) \/ RejectDropGlobal(s) \/ ReleaseGlobal(s)
    PROVE  IInv'
<1>1. /\ UNCHANGED <<perClient, avail, sem, visiting>>
      /\ Owner[s] \in Client
  BY StreamLimitsAssumption DEF TryGlobal, RejectDropGlobal, ReleaseGlobal
<1>2. PICK l \in PC :
        /\ Goto(s, l)
        /\ l \in HasArc <=> pc[s] \in HasArc
        /\ l \in HasClient <=> pc[s] \in HasClient
        /\ \/ /\ pc[s] \notin HasGlobal /\ l \in HasGlobal
              /\ global > 0 /\ global' = global - 1
           \/ /\ pc[s] \notin HasGlobal /\ l \notin HasGlobal
              /\ global' = global
           \/ /\ pc[s] \in HasGlobal /\ l \notin HasGlobal
              /\ global' = global + 1
  <2>1. CASE TryGlobal(s)
    BY <2>1 DEF TryGlobal, PC, HasArc, HasClient, HasGlobal
  <2>2. CASE RejectDropGlobal(s)
    BY <2>2 DEF RejectDropGlobal, PC, HasArc, HasClient, HasGlobal
  <2>3. CASE ReleaseGlobal(s)
    BY <2>3 DEF ReleaseGlobal, PC, HasArc, HasClient, HasGlobal
  <2> QED
    BY <2>1, <2>2, <2>3
<1>3. ASSUME NEW c \in Client
      PROVE  /\ pc' \in [Stream -> PC]
             /\ Cardinality(GlobalHolders') + GlobalSlots(pc[s])
                  = Cardinality(GlobalHolders) + GlobalSlots(l)
             /\ Owner[s] = c =>
                  Cardinality(ClientHolders(c)') + ClientSlots(pc[s])
                    = Cardinality(ClientHolders(c)) + ClientSlots(l)
             /\ Owner[s] # c => ClientHolders(c)' = ClientHolders(c)
  BY <1>2, GotoCounts DEF IInv
<1>4. /\ Cardinality(GlobalHolders) \in Nat
      /\ Cardinality(GlobalHolders') \in Nat
      /\ MaxGlobal \in Nat /\ global \in 0..MaxGlobal
      /\ MaxGlobal - global = Cardinality(GlobalHolders)
  BY <1>1, HoldersCount, HoldersCountNext, StreamLimitsAssumption
  DEF IInv, TypeOK, GlobalAccounting, ActiveStreams
<1>5. Cardinality(GlobalHolders') + GlobalSlots(pc[s])
        = Cardinality(GlobalHolders) + GlobalSlots(l)
  BY <1>1, <1>3
<1>6. GlobalAccounting' /\ global' \in 0..MaxGlobal
  BY <1>2, <1>4, <1>5 DEF GlobalAccounting, ActiveStreams, GlobalSlots
<1>7. TypeOK'
  BY <1>1, <1>3, <1>6 DEF IInv, TypeOK, Tracked
<1>8. ArcsAreCurrent'
  BY <1>1, <1>2 DEF IInv, TypeOK, ArcsAreCurrent, Goto
<1>9. DistinctSemaphores'
  BY <1>1 DEF IInv, DistinctSemaphores, Tracked
<1>10. ASSUME NEW c \in Client
       PROVE  ActiveStreamsFor(c)' = Cardinality(ClientHolders(c)')
  <2>1. ActiveStreamsFor(c)' = Cardinality(ClientHolders(c))
    BY <1>1 DEF IInv, ClientAccounting, ActiveStreamsFor
  <2>2. ClientSlots(l) = ClientSlots(pc[s]) /\ ClientSlots(l) \in Nat
    BY <1>2 DEF ClientSlots
  <2>3. CASE Owner[s] = c
    BY <1>3, <2>1, <2>2, <2>3, HoldersCount, HoldersCountNext
  <2>4. CASE Owner[s] # c
    BY <1>3, <2>1, <2>4, Zenon
  <2> QED
    BY <2>3, <2>4
<1> QED
  BY <1>6, <1>7, <1>8, <1>9, <1>10 DEF IInv, ClientAccounting

(***************************************************************************)
(* The two steps that take or return a client slot keep the invariant:     *)
(* they act on the semaphore the map names, and on no other client's.      *)
(***************************************************************************)
LEMMA ClientSlotPreserves ==
    ASSUME IInv, NEW s \in Stream, TryClient(s) \/ ReleaseClient(s)
    PROVE  IInv'
<1> DEFINE o == Owner[s]
           x == sem[s]
<1>1. /\ UNCHANGED <<perClient, global, sem, visiting>>
      /\ o \in Client
      /\ x \in Sem /\ x = perClient[o] /\ x # NoSem
  BY StreamLimitsAssumption
  DEF IInv, ArcsAreCurrent, HasArc, PC, TryClient, ReleaseClient
<1>2. PICK l \in PC :
        /\ Goto(s, l)
        /\ l \in HasArc <=> pc[s] \in HasArc
        /\ l \in HasGlobal <=> pc[s] \in HasGlobal
        /\ \/ /\ pc[s] \notin HasClient /\ l \in HasClient
              /\ avail[x] > 0 /\ avail' = [avail EXCEPT ![x] = avail[x] - 1]
           \/ /\ pc[s] \notin HasClient /\ l \notin HasClient
              /\ avail' = avail
           \/ /\ pc[s] \in HasClient /\ l \notin HasClient
              /\ avail' = [avail EXCEPT ![x] = avail[x] + 1]
  <2>1. CASE TryClient(s)
    BY <2>1 DEF TryClient, PC, HasArc, HasClient, HasGlobal
  <2>2. CASE ReleaseClient(s)
    BY <2>2 DEF ReleaseClient, PC, HasArc, HasClient, HasGlobal
  <2> QED
    BY <2>1, <2>2
<1>3. ASSUME NEW c \in Client
      PROVE  /\ pc' \in [Stream -> PC]
             /\ Cardinality(GlobalHolders') + GlobalSlots(pc[s])
                  = Cardinality(GlobalHolders) + GlobalSlots(l)
             /\ o = c =>
                  Cardinality(ClientHolders(c)') + ClientSlots(pc[s])
                    = Cardinality(ClientHolders(c)) + ClientSlots(l)
             /\ o # c => ClientHolders(c)' = ClientHolders(c)
  BY <1>2, GotoCounts DEF IInv
<1>4. GlobalAccounting'
  <2>1. GlobalSlots(l) = GlobalSlots(pc[s]) /\ GlobalSlots(l) \in Nat
    BY <1>2 DEF GlobalSlots
  <2>2. Cardinality(GlobalHolders') = Cardinality(GlobalHolders)
    BY <1>1, <1>3, <2>1, HoldersCount, HoldersCountNext
  <2> QED
    BY <1>1, <2>2 DEF IInv, GlobalAccounting, ActiveStreams
<1>5. /\ MaxPerClient \in Nat /\ avail[x] \in 0..MaxPerClient
      /\ MaxPerClient - avail[x] = Cardinality(ClientHolders(o))
      /\ Cardinality(ClientHolders(o)) \in Nat
      /\ Cardinality(ClientHolders(o)') \in Nat
      /\ Cardinality(ClientHolders(o)') + ClientSlots(pc[s])
            = Cardinality(ClientHolders(o)) + ClientSlots(l)
  BY <1>1, <1>3, HoldersCount, HoldersCountNext, StreamLimitsAssumption
  DEF IInv, TypeOK, ClientAccounting, ActiveStreamsFor
<1>6. /\ avail'[x] \in 0..MaxPerClient
      /\ MaxPerClient - avail'[x] = Cardinality(ClientHolders(o)')
      /\ avail' \in [Sem -> 0..MaxPerClient]
      /\ \A y \in Sem : y # x => avail'[y] = avail[y]
  <2>1. avail \in [Sem -> 0..MaxPerClient]
    BY DEF IInv, TypeOK
  <2>2. CASE pc[s] \notin HasClient /\ l \in HasClient
    BY <1>1, <1>2, <1>5, <2>1, <2>2 DEF ClientSlots
  <2>3. CASE pc[s] \notin HasClient /\ l \notin HasClient
    BY <1>1, <1>2, <1>5, <2>1, <2>3 DEF ClientSlots
  <2>4. CASE pc[s] \in HasClient /\ l \notin HasClient
    BY <1>1, <1>2, <1>5, <2>1, <2>4 DEF ClientSlots
  <2> QED
    BY <1>2, <2>2, <2>3, <2>4
<1>7. TypeOK'
  BY <1>1, <1>3, <1>6 DEF IInv, TypeOK, Tracked
<1>8. ArcsAreCurrent'
  BY <1>1, <1>2 DEF IInv, TypeOK, ArcsAreCurrent, Goto
<1>9. DistinctSemaphores'
  BY <1>1 DEF IInv, DistinctSemaphores, Tracked
<1>10. ASSUME NEW c \in Client
       PROVE  ActiveStreamsFor(c)' = Cardinality(ClientHolders(c)')
  <2>1. CASE c = o
    BY <1>1, <1>6, <2>1 DEF ActiveStreamsFor
  <2>2. CASE c # o
    <3>1. Cardinality(ClientHolders(c)') = Cardinality(ClientHolders(c))
      BY <1>3, <2>2, Zenon
    <3>2. perClient[c] # NoSem => perClient[c] \in Sem /\ perClient[c] # x
      BY <1>1, <2>2 DEF IInv, TypeOK, DistinctSemaphores, Tracked
    <3> QED
      BY <1>1, <1>6, <3>1, <3>2 DEF IInv, ClientAccounting, ActiveStreamsFor
  <2> QED
    BY <2>1, <2>2
<1> QED
  BY <1>4, <1>7, <1>8, <1>9, <1>10 DEF IInv, ClientAccounting

(***************************************************************************)
(* cleanup_idle keeps the invariant: an entry it removes has no clone left *)
(* and all its permits back, so forgetting it loses no slot.               *)
(***************************************************************************)
LEMMA CleanupPreserves ==
    ASSUME IInv, Cleanup
    PROVE  IInv'
<1>1. UNCHANGED <<avail, global, sem, pc>>
  BY DEF Cleanup, CleanupStart, CleanupVisit
<1>2. /\ GlobalHolders' = GlobalHolders
      /\ \A c \in Client : ClientHolders(c)' = ClientHolders(c)
  BY <1>1 DEF GlobalHolders, ClientHolders
<1>3. GlobalAccounting'
  BY <1>1, <1>2, Zenon DEF IInv, GlobalAccounting, ActiveStreams
<1>4. CASE CleanupStart
  BY <1>1, <1>2, <1>3, <1>4
  DEF CleanupStart, IInv, TypeOK, Tracked, ArcsAreCurrent, DistinctSemaphores,
      ClientAccounting, ActiveStreamsFor
<1>5. ASSUME NEW c \in Client, CleanupVisit(c)
      PROVE  IInv'
  <2>1. c \in Tracked /\ perClient[c] \in Sem /\ visiting' = visiting \ {c}
    BY <1>5 DEF IInv, TypeOK, Tracked, CleanupVisit
  <2>2. CASE ~IsIdle(perClient[c])
    <3>1. perClient' = perClient
      BY <1>5, <2>2 DEF CleanupVisit
    <3> QED
      BY <1>1, <1>2, <1>3, <2>1, <3>1
      DEF IInv, TypeOK, Tracked, ArcsAreCurrent, DistinctSemaphores,
          ClientAccounting, ActiveStreamsFor
  <2>3. CASE IsIdle(perClient[c])
    <3>1. perClient' = [perClient EXCEPT ![c] = NoSem]
      BY <1>5, <2>3 DEF CleanupVisit
    <3>2. TypeOK'
      BY <1>1, <2>1, <3>1 DEF IInv, TypeOK, Tracked
    <3>3. ArcsAreCurrent'
      BY <1>1, <2>1, <2>3, <3>1, StreamLimitsAssumption
      DEF IInv, TypeOK, ArcsAreCurrent, IsIdle
    <3>4. DistinctSemaphores'
      BY <3>1 DEF IInv, TypeOK, DistinctSemaphores, Tracked
    <3>5. ASSUME NEW d \in Client
          PROVE  ActiveStreamsFor(d)' = Cardinality(ClientHolders(d))
      <4>1. ActiveStreamsFor(d) = Cardinality(ClientHolders(d))
        BY DEF IInv, ClientAccounting
      <4>2. CASE d = c
        BY <1>1, <2>1, <2>3, <3>1, <4>1, <4>2, StreamLimitsAssumption
        DEF IInv, TypeOK, ActiveStreamsFor, IsIdle, Tracked
      <4>3. CASE d # c
        BY <1>1, <3>1, <4>1, <4>3 DEF IInv, TypeOK, ActiveStreamsFor
      <4> QED
        BY <4>2, <4>3
    <3>6. ClientAccounting'
      BY <1>2, <3>5, Zenon DEF ClientAccounting
    <3> QED
      BY <1>3, <3>2, <3>3, <3>4, <3>6 DEF IInv
  <2> QED
    BY <2>2, <2>3
<1> QED
  BY <1>4, <1>5 DEF Cleanup

(***************************************************************************)
(* The invariant holds before the first request.                           *)
(***************************************************************************)
LEMMA InitEstablishes == Init => IInv
<1> SUFFICES ASSUME Init PROVE IInv
  OBVIOUS
<1>1. GlobalHolders = {} /\ \A c \in Client : ClientHolders(c) = {}
  BY DEF Init, GlobalHolders, ClientHolders, HasGlobal, HasClient
<1>2. /\ Cardinality(GlobalHolders) = 0
      /\ \A c \in Client : Cardinality(ClientHolders(c)) = 0
  BY <1>1, FS_EmptySet, Zenon
<1>3. TypeOK
  BY StreamLimitsAssumption DEF Init, TypeOK, PC
<1>4. GlobalAccounting /\ ClientAccounting
  BY <1>2, StreamLimitsAssumption
  DEF Init, GlobalAccounting, ActiveStreams, ClientAccounting, ActiveStreamsFor
<1>5. ArcsAreCurrent /\ DistinctSemaphores
  BY DEF Init, ArcsAreCurrent, HasArc, DistinctSemaphores, Tracked
<1> QED
  BY <1>3, <1>4, <1>5 DEF IInv

(***************************************************************************)
(* Every step of acquire, of a permit's drop and of cleanup_idle keeps the *)
(* invariant.                                                              *)
(***************************************************************************)
LEMMA NextPreserves == IInv /\ [Next]_vars => IInv'
<1> SUFFICES ASSUME IInv, [Next]_vars PROVE IInv'
  OBVIOUS
<1>1. CASE Next
  <2>1. ASSUME NEW s \in Stream, Acquire(s)
        PROVE  IInv'
    BY <2>1, LookupPreserves, GlobalSlotPreserves, ClientSlotPreserves,
       RejectDropArcPreserves DEF Acquire
  <2>2. ASSUME NEW s \in Stream, Release(s)
        PROVE  IInv'
    BY <2>2, GlobalSlotPreserves, ClientSlotPreserves, ReleaseArcPreserves
    DEF Release
  <2> QED
    BY <1>1, <2>1, <2>2, CleanupPreserves DEF Next
<1>2. CASE UNCHANGED vars
  <2>1. UNCHANGED <<perClient, avail, global, sem, pc, visiting>>
    BY <1>2 DEF vars
  <2>2. /\ GlobalHolders' = GlobalHolders
        /\ \A c \in Client : ClientHolders(c)' = ClientHolders(c)
    BY <2>1 DEF GlobalHolders, ClientHolders
  <2>3. GlobalAccounting' /\ ClientAccounting'
    BY <2>1, <2>2, Zenon
    DEF IInv, GlobalAccounting, ActiveStreams, ClientAccounting, ActiveStreamsFor
  <2> QED
    BY <2>1, <2>3
    DEF IInv, TypeOK, Tracked, ArcsAreCurrent, DistinctSemaphores
<1> QED
  BY <1>1, <1>2

(***************************************************************************)
(* IInv is an invariant of acquire, StreamPermit's drop and cleanup_idle   *)
(* under every interleaving of their steps.                                *)
(***************************************************************************)
THEOREM Invariance == Spec => []IInv
  BY InitEstablishes, NextPreserves, PTL DEF Spec

(***************************************************************************)
(* Type correctness: in particular no semaphore of StreamLimits ever holds *)
(* more permits than it was created with.                                  *)
(***************************************************************************)
THEOREM TypeCorrect == Spec => []TypeOK
<1>1. IInv => TypeOK
  BY DEF IInv
<1> QED
  BY <1>1, Invariance, PTL

(***************************************************************************)
(* max_per_client holds for every client, whatever cleanup_idle removes    *)
(* while requests are inside acquire.                                      *)
(***************************************************************************)
THEOREM PerClientBounded == Spec => []PerClientBound
<1>1. IInv => PerClientBound
  <2> SUFFICES ASSUME IInv, NEW c \in Client
               PROVE  Cardinality(ClientHolders(c)) <= MaxPerClient
    BY DEF PerClientBound
  <2>1. ActiveStreamsFor(c) = Cardinality(ClientHolders(c))
    BY DEF IInv, ClientAccounting
  <2>2. ActiveStreamsFor(c) <= MaxPerClient
    BY StreamLimitsAssumption DEF IInv, TypeOK, ActiveStreamsFor
  <2> QED
    BY <2>1, <2>2
<1> QED
  BY <1>1, Invariance, PTL

(***************************************************************************)
(* active_streams and active_streams_for are exact in every state.         *)
(***************************************************************************)
THEOREM CountersExact == Spec => [](GlobalAccounting /\ ClientAccounting)
<1>1. IInv => GlobalAccounting /\ ClientAccounting
  BY DEF IInv
<1> QED
  BY <1>1, Invariance, PTL

(***************************************************************************)
(* The claim of the comment on cleanup_idle: two semaphores for the same   *)
(* client never coexist.                                                   *)
(***************************************************************************)
THEOREM SemaphoreUnique == Spec => []OneSemaphorePerClient
<1>1. IInv => OneSemaphorePerClient
  BY DEF IInv, ArcsAreCurrent, OneSemaphorePerClient
<1> QED
  BY <1>1, Invariance, PTL

-----------------------------------------------------------------------------
Active == {s \in Stream : pc[s] = Holding}
ActiveOf(c) == {s \in Stream : pc[s] = Holding /\ Owner[s] = c}

(***************************************************************************)
(* When the client semaphore grants the last permit of acquire, the open   *)
(* streams fill neither budget: each of them holds a global slot, and so   *)
(* does the request that is about to open.                                 *)
(***************************************************************************)
LEMMA OpenStep ==
    ASSUME IInv, NEW s \in Stream, pc[s] = GotGlobal, avail[sem[s]] > 0
    PROVE  /\ Cardinality(Active) < MaxGlobal
           /\ Cardinality(ActiveOf(Owner[s])) < MaxPerClient
<1> DEFINE o == Owner[s]
<1>1. o \in Client /\ IsFiniteSet(GlobalHolders) /\ IsFiniteSet(ClientHolders(o))
  BY HoldersCount, StreamLimitsAssumption
<1>2. /\ Active \in SUBSET (GlobalHolders \ {s}) /\ s \in GlobalHolders
      /\ ActiveOf(o) \in SUBSET ClientHolders(o)
  BY DEF Active, GlobalHolders, ClientHolders, HasGlobal, HasClient, ActiveOf
<1>3. /\ IsFiniteSet(GlobalHolders \ {s})
      /\ Cardinality(GlobalHolders \ {s}) = Cardinality(GlobalHolders) - 1
  BY <1>1, <1>2, FS_RemoveElement
<1>4. /\ IsFiniteSet(Active)
      /\ Cardinality(Active) <= Cardinality(GlobalHolders \ {s})
      /\ IsFiniteSet(ActiveOf(o))
      /\ Cardinality(ActiveOf(o)) <= Cardinality(ClientHolders(o))
  BY <1>1, <1>2, <1>3, FS_Subset
<1>5. /\ Cardinality(Active) \in Nat
      /\ Cardinality(ActiveOf(o)) \in Nat
      /\ Cardinality(GlobalHolders) \in Nat
      /\ Cardinality(ClientHolders(o)) \in Nat
  BY <1>1, <1>4, FS_CardinalityType
<1>6. Cardinality(GlobalHolders) <= MaxGlobal
  <2>1. global \in 0..MaxGlobal /\ MaxGlobal - global = Cardinality(GlobalHolders)
    BY DEF IInv, TypeOK, GlobalAccounting, ActiveStreams
  <2> QED
    BY <1>5, <2>1, StreamLimitsAssumption
<1>7. Cardinality(ClientHolders(o)) < MaxPerClient
  <2>1. sem[s] \in Sem /\ sem[s] = perClient[o] /\ perClient[o] # NoSem
    BY StreamLimitsAssumption DEF IInv, ArcsAreCurrent, HasArc, PC
  <2>2. avail[sem[s]] \in 0..MaxPerClient
    BY <2>1 DEF IInv, TypeOK
  <2>3. MaxPerClient - avail[sem[s]] = Cardinality(ClientHolders(o))
    BY <1>1, <2>1 DEF IInv, ClientAccounting, ActiveStreamsFor
  <2> QED
    BY <1>5, <2>2, <2>3, StreamLimitsAssumption
<1>8. Cardinality(GlobalHolders \ {s}) \in Nat
  BY <1>3, FS_CardinalityType
<1> QED
  BY <1>3, <1>4, <1>5, <1>6, <1>7, <1>8, StreamLimitsAssumption

(***************************************************************************)
(* acquire, StreamPermit's drop and cleanup_idle implement the budget:     *)
(* TryClient's success opens a stream, ReleaseGlobal closes it, and every  *)
(* other step is invisible.                                                *)
(***************************************************************************)
THEOREM Refinement == Spec => ImplementsBudget
<1>1. Init => Budget!Init
  BY DEF Init, Budget!Init
<1>2. IInv /\ [Next]_vars => [Budget!Next]_Active
  <2> SUFFICES ASSUME IInv, [Next]_vars
               PROVE  Budget!Next \/ Active' = Active
    OBVIOUS
  <2>1. ASSUME NEW s \in Stream, NEW l \in PC, Goto(s, l),
               pc[s] # Holding, l # Holding
        PROVE  Active' = Active
    BY <2>1 DEF Active, Goto, IInv, TypeOK
  <2>2. ASSUME NEW s \in Stream, TryClient(s)
        PROVE  Budget!Next \/ Active' = Active
    <3>1. CASE avail[sem[s]] > 0 /\ Goto(s, Holding)
      <4>1. s \notin Active /\ Active' = Active \cup {s}
        BY <2>2, <3>1 DEF Active, TryClient, Goto, IInv, TypeOK
      <4>2. /\ Cardinality(Active) < MaxGlobal
            /\ Cardinality(ActiveOf(Owner[s])) < MaxPerClient
        BY <2>2, <3>1, OpenStep DEF TryClient
      <4>3. Active \cap Budget!OwnedBy(Owner[s]) = ActiveOf(Owner[s])
        BY DEF Active, ActiveOf, Budget!OwnedBy
      <4>4. Cardinality(Active \cap Budget!OwnedBy(Owner[s])) < MaxPerClient
        BY <4>2, <4>3, Zenon
      <4>5. \A S : Budget!Cardinality(S) = Cardinality(S)
        BY Zenon DEF Cardinality, Budget!Cardinality
      <4>6. Budget!Open(s)
        BY <4>1, <4>2, <4>4, <4>5, Zenon DEF Active, Budget!Open
      <4> QED
        BY <4>6, Zenon DEF Budget!Next
    <3>2. CASE Goto(s, NoClient)
      BY <2>1, <2>2, <3>2 DEF TryClient, PC
    <3> QED
      BY <2>2, <3>1, <3>2 DEF TryClient
  <2>3. ASSUME NEW s \in Stream, ReleaseGlobal(s)
        PROVE  Budget!Next
    <3>1. s \in Active /\ Active' = Active \ {s}
      BY <2>3 DEF Active, ReleaseGlobal, Goto, IInv, TypeOK
    <3> QED
      BY <3>1, Zenon DEF Active, Budget!Next, Budget!Close
  <2>4. ASSUME NEW s \in Stream,
               Lookup(s) \/ TryGlobal(s) \/ RejectDropArc(s)
               \/ RejectDropGlobal(s) \/ ReleaseClient(s) \/ ReleaseArc(s)
        PROVE  Active' = Active
    <3>1. PICK l \in PC : Goto(s, l) /\ pc[s] # Holding /\ l # Holding
      BY <2>4 DEF Lookup, TryGlobal, RejectDropArc, RejectDropGlobal,
                  ReleaseClient, ReleaseArc, PC
    <3> QED
      BY <2>1, <3>1
  <2>5. CASE Cleanup \/ UNCHANGED vars
    BY <2>5 DEF Active, Cleanup, CleanupStart, CleanupVisit, vars
  <2> QED
    BY <2>2, <2>3, <2>4, <2>5 DEF Next, Acquire, Release
<1> QED
  BY <1>1, <1>2, Invariance, PTL DEF Spec, ImplementsBudget, Budget!Spec, Active
=============================================================================
