---------------------------- MODULE StreamLimits ----------------------------
(***************************************************************************)
(* The active-stream budget of src/grpc/stream_limits.rs: one global       *)
(* semaphore, one semaphore per client certificate kept in a mutex-guarded *)
(* map, an RAII permit that gives both back, and the periodic task that    *)
(* forgets the semaphores of idle clients.                                 *)
(*                                                                         *)
(* Handlers run on several runtime threads, so acquire and the drop of a   *)
(* permit are split at every access to shared state.  A per-client         *)
(* semaphore is an object with an identity: the map refers to it and so    *)
(* does every Arc clone, and what the code has to get right is that the    *)
(* map never forgets a semaphore somebody still uses.                      *)
(***************************************************************************)
EXTENDS Naturals, FiniteSets

CONSTANTS
    Stream,         \* streaming requests; one may come back after it ended
    Client,         \* client certificate fingerprints
    Owner,          \* Owner[s]: the certificate request s comes from
    Sem,            \* identities of the per-client semaphores
    NoSem,          \* "no entry" in the map, "no clone" in a request
    MaxGlobal,      \* max_global
    MaxPerClient    \* max_per_client

ASSUME StreamLimitsAssumption ==
    /\ IsFiniteSet(Stream)
    /\ Owner \in [Stream -> Client]
    /\ NoSem \notin Sem
    /\ MaxGlobal \in Nat
    /\ MaxPerClient \in Nat

VARIABLES
    perClient,  \* the map: client -> its semaphore, NoSem when not tracked
    avail,      \* available permits of each per-client semaphore
    global,     \* available permits of the global semaphore
    sem,        \* the Arc clone each request holds
    pc,         \* where each request stands
    visiting    \* clients cleanup_idle has still to visit; it holds the map
                \* lock while this is not empty

vars == <<perClient, avail, global, sem, pc, visiting>>

-----------------------------------------------------------------------------
\* A request that waits for nothing, or whose attempt or stream is over.
Idle == "idle"
\* Inside acquire: clone taken; global slot taken too; and the two ways out
\* of a refused attempt (the clone goes first, then the global slot if held).
Cloned == "cloned"
GotGlobal == "got_global"
NoGlobal == "no_global"
NoClient == "no_client"
UnwindGlobal == "unwind_global"
\* The permit exists; then its drop: global slot, client slot, Arc.
Holding == "holding"
DropClient == "drop_client"
DropArc == "drop_arc"

PC == {Idle, Cloned, GotGlobal, NoGlobal, NoClient, UnwindGlobal,
       Holding, DropClient, DropArc}

\* Control points at which a request keeps an Arc, a global slot, a client
\* slot.
HasArc == PC \ {Idle, UnwindGlobal}
HasGlobal == {GotGlobal, NoClient, UnwindGlobal, Holding}
HasClient == {Holding, DropClient}

GlobalHolders == {s \in Stream : pc[s] \in HasGlobal}
ClientHolders(c) == {s \in Stream : Owner[s] = c /\ pc[s] \in HasClient}

Tracked == {c \in Client : perClient[c] # NoSem}
MapUnlocked == visiting = {}

Goto(s, label) == pc' = [pc EXCEPT ![s] = label]

\* Semaphores nothing refers to: what Arc::new may hand out.
Unreferenced ==
    {x \in Sem : /\ \A c \in Client : perClient[c] # x
                 /\ \A s \in Stream : sem[s] # x}

\* Mutant of IsIdle: the reference count is not looked at.
IsIdle_IgnoresClones(x) == avail[x] = MaxPerClient

\* The map is the only owner (strong_count 1) and every permit is back.
IsIdle(x) ==
    /\ \A s \in Stream : sem[s] # x
    /\ avail[x] = MaxPerClient

\* What active_streams and active_streams_for report.
ActiveStreams == MaxGlobal - global
ActiveStreamsFor(c) ==
    IF perClient[c] = NoSem THEN 0 ELSE MaxPerClient - avail[perClient[c]]

-----------------------------------------------------------------------------
Init ==
    /\ perClient = [c \in Client |-> NoSem]
    /\ avail = [x \in Sem |-> MaxPerClient]
    /\ global = MaxGlobal
    /\ sem = [s \in Stream |-> NoSem]
    /\ pc = [s \in Stream |-> Idle]
    /\ visiting = {}

\* acquire, the map lookup: under the lock, the entry is created if it is
\* missing and its Arc is cloned.
Lookup(s) ==
    /\ pc[s] = Idle
    /\ MapUnlocked
    /\ \/ /\ perClient[Owner[s]] # NoSem
          /\ sem' = [sem EXCEPT ![s] = perClient[Owner[s]]]
          /\ UNCHANGED <<perClient, avail>>
       \/ /\ perClient[Owner[s]] = NoSem
          /\ \E x \in Unreferenced :
               /\ perClient' = [perClient EXCEPT ![Owner[s]] = x]
               /\ avail' = [avail EXCEPT ![x] = MaxPerClient]
               /\ sem' = [sem EXCEPT ![s] = x]
    /\ Goto(s, Cloned)
    /\ UNCHANGED <<global, visiting>>

\* acquire, the global try_acquire_owned.
TryGlobal(s) ==
    /\ pc[s] = Cloned
    /\ \/ /\ global > 0
          /\ global' = global - 1
          /\ Goto(s, GotGlobal)
       \/ /\ global = 0
          /\ Goto(s, NoGlobal)
          /\ UNCHANGED global
    /\ UNCHANGED <<perClient, avail, sem, visiting>>

\* acquire, the per-client try_acquire_owned, on the semaphore cloned before.
TryClient(s) ==
    /\ pc[s] = GotGlobal
    /\ \/ /\ avail[sem[s]] > 0
          /\ avail' = [avail EXCEPT ![sem[s]] = @ - 1]
          /\ Goto(s, Holding)
       \/ /\ avail[sem[s]] = 0
          /\ Goto(s, NoClient)
          /\ UNCHANGED avail
    /\ UNCHANGED <<perClient, global, sem, visiting>>

\* Mutant of RejectDropArc: the global slot of an attempt refused for its
\* client is kept.
RejectDropArc_LeaksGlobal(s) ==
    /\ pc[s] \in {NoGlobal, NoClient}
    /\ Goto(s, Idle)
    /\ sem' = [sem EXCEPT ![s] = NoSem]
    /\ UNCHANGED <<perClient, avail, global, visiting>>

\* A refused attempt drops its clone, then the global slot it may hold.
RejectDropArc(s) ==
    /\ \/ pc[s] = NoGlobal /\ Goto(s, Idle)
       \/ pc[s] = NoClient /\ Goto(s, UnwindGlobal)
    /\ sem' = [sem EXCEPT ![s] = NoSem]
    /\ UNCHANGED <<perClient, avail, global, visiting>>

RejectDropGlobal(s) ==
    /\ pc[s] = UnwindGlobal
    /\ global' = global + 1
    /\ Goto(s, Idle)
    /\ UNCHANGED <<perClient, avail, sem, visiting>>

\* The drop of a StreamPermit, fields in declaration order: the global slot,
\* then the client slot (the permit goes back before its Arc is dropped).
ReleaseGlobal(s) ==
    /\ pc[s] = Holding
    /\ global' = global + 1
    /\ Goto(s, DropClient)
    /\ UNCHANGED <<perClient, avail, sem, visiting>>

ReleaseClient(s) ==
    /\ pc[s] = DropClient
    /\ avail' = [avail EXCEPT ![sem[s]] = @ + 1]
    /\ Goto(s, DropArc)
    /\ UNCHANGED <<perClient, global, sem, visiting>>

\* Mutant of ReleaseArc: the ended stream's Arc is never dropped.
ReleaseArc_Leaks(s) ==
    /\ pc[s] = DropArc
    /\ Goto(s, Idle)
    /\ UNCHANGED <<perClient, avail, global, sem, visiting>>

ReleaseArc(s) ==
    /\ pc[s] = DropArc
    /\ sem' = [sem EXCEPT ![s] = NoSem]
    /\ Goto(s, Idle)
    /\ UNCHANGED <<perClient, avail, global, visiting>>

\* cleanup_idle takes the map lock and walks the entries.  Permits and clones
\* are given back during the walk; no clone is taken, so an entry found idle
\* stays idle until the lock is released.
CleanupStart ==
    /\ MapUnlocked
    /\ visiting' = Tracked
    /\ UNCHANGED <<perClient, avail, global, sem, pc>>

CleanupVisit(c) ==
    /\ c \in visiting
    /\ perClient' =
         IF IsIdle(perClient[c]) THEN [perClient EXCEPT ![c] = NoSem]
                                 ELSE perClient
    /\ visiting' = visiting \ {c}
    /\ UNCHANGED <<avail, global, sem, pc>>

Acquire(s) ==
    Lookup(s) \/ TryGlobal(s) \/ TryClient(s)
              \/ RejectDropArc(s) \/ RejectDropGlobal(s)
Release(s) == ReleaseGlobal(s) \/ ReleaseClient(s) \/ ReleaseArc(s)
Cleanup == CleanupStart \/ \E c \in Client : CleanupVisit(c)

Next == (\E s \in Stream : Acquire(s) \/ Release(s)) \/ Cleanup

Spec == Init /\ [][Next]_vars

\* A thread inside acquire, inside a drop or inside cleanup_idle keeps
\* running, and the cleanup task ticks forever.  Nothing makes a client send
\* a request (Lookup) or end its stream (ReleaseGlobal).
StepsOf(s) == TryGlobal(s) \/ TryClient(s) \/ RejectDropArc(s)
              \/ RejectDropGlobal(s) \/ ReleaseClient(s) \/ ReleaseArc(s)
Fairness ==
    /\ \A s \in Stream : WF_vars(StepsOf(s))
    /\ WF_vars(CleanupStart)
    /\ \A c \in Client : WF_vars(CleanupVisit(c))

FairSpec == Spec /\ Fairness

-----------------------------------------------------------------------------
(***************************************************************************)
(* Types: no semaphore, global or per client, ever has fewer than zero or  *)
(* more permits than it was made with, and cleanup_idle only visits        *)
(* entries that exist.                                                     *)
(***************************************************************************)
TypeOK ==
    /\ perClient \in [Client -> Sem \cup {NoSem}]
    /\ avail \in [Sem -> 0..MaxPerClient]
    /\ global \in 0..MaxGlobal
    /\ sem \in [Stream -> Sem \cup {NoSem}]
    /\ pc \in [Stream -> PC]
    /\ visiting \subseteq Tracked

(***************************************************************************)
(* No client ever holds more stream slots than max_per_client, whichever   *)
(* semaphores its streams took them from.  Two semaphores for one client   *)
(* would double its budget.                                                *)
(***************************************************************************)
PerClientBound ==
    \A c \in Client : Cardinality(ClientHolders(c)) <= MaxPerClient

(***************************************************************************)
(* Every global slot is either available or held by exactly one attempt or *)
(* stream: a refused attempt and a dropped permit both give theirs back    *)
(* once, so active_streams never drifts and never underflows.              *)
(***************************************************************************)
GlobalAccounting == ActiveStreams = Cardinality(GlobalHolders)

(***************************************************************************)
(* active_streams_for is exact: it counts the slots the client holds, even *)
(* though it reads the semaphore the map names and the streams hold clones *)
(* taken earlier.                                                          *)
(***************************************************************************)
ClientAccounting ==
    \A c \in Client : ActiveStreamsFor(c) = Cardinality(ClientHolders(c))

(***************************************************************************)
(* The comment on cleanup_idle: two semaphores for the same client never   *)
(* coexist.  Every clone in use is the semaphore the map names.            *)
(***************************************************************************)
OneSemaphorePerClient ==
    \A s \in Stream : sem[s] # NoSem => sem[s] = perClient[Owner[s]]

(***************************************************************************)
(* cleanup_idle bounds the map: once a client stops coming back its entry  *)
(* is eventually removed, whatever the other clients do meanwhile.         *)
(***************************************************************************)
IdleClientsForgotten ==
    \A c \in Client :
        (<>[](\A s \in Stream : Owner[s] = c => pc[s] = Idle))
            => <>[](perClient[c] = NoSem)

-----------------------------------------------------------------------------
\* The inductive invariant behind the properties above.  A request has a clone
\* exactly between its lookup and the drop of the clone, the clone is the one
\* the map names, and no two clients share a semaphore.
ArcsAreCurrent ==
    \A s \in Stream :
        IF pc[s] \in HasArc THEN sem[s] \in Sem /\ sem[s] = perClient[Owner[s]]
                            ELSE sem[s] = NoSem

DistinctSemaphores ==
    \A c, d \in Tracked : perClient[c] = perClient[d] => c = d

(***************************************************************************)
(* The strengthening that makes PerClientBound and the accounting of       *)
(* acquire, StreamPermit and cleanup_idle inductive.                       *)
(***************************************************************************)
IInv ==
    /\ TypeOK
    /\ ArcsAreCurrent
    /\ DistinctSemaphores
    /\ GlobalAccounting
    /\ ClientAccounting

-----------------------------------------------------------------------------
\* Refinement: the open streams are the ones whose permit is complete.
Budget == INSTANCE StreamBudget
            WITH active <- {s \in Stream : pc[s] = Holding}

(***************************************************************************)
(* The semaphores, the map and the cleanup together implement the budget:  *)
(* a stream opens only while both budgets have a slot left.                *)
(***************************************************************************)
ImplementsBudget == Budget!Spec
=============================================================================
