------------------------- MODULE CertPublishProofs -------------------------
(***************************************************************************)
(* Proofs about CertPublish for any executions, CAs, seconds and failures, *)
(* however the executions overlap.  A step belongs to one execution, and   *)
(* what the others know is kept: either it concerns other files, or it is  *)
(* no longer said of them, since a rival published meanwhile.              *)
(***************************************************************************)
EXTENDS CertPublish, SequenceTheorems, TLAPS

(***************************************************************************)
(* What renew publishes when it installs another CA.                       *)
(***************************************************************************)
LEMMA RotationPlan ==
    ASSUME NEW p, p = Append(RenewPlan, "ca")
    PROVE  Len(p) = 3 /\ p[1] = "server" /\ p[2] = "server_key" /\ p[3] = "ca"
<1>1. RenewPlan \in Seq(File) /\ "ca" \in File
  BY DEF RenewPlan, File
<1>2. /\ Len(p) = Len(RenewPlan) + 1 /\ p[Len(RenewPlan) + 1] = "ca"
      /\ \A n \in 1..Len(RenewPlan) : p[n] = RenewPlan[n]
  BY <1>1
<1> QED
  BY <1>2 DEF RenewPlan

(***************************************************************************)
(* The plans: files, each of them once.                                    *)
(***************************************************************************)
LEMMA Plans ==
    ASSUME NEW p \in Plan
    PROVE  /\ Len(p) \in Nat /\ (p # <<>> => 1 \in 1..Len(p))
           /\ \A n \in 1..Len(p) : p[n] \in File
           /\ \A m, n \in 1..Len(p) : p[m] = p[n] => m = n
<1>1. CASE p = <<>>
  BY <1>1
<1>2. CASE p = InitPlan
  BY <1>2 DEF InitPlan, File
<1>3. CASE p = RenewPlan
  BY <1>3 DEF RenewPlan, File
<1>4. CASE p = Append(RenewPlan, "ca")
  BY <1>4, RotationPlan DEF File
<1>5. CASE p = SignPlan
  BY <1>5 DEF SignPlan, File
<1> QED
  BY <1>1, <1>2, <1>3, <1>4, <1>5 DEF Plan

(***************************************************************************)
(* The last file of a plan that is in a set is in the set.                 *)
(***************************************************************************)
LEMMA LastOfIsIn ==
    ASSUME NEW r \in Run, job[r].plan \in Plan, NEW set,
           set # {}, set \subseteq Planned(r)
    PROVE  LastOf(r, set) \in set
<1> DEFINE p == job[r].plan
           ns == {n \in 1..Len(p) : p[n] \in set}
<1>1. Len(p) \in 0..5
  BY DEF Plan, InitPlan, RenewPlan, SignPlan
<1>2. ns # {} /\ ns \subseteq 1..5
  BY <1>1 DEF Planned
<1> HIDE DEF ns
<1>3. \E n \in ns : \A m \in ns : m <= n
  <2>1. CASE 5 \in ns
    BY <1>2, <2>1
  <2>2. CASE 5 \notin ns /\ 4 \in ns
    BY <1>2, <2>2
  <2>3. CASE 5 \notin ns /\ 4 \notin ns /\ 3 \in ns
    BY <1>2, <2>3
  <2>4. CASE ns \subseteq 1..2
    <3>1. CASE 2 \in ns
      BY <2>4, <3>1
    <3>2. CASE 2 \notin ns
      <4>1. \A m \in ns : m = 1
        BY <2>4, <3>2
      <4>2. PICK n \in ns : TRUE
        BY <1>2
      <4> QED
        BY <4>1, <4>2
    <3> QED
      BY <3>1, <3>2
  <2> QED
    BY <1>2, <2>1, <2>2, <2>3, <2>4
<1>4. (CHOOSE n \in ns : \A m \in ns : m <= n) \in ns
  BY <1>3
<1> QED
  BY <1>4 DEF LastOf, ns

(***************************************************************************)
(* What an installed or new file is.                                       *)
(***************************************************************************)
LEMMA ContentTypes ==
    ASSUME NEW f \in File, NEW c \in CA, NEW r \in Run
    PROVE  /\ Content(f, c, r) \in Contents
           /\ Content(f, c, r).ca = c
           /\ f \in CaFile => Content(f, c, r).by = "cln"
  BY DEF Content, Contents

\* What a step of r leaves to another execution: its place, its job and, while
\* it publishes, the files it found.
Still(q) ==
    /\ pc'[q] = pc[q] /\ job'[q] = job[q]
    /\ before'[q] \in {before[q], Nothing}
    /\ pc[q] \in Publishing => before'[q] = before[q]

\* A step of execution r, which moves only files of its plan, and those only
\* while it publishes.
StepOf(r) ==
    /\ Live(r) \/ pc[r] = "idle"
    /\ pc'[r] \in Preparing \cup Publishing \cup Ended
    /\ pc[r] \in Publishing =>
          /\ pc'[r] \in Publishing \cup Ended
          /\ before' = before
    /\ pc[r] \in Publishing /\ pc'[r] \in Publishing =>
          job'[r].cmd = job[r].cmd /\ job'[r].plan = job[r].plan /\ job'[r].ca = job[r].ca
    /\ pc[r] \notin Publishing /\ pc'[r] \in Publishing => Confirm(r)
    /\ \A q \in Run \ {r} : Still(q)
    /\ \A f \in File :
          \/ disk'[f] = disk[f] /\ bak'[f] = bak[f]
          \/ pc[r] \in Publishing /\ f \in Planned(r)

(***************************************************************************)
(* Executions that are not rivals write different files.                   *)
(***************************************************************************)
LEMMA RivalsOrApart ==
    ASSUME NEW q \in Run, NEW r \in Run \ {q}
    PROVE  \/ Rivals(q, r) /\ Written(q) = Written(r)
           \/ ~Rivals(q, r) /\ Written(q) \cap Written(r) = {}
  BY DEF Rivals, Written

(***************************************************************************)
(* Two that publish the same files at once are both observed.              *)
(***************************************************************************)
LEMMA RivalsAreMixed ==
    ASSUME PublishInv, NEW q \in Run, NEW r \in Run, Rivals(q, r),
           pc[q] \in Publishing, pc[r] \in Publishing
    PROVE  q \in mixed /\ r \in mixed
  BY DEF PublishInv, ObservedExact, Rivaled, Rivals

LEMMA RivalMakesStale ==
    ASSUME PublishInv, NEW q \in Run, NEW r \in Run, Rivals(q, r),
           pc[q] \in Publishing, pc[r] \in Deciding
    PROVE  r \in stale
  BY DEF PublishInv, ObservedExact, Rivaled

(***************************************************************************)
(* An execution that is alone has met no rival.                            *)
(***************************************************************************)
LEMMA AloneIsUnmixed ==
    ASSUME PublishInv, NEW r \in Run, Alone(r)
    PROVE  r \notin mixed
  BY DEF PublishInv, ObservedExact

(***************************************************************************)
(* What an execution knows of its own files is not affected by the step of *)
(* another, unless that is a rival, and then nothing is said of it.        *)
(***************************************************************************)
LEMMA OthersKnow ==
    ASSUME PublishInv, NEW r \in Run, StepOf(r), Observe, NEW q \in Run \ {r}
    PROVE  Knows(q)'
<1>1. /\ Still(q) /\ Knows(q) /\ job[q] \in Job
      /\ pc[q] \in {"idle"} \cup Preparing \cup Publishing \cup Ended
  BY DEF PublishInv, StepOf, TypeOK
<1>2. /\ Live(q)' <=> Live(q)
      /\ Untouched(q) => Untouched(q)'
      /\ Lists(q) => Lists(q)'
      /\ Planned(q)' = Planned(q) /\ Written(q)' = Written(q)
  BY <1>1 DEF Still, Live, Untouched, Nothing, Lists, Planned, Written
<1>3. q \in stale /\ pc[q] \in Deciding \cup Publishing => q \in stale'
  BY <1>1 DEF Still, Observe, Deciding, Preparing, Publishing, Ended
<1>4. q \in mixed => q \in mixed'
  BY DEF Observe
<1>5. pc[r] \in Publishing => Planned(r) \subseteq Written(r)
  BY DEF PublishInv, Knows, Live, Publishing, Ended
<1>6. ASSUME pc[q] \in Deciding, q \notin stale PROVE Decided(job[q], disk')
  <2>1. Decided(job[q], disk)
    BY <1>1, <1>6 DEF Knows
  <2>2. CASE job[q].cmd = "sign"
    BY <2>1, <2>2 DEF Decided
  <2>3. CASE job[q].cmd # "sign"
    <3>1. ASSUME NEW f \in CaFile PROVE disk'[f] = disk[f]
      <4>1. f \in File /\ f \in Written(q)
        BY <2>3 DEF CaFile, File, Written
      <4>2. pc[r] \in Publishing => ~Rivals(r, q)
        BY <1>6, RivalMakesStale
      <4> QED
        BY <1>5, <4>1, <4>2, RivalsOrApart DEF StepOf
    <3>2. "ca" \in CaFile
      BY DEF CaFile
    <3> QED
      BY <2>1, <3>1, <3>2 DEF Decided, Foreign
  <2> QED
    BY <2>2, <2>3
<1>7. ASSUME pc[q] \in Publishing, q \notin mixed PROVE Progress(q)'
  <2>1. /\ Progress(q) /\ Lists(q) /\ Live(q) /\ Planned(q) \subseteq Written(q)
    BY <1>1, <1>7 DEF Knows, Live, Publishing, Ended
  <2>2. ASSUME NEW f \in Written(q) PROVE disk'[f] = disk[f] /\ bak'[f] = bak[f]
    <3>1. pc[r] \in Publishing => ~Rivals(r, q)
      BY <1>7, RivalsAreMixed
    <3>2. f \in File
      BY <2>2 DEF Written, File
    <3> QED
      BY <1>5, <3>1, <3>2, RivalsOrApart DEF StepOf
  <2>3. \A f \in job[q].backups : f \in Written(q)
    BY <2>1 DEF Lists
  <2>4. before'[q] = before[q] /\ job'[q] = job[q] /\ pc'[q] = pc[q]
    BY <1>1, <1>7 DEF Still
  <2>5. Target(q)' = Target(q) /\ \A f : Moved(q, f)' = Moved(q, f)
    BY <2>4 DEF Target, Moved
  <2> QED
    BY <1>2, <2>1, <2>2, <2>3, <2>4, <2>5 DEF Progress
<1> QED
  BY <1>1, <1>2, <1>3, <1>4, <1>6, <1>7 DEF Knows, Still

(***************************************************************************)
(* The observations stay exact: nobody returns from publishing.            *)
(***************************************************************************)
LEMMA ObservedKept ==
    ASSUME PublishInv, NEW r \in Run, StepOf(r), Observe
    PROVE  ObservedExact'
<1>1. stale' \subseteq Run /\ mixed' \subseteq Run
  BY DEF PublishInv, ObservedExact, Observe
<1>2. ASSUME NEW q \in Run
      PROVE  /\ pc'[q] \in Deciding /\ Rivaled(q)' => q \in stale'
             /\ pc'[q] \in Publishing /\ Rivaled(q)' => q \in mixed'
  BY DEF Observe
<1>3. ASSUME NEW q \in Run, pc[q] \in Publishing \cup Ended
      PROVE  pc'[q] \in Publishing \cup Ended
  <2>1. CASE q = r
    BY <1>3, <2>1 DEF StepOf, Live, Ended
  <2>2. CASE q # r
    BY <1>3, <2>2 DEF StepOf, Still
  <2> QED
    BY <2>1, <2>2
<1>4. ASSUME NEW q \in mixed' PROVE pc'[q] \in Publishing \cup Ended /\ ~Alone(q)'
  <2>1. CASE q \in mixed
    <3>1. pc[q] \in Publishing \cup Ended /\ ~Alone(q) /\ q \in Run
      BY <2>1 DEF PublishInv, ObservedExact
    <3>2. PICK p \in Run \ {q} : pc[p] \notin {"idle"} \cup Preparing
      BY <3>1 DEF Alone
    <3>3. pc[p] \in Publishing \cup Ended
      BY <3>2 DEF PublishInv, TypeOK
    <3>4. pc'[p] \in Publishing \cup Ended /\ pc'[q] \in Publishing \cup Ended
      BY <1>3, <3>1, <3>3
    <3> QED
      BY <3>4 DEF Alone, Preparing, Publishing, Ended
  <2>2. CASE q \notin mixed
    <3>1. q \in Run /\ pc'[q] \in Publishing /\ Rivaled(q)'
      BY <1>4, <2>2 DEF Observe
    <3>2. PICK p \in Run : p # q /\ pc'[p] \in Publishing
      BY <3>1 DEF Rivaled, Rivals
    <3> QED
      BY <3>1, <3>2 DEF Alone, Preparing, Publishing
  <2> QED
    BY <2>1, <2>2
<1> QED
  BY <1>1, <1>2, <1>4 DEF ObservedExact

(***************************************************************************)
(* So an invariant about one execution has to be proved only of the one    *)
(* that moves.                                                             *)
(***************************************************************************)
LEMMA StepKeeps ==
    ASSUME PublishInv, NEW r \in Run, StepOf(r), Observe,
           TypeOK', Knows(r)', CoherentBefore',
           Alone(r) => Recoverable(r)'
    PROVE  PublishInv'
<1>1. \A q \in Run : Knows(q)'
  BY OthersKnow
<1>2. NothingLost'
  <2> SUFFICES ASSUME NEW q \in Run, Alone(q)'
               PROVE  Recoverable(q)'
    BY DEF NothingLost
  <2>1. \A p \in Run \ {q} : pc'[p] \in {"idle"} \cup Preparing
    BY DEF Alone
  <2>2. CASE q = r
    <3>1. Alone(r)
      BY <2>1, <2>2 DEF StepOf, Still, Alone
    <3> QED
      BY <2>2, <3>1
  <2>3. CASE q # r
    <3>1. pc[r] \notin Publishing /\ pc[r] \in {"idle"} \cup Preparing
      BY <2>1, <2>3 DEF StepOf, PublishInv, TypeOK, Live, Preparing, Publishing, Ended
    <3>2. Recoverable(q)
      <4>1. \A p \in Run \ {q, r} : pc[p] \in {"idle"} \cup Preparing
        BY <2>1 DEF StepOf, Still
      <4> QED
        BY <3>1, <4>1 DEF PublishInv, NothingLost, Alone
    <3>3. \A f \in File : disk'[f] = disk[f] /\ bak'[f] = bak[f]
      BY <3>1 DEF StepOf
    <3>4. before'[q] \in {before[q], Nothing}
      BY <2>3 DEF StepOf, Still
    <3> QED
      BY <3>2, <3>3, <3>4 DEF Recoverable, Nothing
  <2> QED
    BY <2>2, <2>3
<1> QED
  BY <1>1, <1>2, ObservedKept DEF PublishInv

(***************************************************************************)
(* What is observed is never taken back, so what is orderly was.           *)
(***************************************************************************)
LEMMA OrderlyBefore ==
    ASSUME PublishInv, NEW r \in Run, StepOf(r), Observe, Orderly'
    PROVE  Orderly
<1>1. mixed = {}
  BY DEF Orderly, Observe
<1>2. ASSUME NEW q \in stale, pc[q] \in Publishing \cup Ended PROVE FALSE
  <2>1. q \in stale' /\ q \in Run
    BY <1>2 DEF PublishInv, ObservedExact, Observe, Preparing, Publishing, Ended
  <2>2. pc'[q] \in Publishing \cup Ended
    BY <1>2, <2>1 DEF StepOf, Still, Live, Ended
  <2> QED
    BY <2>1, <2>2 DEF Orderly
<1>3. ASSUME NEW q \in Run PROVE pc[q] \notin {"crashed", "torn"}
  BY DEF Orderly, StepOf, Still, Live, Ended
<1> QED
  BY <1>1, <1>2, <1>3 DEF Orderly

LEMMA OneWriter ==
    ASSUME PublishInv, Orderly, NEW q \in Run, NEW r \in Run, Writing(q), Writing(r)
    PROVE  q = r
<1> SUFFICES ASSUME q # r PROVE FALSE
  OBVIOUS
<1>1. Rivals(q, r)
  BY DEF Writing, Rivals
<1>2. q \in mixed
  BY <1>1, RivalsAreMixed DEF Writing
<1> QED
  BY <1>2 DEF Orderly

(***************************************************************************)
(* What is installed stays coherent as long as neither init nor renew      *)
(* begins or ends to publish.                                              *)
(***************************************************************************)
LEMMA CoherentKept ==
    ASSUME PublishInv, NEW r \in Run, StepOf(r), Observe, Writing(r)' <=> Writing(r)
    PROVE  CoherentBefore'
<1> SUFFICES ASSUME Orderly'
             PROVE  /\ (\A q \in Run : ~Writing(q)') => CoherentIn(disk')
                    /\ \A q \in Run : Writing(q)' => CoherentIn(before'[q])
  BY DEF CoherentBefore, Coherent, CoherentIn
<1>1. Orderly
  BY OrderlyBefore
<1>2. /\ (\A q \in Run : ~Writing(q)) => CoherentIn(disk)
      /\ \A q \in Run : Writing(q) => CoherentIn(before[q])
  BY <1>1 DEF PublishInv, CoherentBefore, Coherent
<1>3. \A q \in Run : Writing(q)' <=> Writing(q)
  BY DEF StepOf, Still, Writing
<1>4. ASSUME NEW q \in Run, Writing(q) PROVE before'[q] = before[q]
  BY <1>4 DEF StepOf, Still, Writing
<1>5. ASSUME ~Writing(r), NEW f \in File \ {"signed"} PROVE disk'[f] = disk[f]
  <2>1. pc[r] \in Publishing => Planned(r) \subseteq {"signed"}
    BY <1>5 DEF Writing, PublishInv, Knows, Written, Live, Publishing, Ended
  <2> QED
    BY <1>5, <2>1 DEF StepOf
<1>6. {"server", "server_key", "ca", "haproxy_ca", "haproxy_concat"} \subseteq File \ {"signed"}
  BY DEF File
<1>7. ~Writing(r) => (CoherentIn(disk) => CoherentIn(disk'))
  BY <1>5, <1>6 DEF CoherentIn
<1> QED
  BY <1>2, <1>3, <1>4, <1>7

(***************************************************************************)
(* No command has started.                                                 *)
(***************************************************************************)
LEMMA InitInv == Init => PublishInv
<1> SUFFICES ASSUME Init PROVE PublishInv
  OBVIOUS
<1>1. NoJob \in Job
  BY CertPublishAssumption DEF NoJob, Job, Plan
<1>2. /\ disk \in [File -> Contents]
      /\ \A f \in CaFile : disk[f] # Absent => disk[f].by = "cln"
  <2>1. CASE disk = Nothing
    BY <2>1 DEF Nothing, Contents, File, CaFile
  <2>2. ASSUME NEW c \in CA, disk = Installed(c)
        PROVE  /\ disk \in [File -> Contents]
               /\ \A f \in CaFile : disk[f] # Absent => disk[f].by = "cln"
    BY <2>2 DEF Installed, Content, Contents, File, CaFile
  <2> QED
    BY <2>1, <2>2 DEF Init
<1>3. TypeOK
  BY <1>1, <1>2, CertPublishAssumption
  DEF Init, TypeOK, Nothing, Contents, File, CaFile, Live
<1>4. ASSUME NEW r \in Run PROVE Knows(r) /\ ~Live(r) /\ pc[r] = "idle"
  BY DEF Init, Knows, Untouched, NoJob, Live, Publishing, Preparing, Deciding
<1>5. NothingLost
  BY DEF NothingLost, Recoverable, Init, Nothing
<1>6. ObservedExact
  BY <1>4 DEF ObservedExact, Init, Deciding, Preparing, Publishing
<1>7. CoherentBefore
  <2>1. Coherent
    <3>1. CASE disk = Nothing
      BY <3>1 DEF Coherent, CoherentIn, File, Nothing
    <3>2. ASSUME NEW c \in CA, disk = Installed(c) PROVE Coherent
      BY <3>2 DEF Coherent, CoherentIn, Installed, Content, File, CaFile
    <3> QED
      BY <3>1, <3>2 DEF Init
  <2> QED
    BY <1>4, <2>1 DEF CoherentBefore, Writing, Publishing
<1> QED
  BY <1>3, <1>4, <1>5, <1>6, <1>7 DEF PublishInv

(***************************************************************************)
(* When one execution ends, the others keep their locks.                   *)
(***************************************************************************)
LEMMA LockKept ==
    ASSUME PublishInv, NEW r \in Run, NEW l, End(r, l)
    PROVE  /\ lock' \in [Dir -> Run \cup {Nobody}]
           /\ \A q \in Run \ {r} : Live(q) /\ pc[q] \notin {"pin", "lock"}
                                     => lock'[LockDir[job[q].cmd]] = q
<1>1. \A q \in Run : Live(q) => job[q].cmd \in {"init", "renew", "sign"}
  BY DEF PublishInv, Knows, TypeOK, Job
<1>2. lock' \in [Dir -> Run \cup {Nobody}]
  BY DEF PublishInv, TypeOK, End
<1>3. ASSUME NEW q \in Run \ {r}, Live(q), pc[q] \notin {"pin", "lock"}
      PROVE  lock'[LockDir[job[q].cmd]] = q
  <2>1. LockDir[job[q].cmd] \in Dir /\ lock[LockDir[job[q].cmd]] = q
    BY <1>1, <1>3 DEF LockDir, Dir, PublishInv, TypeOK
  <2> QED
    BY <2>1 DEF End
<1> QED
  BY <1>2, <1>3

(***************************************************************************)
(* What is known of an execution that publishes.                           *)
(***************************************************************************)
LEMMA PublisherKnows ==
    ASSUME PublishInv, NEW r \in Run, pc[r] \in Publishing
    PROVE  /\ Live(r)
           /\ job[r] \in Job /\ job[r].cmd # "none" /\ job[r].ca \in CA
           /\ job[r].plan # <<>>
           /\ Planned(r) \subseteq Written(r) /\ Written(r) \subseteq File
           /\ Lists(r)
           /\ lock[LockDir[job[r].cmd]] = r
           /\ r \notin stale => Decided(job[r], before[r])
           /\ r \notin mixed => Progress(r)
           /\ Alone(r) => r \notin mixed /\ Recoverable(r)
<1>1. Live(r) /\ pc[r] \notin {"pin", "lock"}
  BY DEF Live, Publishing, Ended
<1>2. Knows(r) /\ TypeOK
  BY DEF PublishInv
<1>3. /\ job[r].cmd # "none" /\ job[r].ca \in CA
      /\ job[r].plan # <<>> /\ Lists(r) /\ Planned(r) \subseteq Written(r)
      /\ r \notin stale => Decided(job[r], before[r])
      /\ r \notin mixed => Progress(r)
  BY <1>1, <1>2 DEF Knows
<1>4. job[r] \in Job /\ lock[LockDir[job[r].cmd]] = r
  BY <1>1, <1>2 DEF TypeOK
<1>5. Written(r) \subseteq File
  BY DEF Written, File
<1>6. Alone(r) => r \notin mixed /\ Recoverable(r)
  BY AloneIsUnmixed DEF PublishInv, NothingLost
<1> QED
  BY <1>1, <1>3, <1>4, <1>5, <1>6

(***************************************************************************)
(* A command that ends leaves the files as they are.                       *)
(***************************************************************************)
LEMMA EndPreserves ==
    ASSUME PublishInv, NEW r \in Run, StepOf(r), Observe, Live(r),
           NEW l \in {"failed", "torn", "crashed"}, End(r, l),
           UNCHANGED <<disk, bak, clock, before>>,
           l = "failed" /\ pc[r] \in Publishing /\ r \notin mixed =>
               \A f \in Written(r) : disk[f] = before[r][f]
    PROVE  PublishInv'
<1>1. /\ pc' \in [Run -> {"idle"} \cup Preparing \cup Publishing \cup Ended]
      /\ pc'[r] = l /\ \A q \in Run \ {r} : pc'[q] = pc[q]
      /\ job' \in [Run -> Job] /\ \A q \in Run \ {r} : job'[q] = job[q]
  <2>1. NoJob \in Job
    BY CertPublishAssumption DEF NoJob, Job, Plan
  <2> QED
    BY <2>1 DEF PublishInv, TypeOK, End, Goto, Ended
<1>2. TypeOK'
  <2>1. \A q \in Run : Live(q)' => q # r /\ Live(q)
    BY <1>1 DEF Live, Ended
  <2> QED
    BY <1>1, <2>1, LockKept DEF PublishInv, TypeOK
<1>3. Knows(r)'
  BY <1>1 DEF Knows, Live, Deciding, Preparing, Publishing, Ended
<1>4. Alone(r) => Recoverable(r)'
  BY DEF PublishInv, NothingLost, Recoverable
<1>5. CoherentBefore'
  <2>1. ~Writing(r)'
    BY <1>1 DEF Writing, Publishing
  <2>2. CASE ~Writing(r)
    BY <2>1, <2>2, CoherentKept
  <2>3. CASE Writing(r)
    <3> SUFFICES ASSUME Orderly'
                 PROVE  /\ CoherentIn(disk)
                        /\ \A q \in Run : ~Writing(q)'
      BY DEF CoherentBefore, Coherent, CoherentIn
    <3>1. Orderly
      BY OrderlyBefore
    <3>2. \A q \in Run \ {r} : ~Writing(q)
      BY <2>3, <3>1, OneWriter
    <3>3. \A q \in Run : ~Writing(q)'
      BY <1>1, <2>1, <3>2 DEF Writing
    <3>4. l = "failed"
      BY <1>1 DEF Orderly
    <3>5. pc[r] \in Publishing /\ r \notin mixed
      BY <2>3, <3>1 DEF Writing, Orderly
    <3>6. CoherentIn(before[r])
      BY <2>3, <3>1 DEF PublishInv, CoherentBefore
    <3>7. {"server", "server_key", "ca", "haproxy_ca", "haproxy_concat"} \subseteq Written(r)
      BY <2>3 DEF Writing, Written, File
    <3> QED
      BY <3>3, <3>4, <3>5, <3>6, <3>7 DEF CoherentIn
  <2> QED
    BY <2>2, <2>3
<1> QED
  BY <1>2, <1>3, <1>4, <1>5, StepKeeps

\* The files have their types.
FilesTyped ==
    /\ disk \in [File -> Contents]
    /\ bak \in [File -> [Stamp -> Contents]]
    /\ \A f \in CaFile :
          /\ disk[f] # Absent => disk[f].by = "cln"
          /\ \A t \in Stamp : bak[f][t] # Absent => bak[f][t].by = "cln"

(***************************************************************************)
(* A step of publish_files or of its rollback that does not end it.        *)
(***************************************************************************)
LEMMA PublishStep ==
    ASSUME PublishInv, NEW r \in Run, StepOf(r), Observe, pc[r] \in Publishing,
           NEW l \in Publishing, Goto(r, l),
           NEW j \in Job, job' = [job EXCEPT ![r] = j],
           j.cmd = job[r].cmd, j.ca = job[r].ca, j.plan = job[r].plan,
           j.rotate = job[r].rotate,
           UNCHANGED <<clock, lock, before>>,
           FilesTyped', Lists(r)',
           r \notin mixed => Progress(r)',
           Alone(r) => Recoverable(r)'
    PROVE  PublishInv'
<1>1. /\ pc' \in [Run -> {"idle"} \cup Preparing \cup Publishing \cup Ended]
      /\ pc'[r] = l /\ \A q \in Run \ {r} : pc'[q] = pc[q]
      /\ job' \in [Run -> Job] /\ job'[r] = j
      /\ \A q \in Run \ {r} : job'[q] = job[q]
  BY DEF PublishInv, TypeOK, Goto
<1>2. Live(r) /\ l \notin Preparing \cup Ended \cup {"idle", "pin", "lock"}
  BY DEF Live, Publishing, Preparing, Ended
<1>3. TypeOK'
  <2>1. ASSUME NEW q \in Run, Live(q)', pc'[q] \notin {"pin", "lock"}
        PROVE  lock'[LockDir[job'[q].cmd]] = q
    <3>1. Live(q) /\ pc[q] \notin {"pin", "lock"} /\ job'[q].cmd = job[q].cmd
      <4>1. CASE q = r
        BY <1>1, <1>2, <4>1, PublisherKnows DEF Publishing
      <4>2. CASE q # r
        BY <1>1, <2>1, <4>2 DEF Live
      <4> QED
        BY <4>1, <4>2
    <3> QED
      BY <3>1 DEF PublishInv, TypeOK
  <2> QED
    BY <1>1, <2>1 DEF FilesTyped, PublishInv, TypeOK
<1>4. Knows(r)'
  <2>1. r \notin stale' => Decided(j, before[r])
    <3>1. r \in stale => r \in stale'
      BY DEF Observe, Preparing, Publishing
    <3> QED
      BY <3>1, PublisherKnows DEF Decided
  <2>2. r \in mixed => r \in mixed'
    BY DEF Observe
  <2>3. pc'[r] \notin Preparing \cup {"idle", "pin"} \cup Deciding
    BY <1>1, <1>2 DEF Preparing, Deciding
  <2>4. /\ job'[r].cmd # "none" /\ job'[r].ca \in CA /\ job'[r].plan # <<>>
        /\ Planned(r)' \subseteq Written(r)'
    <3>1. Planned(r)' = Planned(r) /\ Written(r)' = Written(r)
      BY <1>1 DEF Planned, Written
    <3> QED
      BY <1>1, <3>1, PublisherKnows
  <2> QED
    BY <1>1, <2>1, <2>2, <2>3, <2>4 DEF Knows
<1>5. CoherentBefore'
  <2>1. Writing(r)' <=> Writing(r)
    BY <1>1 DEF Writing
  <2> QED
    BY <2>1, CoherentKept
<1> QED
  BY <1>3, <1>4, <1>5, StepKeeps

(***************************************************************************)
(* The file that publish_files works on is one it has not published yet,   *)
(* and before its backup one it has not moved aside.                       *)
(***************************************************************************)
LEMMA CurrentFile ==
    ASSUME PublishInv, NEW r \in Run, pc[r] \in {"backup", "place"}
    PROVE  /\ Target(r) \in File /\ Target(r) \in Planned(r)
           /\ Target(r) \notin job[r].published
           /\ pc[r] = "backup" => Target(r) \notin job[r].backups
           /\ job[r].at \in 1..Len(job[r].plan)
           /\ job[r].torn = 0
           /\ Len(job[r].plan) \in Nat
           /\ \A m, n \in 1..Len(job[r].plan) :
                 job[r].plan[m] = job[r].plan[n] => m = n
<1>1. pc[r] \in Publishing
  BY DEF Publishing
<1>2. Lists(r) /\ job[r].plan \in Plan /\ Planned(r) \subseteq Written(r) /\ Written(r) \subseteq File
  BY <1>1, PublisherKnows DEF Job
<1>3. /\ Len(job[r].plan) \in Nat
      /\ \A m, n \in 1..Len(job[r].plan) :
            job[r].plan[m] = job[r].plan[n] => m = n
  BY <1>2, Plans
<1>4. job[r].at \in 1..Len(job[r].plan) /\ job[r].torn = 0
  BY <1>2 DEF Lists
<1>5. Target(r) \in Planned(r)
  BY <1>4 DEF Target, Planned
<1>6. Target(r) \notin job[r].published
  <2>1. job[r].published = {job[r].plan[n] : n \in 1..job[r].at - 1}
    BY <1>2 DEF Lists
  <2>2. \A n \in 1..job[r].at - 1 : n \in 1..Len(job[r].plan) /\ n # job[r].at
    BY <1>3, <1>4
  <2> QED
    BY <1>3, <1>4, <2>1, <2>2 DEF Target
<1>7. pc[r] = "backup" => Target(r) \notin job[r].backups
  <2>1. job[r].at \in job[r].at..Len(job[r].plan)
    BY <1>3, <1>4
  <2> QED
    BY <1>2, <2>1 DEF Lists, Target
<1> QED
  BY <1>2, <1>3, <1>4, <1>5, <1>6, <1>7

(***************************************************************************)
(* Every action is such a step.                                            *)
(***************************************************************************)
LEMMA ExecuteIsStep ==
    ASSUME PublishInv, NEW r \in Run, Execute(r)
    PROVE  StepOf(r)
<1>1. /\ pc \in [Run -> {"idle"} \cup Preparing \cup Publishing \cup Ended]
      /\ job \in [Run -> Job] /\ before \in [Run -> [File -> Contents]]
      /\ disk \in [File -> Contents] /\ bak \in [File -> [Stamp -> Contents]]
  BY DEF PublishInv, TypeOK
<1>2. /\ Live(r) \/ pc[r] = "idle"
      /\ pc'[r] \in Preparing \cup Publishing \cup Ended
  BY <1>1 DEF Execute, Publish, Start, Pin, Lock, Stage, Confirm, GiveUp, Backup, Place,
     RenameFails, Undo, Restore, RolledBack, Crash, End, Goto, Live, Preparing, Publishing, Ended
<1>3. pc[r] \in Publishing => Publish(r) \/ Crash(r)
  BY DEF Execute, Start, Pin, Lock, Stage, Confirm, GiveUp, Publishing
<1>4. ASSUME pc[r] \in Publishing
      PROVE  pc'[r] \in Publishing \cup Ended /\ before' = before
  BY <1>1, <1>3, <1>4 DEF Publish, Backup, Place, RenameFails, Undo, Restore, RolledBack,
     Crash, End, Goto, Publishing, Ended
<1>5. ASSUME pc[r] \in Publishing, pc'[r] \in Publishing
      PROVE  job'[r].cmd = job[r].cmd /\ job'[r].plan = job[r].plan /\ job'[r].ca = job[r].ca
  <2>1. /\ ~\E l \in Ended : Goto(r, l)
        /\ job[r] \in Job
    BY <1>1, <1>5 DEF Goto, Publishing, Ended
  <2>2. CASE Backup(r) \/ RenameFails(r)
    BY <1>1, <2>1, <2>2 DEF Backup, RenameFails, Job
  <2>3. CASE Place(r)
    BY <1>1, <2>1, <2>3 DEF Place, End, Ended, Job
  <2>4. CASE Undo(r) \/ Restore(r)
    BY <1>1, <2>1, <2>4 DEF Undo, Restore, Job
  <2>5. ~RolledBack(r) /\ ~Crash(r)
    BY <2>1 DEF RolledBack, Crash, End, Ended
  <2> QED
    BY <1>3, <1>5, <2>2, <2>3, <2>4, <2>5 DEF Publish
<1>6. ASSUME pc[r] \notin Publishing, pc'[r] \in Publishing PROVE Confirm(r)
  BY <1>1, <1>6 DEF Execute, Publish, Start, Pin, Lock, Stage, GiveUp, Backup, Place,
     RenameFails, Undo, Restore, RolledBack, Crash, End, Goto, Publishing
<1>7. ASSUME NEW q \in Run \ {r} PROVE Still(q)
  <2>1. pc'[q] = pc[q]
    BY <1>1 DEF Execute, Publish, Start, Pin, Lock, Stage, Confirm, GiveUp, Backup, Place,
       RenameFails, Undo, Restore, RolledBack, Crash, End, Goto
  <2>2. job'[q] = job[q]
    <3>1. CASE Start(r) \/ Pin(r) \/ Lock(r) \/ Stage(r) \/ Confirm(r) \/ GiveUp(r) \/ Crash(r)
      BY <1>1, <3>1 DEF Start, Pin, Lock, Stage, Confirm, GiveUp, Crash, End
    <3>2. CASE Publish(r)
      BY <1>1, <3>2 DEF Publish, Backup, Place, RenameFails, Undo, Restore, RolledBack, End
    <3> QED
      BY <3>1, <3>2 DEF Execute
  <2>3. CASE Confirm(r)
    BY <1>1, <2>1, <2>2, <2>3 DEF Confirm, Still
  <2>4. CASE ~Confirm(r)
    <3>1. before' = before
      BY <2>4 DEF Execute, Publish, Start, Pin, Lock, Stage, GiveUp, Backup, Place,
         RenameFails, Undo, Restore, RolledBack, Crash
    <3> QED
      BY <2>1, <2>2, <3>1 DEF Still
  <2> QED
    BY <2>3, <2>4
<1>8. CASE pc[r] \notin Publishing
  <2>1. disk' = disk /\ bak' = bak
    BY <1>8 DEF Execute, Publish, Start, Pin, Lock, Stage, Confirm, GiveUp, Backup, Place,
       RenameFails, Undo, Restore, RolledBack, Crash, Publishing, files
  <2> QED
    BY <1>2, <1>6, <1>7, <1>8, <2>1 DEF StepOf
<1>9. CASE pc[r] \in Publishing
  <2>1. Planned(r) \subseteq File /\ Lists(r) /\ job[r].plan \in Plan
    BY <1>9, PublisherKnows DEF Job
  <2>2. PICK g \in File \cup {"none"} :
           /\ g \in Planned(r) \cup {"none"}
           /\ \A f \in File \ {g} : disk'[f] = disk[f] /\ bak'[f] = bak[f]
    <3>1. CASE Backup(r) \/ Place(r)
      <4>1. Target(r) \in Planned(r)
        BY <3>1, CurrentFile DEF Backup, Place
      <4>2. \A f \in File \ {Target(r)} : disk'[f] = disk[f] /\ bak'[f] = bak[f]
        BY <1>1, <3>1 DEF Backup, Place, files
      <4> QED
        BY <2>1, <4>1, <4>2
    <3>2. CASE RenameFails(r) \/ RolledBack(r) \/ Crash(r)
      BY <3>2 DEF RenameFails, RolledBack, Crash, files
    <3>3. CASE Undo(r)
      <4>1. LastOf(r, job[r].published) \in Planned(r)
        BY <2>1, <3>3, LastOfIsIn DEF Undo, Lists
      <4>2. \A f \in File \ {LastOf(r, job[r].published)} : disk'[f] = disk[f] /\ bak'[f] = bak[f]
        BY <1>1, <3>3 DEF Undo
      <4> QED
        BY <2>1, <4>1, <4>2
    <3>4. CASE Restore(r)
      <4>1. LastOf(r, job[r].backups) \in Planned(r)
        BY <2>1, <3>4, LastOfIsIn DEF Restore, Lists
      <4>2. \A f \in File \ {LastOf(r, job[r].backups)} : disk'[f] = disk[f] /\ bak'[f] = bak[f]
        BY <1>1, <3>4 DEF Restore, files
      <4> QED
        BY <2>1, <4>1, <4>2
    <3> QED
      BY <1>3, <1>9, <3>1, <3>2, <3>3, <3>4 DEF Publish
  <2>3. "none" \notin File
    BY DEF File
  <2>4. \A f \in File : f \notin Planned(r) => disk'[f] = disk[f] /\ bak'[f] = bak[f]
    BY <2>2, <2>3
  <2> QED
    BY <1>2, <1>4, <1>5, <1>7, <1>9, <2>4 DEF StepOf
<1> QED
  BY <1>8, <1>9

LEMMA BackupPreserves ==
    ASSUME PublishInv, NEW r \in Run, StepOf(r), Observe, Backup(r)
    PROVE  PublishInv'
<1> DEFINE f == Target(r)
           j == IF disk[f] = Absent THEN job[r]
                ELSE [job[r] EXCEPT !.backups = @ \cup {f}]
<1>1. pc[r] = "backup" /\ pc[r] \in Publishing
  BY DEF Backup, Publishing
<1>2. TypeOK
  BY DEF PublishInv
<1>3. /\ f \in File /\ f \in Planned(r)
      /\ f \notin job[r].published /\ f \notin job[r].backups
      /\ job[r].at \in 1..Len(job[r].plan) /\ job[r].torn = 0
      /\ Len(job[r].plan) \in Nat
      /\ \A m, n \in 1..Len(job[r].plan) :
            job[r].plan[m] = job[r].plan[n] => m = n
  BY <1>1, CurrentFile
<1>4. /\ job[r] \in Job /\ Lists(r)
      /\ Planned(r) \subseteq Written(r) /\ Written(r) \subseteq File
      /\ r \notin mixed => Progress(r)
  BY <1>1, PublisherKnows
<1>5. /\ job' = [job EXCEPT ![r] = j] /\ j \in Job
      /\ j.cmd = job[r].cmd /\ j.ca = job[r].ca /\ j.plan = job[r].plan
      /\ j.rotate = job[r].rotate /\ j.stamp = job[r].stamp /\ j.at = job[r].at
      /\ j.published = job[r].published /\ j.torn = job[r].torn
      /\ j.backups = IF disk[f] = Absent THEN job[r].backups
                     ELSE job[r].backups \cup {f}
  <2>1. CASE disk[f] = Absent
    BY <1>2, <1>4, <2>1 DEF Backup, TypeOK
  <2>2. CASE disk[f] # Absent
    BY <1>2, <1>3, <1>4, <2>2 DEF Backup, TypeOK, Job
  <2> QED
    BY <2>1, <2>2
<1>6. /\ disk' = [disk EXCEPT ![f] = Absent]
      /\ bak' = IF disk[f] = Absent THEN bak
                ELSE [bak EXCEPT ![f][job[r].stamp] = disk[f]]
      /\ UNCHANGED <<clock, lock, before>> /\ Goto(r, "place")
  <2>1. disk[f] = Absent => disk = [disk EXCEPT ![f] = Absent]
    BY <1>2, <1>3 DEF TypeOK
  <2>2. CASE disk[f] = Absent
    <3>1. UNCHANGED <<disk, bak>>
      BY <2>2 DEF Backup, files
    <3> QED
      BY <2>1, <2>2, <3>1 DEF Backup
  <2>3. CASE disk[f] # Absent
    BY <2>3 DEF Backup
  <2> QED
    BY <2>2, <2>3
<1> HIDE DEF f, j
<1>7. job'[r] = j /\ pc'[r] = "place" /\ job[r].stamp \in Stamp
  BY <1>2, <1>4, <1>5, <1>6 DEF TypeOK, Goto, Job
<1>8. FilesTyped'
  <2>1. Absent \in Contents
    BY DEF Contents
  <2> QED
    BY <1>2, <1>3, <1>6, <1>7, <2>1 DEF FilesTyped, TypeOK
<1>9. f = Target(r)'
  BY <1>5, <1>7 DEF f, Target
<1>10. Lists(r)'
  <2>1. j.published \cup j.backups \subseteq Planned(r)'
    BY <1>3, <1>4, <1>5, <1>7 DEF Lists, Planned
  <2>2. j.published = {j.plan[n] : n \in 1..j.at - 1}
    BY <1>1, <1>4, <1>5 DEF Lists
  <2>3. ASSUME NEW n \in j.at..Len(j.plan), j.plan[n] \in j.backups
        PROVE  n = j.at
    <3>1. job[r].plan[n] \notin job[r].backups
      BY <1>1, <1>4, <1>5, <2>3 DEF Lists
    <3>2. job[r].plan[n] = f /\ f = job[r].plan[job[r].at]
      BY <1>5, <2>3, <3>1 DEF f, Target
    <3> QED
      BY <1>3, <1>5, <3>2
  <2> QED
    BY <1>3, <1>5, <1>7, <2>1, <2>2, <2>3 DEF Lists
<1>11. r \notin mixed => disk[f] = before[r][f]
  BY <1>3, <1>4 DEF Progress
<1>12. r \notin mixed => Progress(r)'
  <2> SUFFICES ASSUME r \notin mixed PROVE Progress(r)'
    OBVIOUS
  <2>1. \A g \in j.backups :
           before[r][g] # Absent /\ bak'[g][j.stamp] = before[r][g]
    <3>1. ASSUME NEW g \in j.backups
          PROVE  before[r][g] # Absent /\ bak'[g][j.stamp] = before[r][g]
      <4>1. CASE g = f
        BY <1>2, <1>3, <1>5, <1>6, <1>7, <1>11, <3>1, <4>1 DEF TypeOK
      <4>2. CASE g # f
        <5>1. g \in job[r].backups /\ g \in File
          BY <1>4, <1>5, <3>1, <4>2 DEF Job
        <5>2. bak'[g] = bak[g]
          BY <1>2, <1>6, <4>2, <5>1 DEF TypeOK
        <5> QED
          BY <1>4, <1>5, <5>1, <5>2 DEF Progress
      <4> QED
        BY <4>1, <4>2
    <3> QED
      BY <3>1
  <2>2. \A g \in j.published : before[r][g] # Absent => g \in j.backups
    BY <1>4, <1>5 DEF Progress, Moved
  <2>3. before[r][f] # Absent => f \in j.backups
    BY <1>5, <1>11
  <2>4. ASSUME NEW g \in Written(r)
        PROVE  disk'[g] = IF g \in j.published THEN Content(g, j.ca, r)
                          ELSE IF g \in j.backups THEN Absent ELSE before[r][g]
    <3>1. CASE g = f
      BY <1>2, <1>3, <1>5, <1>6, <1>11, <3>1 DEF TypeOK
    <3>2. CASE g # f
      BY <1>2, <1>3, <1>4, <1>5, <1>6, <3>2 DEF TypeOK, Progress
    <3> QED
      BY <3>1, <3>2
  <2>5. Written(r)' = Written(r)
    BY <1>5, <1>7 DEF Written
  <2> QED
    BY <1>6, <1>7, <1>9, <2>1, <2>2, <2>3, <2>4, <2>5 DEF Progress, Moved
<1>13. Alone(r) => Recoverable(r)'
  <2> SUFFICES ASSUME Alone(r), NEW g \in File
               PROVE  \/ before[r][g] \in {Absent, disk'[g]}
                      \/ \E t \in Stamp : bak'[g][t] = before[r][g]
    BY <1>6 DEF Recoverable
  <2>1. r \notin mixed /\ Recoverable(r)
    BY AloneIsUnmixed DEF PublishInv, NothingLost
  <2>2. CASE g = f
    BY <1>2, <1>3, <1>6, <1>7, <1>11, <2>1, <2>2 DEF TypeOK
  <2>3. CASE g # f
    <3>1. disk'[g] = disk[g] /\ bak'[g] = bak[g]
      BY <1>2, <1>6, <2>3 DEF TypeOK
    <3> QED
      BY <2>1, <3>1 DEF Recoverable
  <2> QED
    BY <2>2, <2>3
<1> QED
  BY <1>1, <1>5, <1>6, <1>8, <1>10, <1>12, <1>13, PublishStep DEF Publishing

LEMMA RenameFailsPreserves ==
    ASSUME PublishInv, NEW r \in Run, StepOf(r), Observe, RenameFails(r)
    PROVE  PublishInv'
<1>1. pc[r] \in {"backup", "place"} /\ pc[r] \in Publishing
  BY DEF RenameFails, Publishing
<1>2. TypeOK
  BY DEF PublishInv
<1>3. /\ job[r] \in Job /\ Lists(r)
      /\ Planned(r) \subseteq Written(r) /\ Written(r) \subseteq File
      /\ r \notin mixed => Progress(r)
  BY <1>1, PublisherKnows
<1>4. /\ job' = [job EXCEPT ![r] = job[r]] /\ job' = job
      /\ pc'[r] = "rollback" /\ Goto(r, "rollback")
      /\ UNCHANGED <<disk, bak, clock, lock, before>>
  BY <1>2 DEF RenameFails, Goto, files, TypeOK
<1>5. FilesTyped'
  BY <1>2, <1>4 DEF FilesTyped, TypeOK
<1>6. Lists(r)'
  BY <1>3, <1>4 DEF Lists, Planned
<1>7. r \notin mixed => Progress(r)'
  <2>1. Written(r)' = Written(r) /\ Target(r)' = Target(r)
    BY <1>4 DEF Written, Target
  <2> QED
    BY <1>3, <1>4, <2>1 DEF Progress, Moved
<1>8. Alone(r) => Recoverable(r)'
  BY <1>4 DEF Recoverable, PublishInv, NothingLost
<1> QED
  BY <1>1, <1>3, <1>4, <1>5, <1>6, <1>7, <1>8, PublishStep DEF Publishing

LEMMA UndoPreserves ==
    ASSUME PublishInv, NEW r \in Run, StepOf(r), Observe, Undo(r)
    PROVE  PublishInv'
<1> DEFINE f == LastOf(r, job[r].published)
<1>1. pc[r] = "rollback" /\ pc[r] \in Publishing
  BY DEF Undo, Publishing
<1>2. TypeOK
  BY DEF PublishInv
<1>3. /\ job[r] \in Job /\ Lists(r)
      /\ Planned(r) \subseteq Written(r) /\ Written(r) \subseteq File
      /\ r \notin mixed => Progress(r)
  BY <1>1, PublisherKnows
<1>4. f \in job[r].published /\ f \in File
  <2>1. job[r].published # {} /\ job[r].published \subseteq Planned(r)
    BY <1>3 DEF Undo, Lists
  <2>2. job[r].plan \in Plan
    BY <1>3 DEF Job
  <2> QED
    BY <1>3, <2>1, <2>2, LastOfIsIn
<1>5. \E torn \in {job[r].torn, job[r].torn + 1} :
         /\ job' = [job EXCEPT ![r] = [job[r] EXCEPT !.published = @ \ {f},
                                                     !.torn = torn]]
         /\ torn = 0 => disk' = [disk EXCEPT ![f] = Absent]
         /\ disk' = disk \/ disk' = [disk EXCEPT ![f] = Absent]
  <2>1. CASE /\ disk' = [disk EXCEPT ![f] = Absent]
             /\ job' = [job EXCEPT ![r].published = @ \ {f}]
    <3>1. [job[r] EXCEPT !.published = @ \ {f}] =
             [job[r] EXCEPT !.published = @ \ {f}, !.torn = job[r].torn]
      BY <1>3 DEF Job
    <3> QED
      BY <2>1, <3>1
  <2>2. CASE /\ job' = [job EXCEPT ![r].published = @ \ {f}, ![r].torn = @ + 1]
             /\ UNCHANGED disk
    <3>1. job[r].torn + 1 # 0
      BY <1>3 DEF Job
    <3> QED
      BY <1>2, <2>2, <3>1 DEF TypeOK
  <2> QED
    BY <2>1, <2>2 DEF Undo
<1>6. PICK torn \in {job[r].torn, job[r].torn + 1} :
         /\ job' = [job EXCEPT ![r] = [job[r] EXCEPT !.published = @ \ {f},
                                                     !.torn = torn]]
         /\ torn = 0 => disk' = [disk EXCEPT ![f] = Absent]
         /\ disk' = disk \/ disk' = [disk EXCEPT ![f] = Absent]
  BY <1>5
<1> DEFINE j == [job[r] EXCEPT !.published = @ \ {f}, !.torn = torn]
<1>7. /\ job' = [job EXCEPT ![r] = j] /\ j \in Job
      /\ j.cmd = job[r].cmd /\ j.ca = job[r].ca /\ j.plan = job[r].plan
      /\ j.rotate = job[r].rotate /\ j.stamp = job[r].stamp
      /\ j.published = job[r].published \ {f} /\ j.torn = torn
      /\ j.backups = job[r].backups
      /\ torn = 0 => job[r].torn = 0
  <2>1. job[r].torn \in Nat
    BY <1>3 DEF Job
  <2>2. torn \in Nat /\ (torn = 0 => job[r].torn = 0)
    BY <2>1
  <2> QED
    BY <1>3, <1>6, <2>2 DEF Job
<1>8. /\ UNCHANGED <<bak, clock, lock, before>> /\ Goto(r, "rollback")
      /\ pc'[r] = "rollback"
  BY <1>1, <1>2 DEF Undo, Goto, TypeOK
<1> HIDE DEF f, j
<1>9. job'[r] = j
  BY <1>2, <1>7 DEF TypeOK
<1>10. FilesTyped'
  <2>1. Absent \in Contents
    BY DEF Contents
  <2>2. disk' \in [File -> Contents]
    BY <1>2, <1>4, <1>6, <2>1 DEF TypeOK
  <2>3. \A g \in File : disk'[g] \in {Absent, disk[g]}
    BY <1>2, <1>4, <1>6 DEF TypeOK
  <2>4. CaFile \subseteq File
    BY DEF CaFile, File
  <2> QED
    BY <1>2, <1>8, <2>2, <2>3, <2>4 DEF FilesTyped, TypeOK
<1>11. Lists(r)'
  BY <1>3, <1>7, <1>8, <1>9 DEF Lists, Planned
<1>12. r \notin mixed => Progress(r)'
  <2> SUFFICES ASSUME r \notin mixed PROVE Progress(r)'
    OBVIOUS
  <2>1. \A g \in j.backups :
           before[r][g] # Absent /\ bak[g][j.stamp] = before[r][g]
    BY <1>3, <1>7 DEF Progress
  <2>2. \A g \in job[r].published : before[r][g] # Absent => g \in j.backups
    BY <1>3, <1>7 DEF Progress, Moved
  <2>3. ASSUME torn = 0, NEW g \in Written(r)
        PROVE  disk'[g] = IF g \in j.published THEN Content(g, j.ca, r)
                          ELSE IF g \in j.backups THEN Absent ELSE before[r][g]
    <3>1. CASE g = f
      BY <1>2, <1>4, <1>6, <1>7, <2>2, <2>3, <3>1 DEF TypeOK
    <3>2. CASE g # f
      BY <1>2, <1>3, <1>6, <1>7, <2>3, <3>2 DEF TypeOK, Progress
    <3> QED
      BY <3>1, <3>2
  <2>4. \A g \in j.published : before[r][g] # Absent => g \in j.backups
    BY <1>7, <2>2
  <2>5. Written(r)' = Written(r)
    BY <1>7, <1>8, <1>9 DEF Written
  <2> QED
    BY <1>7, <1>8, <1>9, <2>1, <2>3, <2>4, <2>5 DEF Progress, Moved
<1>13. Alone(r) => Recoverable(r)'
  <2> SUFFICES ASSUME Alone(r), NEW g \in File
               PROVE  \/ before[r][g] \in {Absent, disk'[g]}
                      \/ \E t \in Stamp : bak[g][t] = before[r][g]
    BY <1>8 DEF Recoverable
  <2>1. Progress(r) /\ Recoverable(r)
    BY <1>3, AloneIsUnmixed DEF PublishInv, NothingLost
  <2>2. CASE g = f
    <3>1. job[r].stamp \in Stamp
      BY <1>3 DEF Job
    <3> QED
      BY <1>4, <2>1, <2>2, <3>1 DEF Progress, Moved
  <2>3. CASE g # f
    BY <1>2, <1>6, <2>1, <2>3 DEF TypeOK, Recoverable
  <2> QED
    BY <2>2, <2>3
<1> QED
  BY <1>1, <1>7, <1>8, <1>10, <1>11, <1>12, <1>13, PublishStep DEF Publishing

LEMMA RestorePreserves ==
    ASSUME PublishInv, NEW r \in Run, StepOf(r), Observe, Restore(r)
    PROVE  PublishInv'
<1> DEFINE f == LastOf(r, job[r].backups)
           t == job[r].stamp
           restored == /\ disk' = [disk EXCEPT ![f] = bak[f][t]]
                       /\ bak' = [bak EXCEPT ![f][t] = Absent]
<1>1. pc[r] = "rollback" /\ pc[r] \in Publishing
  BY DEF Restore, Publishing
<1>2. TypeOK
  BY DEF PublishInv
<1>3. /\ job[r] \in Job /\ Lists(r)
      /\ Planned(r) \subseteq Written(r) /\ Written(r) \subseteq File
      /\ r \notin mixed => Progress(r)
  BY <1>1, PublisherKnows
<1>4. f \in job[r].backups /\ f \in File /\ t \in Stamp
  <2>1. job[r].backups # {} /\ job[r].backups \subseteq Planned(r)
    BY <1>3 DEF Restore, Lists
  <2>2. job[r].plan \in Plan /\ t \in Stamp
    BY <1>3 DEF Job
  <2> QED
    BY <1>3, <2>1, <2>2, LastOfIsIn
<1>5. \E torn \in {job[r].torn, job[r].torn + 1} :
         /\ job' = [job EXCEPT ![r] = [job[r] EXCEPT !.backups = @ \ {f},
                                                     !.torn = torn]]
         /\ torn = 0 => restored
         /\ restored \/ UNCHANGED <<disk, bak>>
  <2>1. CASE /\ restored
             /\ job' = [job EXCEPT ![r].backups = @ \ {f}]
    <3>1. [job[r] EXCEPT !.backups = @ \ {f}] =
             [job[r] EXCEPT !.backups = @ \ {f}, !.torn = job[r].torn]
      BY <1>3 DEF Job
    <3> QED
      BY <2>1, <3>1
  <2>2. CASE /\ job' = [job EXCEPT ![r].backups = @ \ {f}, ![r].torn = @ + 1]
             /\ UNCHANGED <<disk, bak>>
    <3>1. job[r].torn + 1 # 0
      BY <1>3 DEF Job
    <3>2. job' = [job EXCEPT ![r] = [job[r] EXCEPT !.backups = @ \ {f},
                                                   !.torn = job[r].torn + 1]]
      BY <1>2, <2>2 DEF TypeOK
    <3> QED
      BY <2>2, <3>1, <3>2
  <2> QED
    BY <2>1, <2>2 DEF Restore, files
<1>6. PICK torn \in {job[r].torn, job[r].torn + 1} :
         /\ job' = [job EXCEPT ![r] = [job[r] EXCEPT !.backups = @ \ {f},
                                                     !.torn = torn]]
         /\ torn = 0 => restored
         /\ restored \/ UNCHANGED <<disk, bak>>
  BY <1>5
<1> DEFINE j == [job[r] EXCEPT !.backups = @ \ {f}, !.torn = torn]
<1>7. /\ job' = [job EXCEPT ![r] = j] /\ j \in Job
      /\ j.cmd = job[r].cmd /\ j.ca = job[r].ca /\ j.plan = job[r].plan
      /\ j.rotate = job[r].rotate /\ j.stamp = job[r].stamp
      /\ j.backups = job[r].backups \ {f} /\ j.torn = torn
      /\ j.published = {}
      /\ torn = 0 => job[r].torn = 0
  <2>1. job[r].torn \in Nat
    BY <1>3 DEF Job
  <2>2. torn \in Nat /\ (torn = 0 => job[r].torn = 0)
    BY <2>1
  <2>3. job[r].published = {}
    BY DEF Restore
  <2> QED
    BY <1>3, <1>6, <2>2, <2>3 DEF Job
<1>8. /\ UNCHANGED <<clock, lock, before>> /\ Goto(r, "rollback")
      /\ pc'[r] = "rollback"
  BY <1>1, <1>2 DEF Restore, Goto, TypeOK
<1>9. /\ \A g \in File \ {f} : disk'[g] = disk[g] /\ bak'[g] = bak[g]
      /\ disk'[f] \in {disk[f], bak[f][t]}
      /\ torn = 0 => disk'[f] = bak[f][t]
      /\ \A s \in Stamp : bak'[f][s] \in {Absent, bak[f][s]}
      /\ disk' \in [File -> Contents] /\ bak' \in [File -> [Stamp -> Contents]]
  <2>1. Absent \in Contents
    BY DEF Contents
  <2>2. CASE restored
    BY <1>2, <1>4, <2>1, <2>2 DEF TypeOK
  <2>3. CASE UNCHANGED <<disk, bak>> /\ torn # 0
    BY <1>2, <1>4, <2>3 DEF TypeOK
  <2> QED
    BY <1>6, <2>2, <2>3
<1>10. \/ \A s \in Stamp : bak'[f][s] = bak[f][s]
       \/ disk'[f] = bak[f][t] /\ \A s \in Stamp \ {t} : bak'[f][s] = bak[f][s]
  <2>1. CASE restored
    BY <1>2, <1>4, <2>1 DEF TypeOK
  <2> QED
    BY <1>6, <2>1
<1> HIDE DEF f, t, j, restored
<1>11. job'[r] = j
  BY <1>2, <1>7 DEF TypeOK
<1>12. FilesTyped'
  <2>1. CaFile \subseteq File
    BY DEF CaFile, File
  <2>2. ASSUME NEW g \in CaFile
        PROVE  /\ disk'[g] # Absent => disk'[g].by = "cln"
               /\ \A s \in Stamp : bak'[g][s] # Absent => bak'[g][s].by = "cln"
    <3>1. /\ disk[g] # Absent => disk[g].by = "cln"
          /\ \A s \in Stamp : bak[g][s] # Absent => bak[g][s].by = "cln"
      BY <1>2 DEF TypeOK
    <3>2. CASE g = f
      BY <1>4, <1>9, <3>1, <3>2
    <3>3. CASE g # f
      BY <1>9, <2>1, <3>1, <3>3
    <3> QED
      BY <3>2, <3>3
  <2> QED
    BY <1>9, <2>2 DEF FilesTyped
<1>13. Lists(r)'
  BY <1>3, <1>7, <1>8, <1>11 DEF Lists, Planned
<1>14. r \notin mixed => bak[f][t] = before[r][f]
  BY <1>3, <1>4 DEF Progress, t
<1>15. r \notin mixed => Progress(r)'
  <2> SUFFICES ASSUME r \notin mixed PROVE Progress(r)'
    OBVIOUS
  <2>1. ASSUME NEW g \in j.backups
        PROVE  before[r][g] # Absent /\ bak'[g][j.stamp] = before[r][g]
    <3>1. g \in job[r].backups /\ g \in File \ {f}
      BY <1>3, <1>7, <2>1 DEF Job
    <3> QED
      BY <1>3, <1>7, <1>9, <3>1 DEF Progress
  <2>2. ASSUME torn = 0, NEW g \in Written(r)
        PROVE  disk'[g] = IF g \in j.published THEN Content(g, j.ca, r)
                          ELSE IF g \in j.backups THEN Absent ELSE before[r][g]
    <3>1. CASE g = f
      BY <1>7, <1>9, <1>14, <2>2, <3>1
    <3>2. CASE g # f
      <4>1. job[r].published = {} /\ disk'[g] = disk[g]
        BY <1>3, <1>9, <3>2 DEF Restore
      <4> QED
        BY <1>3, <1>7, <2>2, <3>2, <4>1 DEF Progress
    <3> QED
      BY <3>1, <3>2
  <2>3. Written(r)' = Written(r)
    BY <1>7, <1>8, <1>11 DEF Written
  <2> QED
    BY <1>7, <1>8, <1>11, <2>1, <2>2, <2>3 DEF Progress, Moved
<1>16. Alone(r) => Recoverable(r)'
  <2> SUFFICES ASSUME Alone(r), NEW g \in File
               PROVE  \/ before[r][g] \in {Absent, disk'[g]}
                      \/ \E s \in Stamp : bak'[g][s] = before[r][g]
    BY <1>8 DEF Recoverable
  <2>1. r \notin mixed /\ Recoverable(r)
    BY AloneIsUnmixed DEF PublishInv, NothingLost
  <2>2. CASE g = f
    <3>1. bak[f][t] = before[r][f] /\ t \in Stamp
      BY <1>4, <1>14, <2>1
    <3>2. disk'[f] = before[r][f] \/ bak'[f][t] = before[r][f]
      BY <1>10, <3>1
    <3> QED
      BY <2>2, <3>1, <3>2
  <2>3. CASE g # f
    <3>1. disk'[g] = disk[g] /\ bak'[g] = bak[g]
      BY <1>9, <2>3
    <3> QED
      BY <2>1, <3>1 DEF Recoverable
  <2> QED
    BY <2>2, <2>3
<1> QED
  BY <1>1, <1>7, <1>8, <1>12, <1>13, <1>15, <1>16, PublishStep DEF Publishing

(***************************************************************************)
(* A staged file is in place, and the old one, if any, was moved aside.    *)
(***************************************************************************)
LEMMA PlacedFile ==
    ASSUME PublishInv, NEW r \in Run, Place(r)
    PROVE  /\ FilesTyped'
           /\ disk'[Target(r)] = Content(Target(r), job[r].ca, r)
           /\ \A g \in File \ {Target(r)} : disk'[g] = disk[g]
           /\ UNCHANGED <<bak, clock, before>>
           /\ Alone(r) => Recoverable(r)'
<1> DEFINE f == Target(r)
<1>1. pc[r] = "place" /\ pc[r] \in {"backup", "place"} /\ pc[r] \in Publishing
  BY DEF Place, Publishing
<1>2. TypeOK
  BY DEF PublishInv
<1>3. /\ job[r] \in Job /\ job[r].ca \in CA
      /\ r \notin mixed => Progress(r)
  BY <1>1, PublisherKnows
<1>4. f \in File
  BY <1>1, CurrentFile
<1>5. /\ disk' = [disk EXCEPT ![f] = Content(f, job[r].ca, r)]
      /\ UNCHANGED <<bak, clock, before>>
  BY DEF Place
<1> HIDE DEF f
<1>6. /\ Content(f, job[r].ca, r) \in Contents
      /\ f \in CaFile => Content(f, job[r].ca, r).by = "cln"
  BY <1>3, <1>4, ContentTypes
<1>7. /\ disk' \in [File -> Contents]
      /\ disk'[f] = Content(f, job[r].ca, r)
      /\ \A g \in File \ {f} : disk'[g] = disk[g]
  BY <1>2, <1>4, <1>5, <1>6 DEF TypeOK
<1>8. FilesTyped'
  <2>1. CaFile \subseteq File
    BY DEF CaFile, File
  <2>2. ASSUME NEW g \in CaFile, disk'[g] # Absent PROVE disk'[g].by = "cln"
    BY <1>2, <1>6, <1>7, <2>1, <2>2 DEF TypeOK
  <2> QED
    BY <1>2, <1>5, <1>7, <2>2 DEF FilesTyped, TypeOK
<1>9. Alone(r) => Recoverable(r)'
  <2> SUFFICES ASSUME Alone(r), NEW g \in File
               PROVE  \/ before[r][g] \in {Absent, disk'[g]}
                      \/ \E t \in Stamp : bak[g][t] = before[r][g]
    BY <1>5 DEF Recoverable
  <2>1. Progress(r) /\ Recoverable(r)
    BY <1>3, AloneIsUnmixed DEF PublishInv, NothingLost
  <2>2. CASE g = f
    <3>1. job[r].stamp \in Stamp
      BY <1>3 DEF Job
    <3>2. before[r][f] # Absent => bak[f][job[r].stamp] = before[r][f]
      BY <1>1, <2>1 DEF Progress, Moved, f
    <3> QED
      BY <2>2, <3>1, <3>2
  <2>3. CASE g # f
    BY <1>7, <2>1, <2>3 DEF Recoverable
  <2> QED
    BY <2>2, <2>3
<1> QED
  BY <1>5, <1>7, <1>8, <1>9 DEF f

LEMMA PlaceNextPreserves ==
    ASSUME PublishInv, NEW r \in Run, StepOf(r), Observe, Place(r), job[r].at # Len(job[r].plan)
    PROVE  PublishInv'
<1> DEFINE f == Target(r)
           j == [job[r] EXCEPT !.published = @ \cup {f}, !.at = @ + 1]
<1>1. pc[r] = "place" /\ pc[r] \in {"backup", "place"} /\ pc[r] \in Publishing
  BY DEF Place, Publishing
<1>2. TypeOK
  BY DEF PublishInv
<1>3. /\ job[r] \in Job /\ Lists(r)
      /\ Planned(r) \subseteq Written(r) /\ Written(r) \subseteq File
      /\ r \notin mixed => Progress(r)
  BY <1>1, PublisherKnows
<1>4. /\ f \in File /\ f \in Planned(r)
      /\ job[r].at \in 1..Len(job[r].plan) /\ job[r].torn = 0
      /\ Len(job[r].plan) \in Nat
  BY <1>1, CurrentFile
<1>5. /\ FilesTyped'
      /\ disk'[f] = Content(f, job[r].ca, r)
      /\ \A g \in File \ {f} : disk'[g] = disk[g]
      /\ UNCHANGED <<bak, clock, before>>
      /\ Alone(r) => Recoverable(r)'
  BY PlacedFile
<1>6. /\ job' = [job EXCEPT ![r] = j] /\ j \in Job /\ job'[r] = j
      /\ j.cmd = job[r].cmd /\ j.ca = job[r].ca /\ j.plan = job[r].plan
      /\ j.rotate = job[r].rotate /\ j.stamp = job[r].stamp
      /\ j.backups = job[r].backups /\ j.torn = 0
      /\ j.published = job[r].published \cup {f} /\ j.at = job[r].at + 1
      /\ UNCHANGED lock /\ Goto(r, "backup") /\ pc'[r] = "backup"
  <2>1. /\ job' = [job EXCEPT ![r].published = @ \cup {f}, ![r].at = @ + 1]
        /\ UNCHANGED lock /\ Goto(r, "backup")
    BY DEF Place
  <2>2. job' = [job EXCEPT ![r] = j]
    BY <1>2, <2>1 DEF TypeOK
  <2>3. job[r].at + 1 \in Nat /\ job[r].published \cup {f} \in SUBSET File
    BY <1>3, <1>4 DEF Job
  <2>4. j \in Job
    BY <1>3, <2>3 DEF Job
  <2> QED
    BY <1>2, <1>3, <1>4, <2>1, <2>2, <2>4 DEF TypeOK, Goto, Job
<1>7. f = job[r].plan[job[r].at]
  BY DEF Target
<1> HIDE DEF f, j
<1>8. Lists(r)'
  <2>1. j.published \cup j.backups \subseteq Planned(r)'
    <3>1. Planned(r)' = Planned(r)
      BY <1>6 DEF Planned
    <3>2. job[r].published \cup job[r].backups \subseteq Planned(r)
      BY <1>3 DEF Lists
    <3> QED
      BY <1>4, <1>6, <3>1, <3>2
  <2>2. j.at \in 1..Len(j.plan)
    <3>1. job[r].at + 1 \in 1..Len(job[r].plan)
      BY <1>4
    <3> QED
      BY <1>6, <3>1
  <2>3. j.published = {j.plan[n] : n \in 1..j.at - 1}
    <3>1. job[r].published = {job[r].plan[n] : n \in 1..job[r].at - 1}
      BY <1>1, <1>3 DEF Lists
    <3>2. 1..j.at - 1 = (1..job[r].at - 1) \cup {job[r].at}
      BY <1>4, <1>6
    <3>3. j.plan = job[r].plan /\ j.published = job[r].published \cup {f}
      BY <1>6
    <3>4. {job[r].plan[n] : n \in (1..job[r].at - 1) \cup {job[r].at}}
              = {job[r].plan[n] : n \in 1..job[r].at - 1} \cup {job[r].plan[job[r].at]}
      OBVIOUS
    <3> QED
      BY <1>7, <3>1, <3>2, <3>3, <3>4, Zenon
  <2>4. ASSUME NEW n \in j.at..Len(j.plan), j.plan[n] \in j.backups
        PROVE  FALSE
    <3>1. n \in job[r].at..Len(job[r].plan) /\ n # job[r].at
      BY <1>4, <1>6
    <3> QED
      BY <1>1, <1>3, <1>6, <2>4, <3>1 DEF Lists
  <2> QED
    BY <1>6, <2>1, <2>2, <2>3, <2>4 DEF Lists
<1>9. r \notin mixed => Progress(r)'
  <2> SUFFICES ASSUME r \notin mixed PROVE Progress(r)'
    OBVIOUS
  <2>1. \A g \in j.backups :
           before[r][g] # Absent /\ bak[g][j.stamp] = before[r][g]
    BY <1>3, <1>6 DEF Progress
  <2>2. \A g \in j.published : before[r][g] # Absent => g \in j.backups
    BY <1>1, <1>3, <1>6 DEF Progress, Moved, f
  <2>3. ASSUME NEW g \in Written(r)
        PROVE  disk'[g] = IF g \in j.published THEN Content(g, j.ca, r)
                          ELSE IF g \in j.backups THEN Absent ELSE before[r][g]
    <3>1. CASE g = f
      BY <1>5, <1>6, <3>1
    <3>2. CASE g # f
      BY <1>3, <1>4, <1>5, <1>6, <3>2 DEF Progress
    <3> QED
      BY <3>1, <3>2
  <2>4. Written(r)' = Written(r)
    BY <1>5, <1>6 DEF Written
  <2> QED
    BY <1>5, <1>6, <2>1, <2>2, <2>3, <2>4 DEF Progress, Moved
<1> QED
  BY <1>1, <1>5, <1>6, <1>8, <1>9, PublishStep DEF Publishing

(***************************************************************************)
(* When the last file is in place, all of the plan is new and nothing else *)
(* has changed.                                                            *)
(***************************************************************************)
LEMMA AllPlaced ==
    ASSUME PublishInv, NEW r \in Run \ mixed, Place(r),
           job[r].at = Len(job[r].plan)
    PROVE  \A g \in Written(r) :
              disk'[g] = IF g \in Planned(r) THEN Content(g, job[r].ca, r)
                         ELSE before[r][g]
<1>1. pc[r] = "place" /\ pc[r] \in {"backup", "place"} /\ pc[r] \in Publishing
  BY DEF Place, Publishing
<1>2. Lists(r) /\ Progress(r) /\ Written(r) \subseteq File
  BY <1>1, PublisherKnows
<1>3. /\ job[r].at \in 1..Len(job[r].plan) /\ job[r].torn = 0
      /\ Len(job[r].plan) \in Nat
  BY <1>1, CurrentFile
<1>4. Planned(r) = job[r].published \cup {Target(r)}
  <2>1. job[r].published = {job[r].plan[n] : n \in 1..job[r].at - 1}
    BY <1>1, <1>2 DEF Lists
  <2>2. 1..job[r].at = (1..job[r].at - 1) \cup {job[r].at}
    BY <1>3
  <2>3. Planned(r) = {job[r].plan[n] : n \in 1..job[r].at}
    BY DEF Planned
  <2> QED
    BY <2>1, <2>2, <2>3 DEF Target
<1> SUFFICES ASSUME NEW g \in Written(r)
             PROVE  disk'[g] = IF g \in Planned(r) THEN Content(g, job[r].ca, r)
                               ELSE before[r][g]
  OBVIOUS
<1>5. CASE g = Target(r)
  <2>1. disk'[Target(r)] = Content(Target(r), job[r].ca, r)
    BY PlacedFile
  <2> QED
    BY <1>4, <1>5, <2>1
<1>6. CASE g # Target(r)
  <2>1. disk'[g] = disk[g]
    BY <1>2, <1>6, PlacedFile
  <2>2. g \notin Planned(r) => g \notin job[r].backups
    BY <1>2 DEF Lists
  <2> QED
    BY <1>2, <1>3, <1>4, <1>6, <2>1, <2>2 DEF Progress
<1> QED
  BY <1>5, <1>6

(***************************************************************************)
(* What a command that succeeds installs belongs together: with the CA it  *)
(* signed with, or with the CA it found and checked.                       *)
(***************************************************************************)
LEMMA PlacedCoherent ==
    ASSUME PublishInv, NEW r \in Run \ (stale \cup mixed), Place(r),
           job[r].cmd # "sign", job[r].at = Len(job[r].plan), CoherentIn(before[r])
    PROVE  CoherentIn(disk')
<1> DEFINE c == job[r].ca
           old == before[r]
<1>1. pc[r] = "place" /\ pc[r] \in Publishing
  BY DEF Place, Publishing
<1>2. /\ job[r] \in Job /\ job[r].cmd # "none" /\ c \in CA
      /\ Decided(job[r], old)
  BY <1>1, PublisherKnows
<1>3. \A g \in File \ {"signed"} :
         disk'[g] = IF g \in Planned(r) THEN Content(g, c, r) ELSE old[g]
  BY AllPlaced DEF Written
<1>4. /\ Content("server", c, r) = Content("server_key", c, r)
      /\ \A g \in File : Content(g, c, r).ca = c
  BY <1>2, ContentTypes DEF Content, CaFile
<1>5. CASE job[r].cmd = "init"
  <2>1. job[r].plan = InitPlan
    BY <1>2, <1>5 DEF Decided
  <2>2. {"haproxy_ca", "haproxy_concat", "ca", "server", "server_key"}
           \subseteq Planned(r)
    <3>1. /\ Len(InitPlan) = 5 /\ InitPlan[1] = "haproxy_ca"
          /\ InitPlan[2] = "haproxy_concat" /\ InitPlan[3] = "ca"
          /\ InitPlan[4] = "server" /\ InitPlan[5] = "server_key"
      BY DEF InitPlan
    <3> QED
      BY <2>1, <3>1 DEF Planned
  <2> QED
    BY <1>3, <1>4, <2>2 DEF CoherentIn, File
<1>6. CASE job[r].cmd = "renew"
  <2> DEFINE rotates == old["ca"] = Absent \/ Foreign(old, "ca", c)
  <2>1. job[r].plan = IF rotates THEN Append(RenewPlan, "ca") ELSE RenewPlan
    BY <1>2, <1>6 DEF Decided
  <2>2. Len(RenewPlan) = 2 /\ RenewPlan[1] = "server" /\ RenewPlan[2] = "server_key"
    BY DEF RenewPlan
  <2>3. CASE rotates
    <3>1. PICK p : p = Append(RenewPlan, "ca")
      OBVIOUS
    <3>2. Len(p) = 3 /\ p[1] = "server" /\ p[2] = "server_key" /\ p[3] = "ca"
      BY <3>1, RotationPlan
    <3>3. Planned(r) = {"server", "server_key", "ca"}
      <4>1. 1..3 = {1, 2, 3}
        OBVIOUS
      <4> QED
        BY <2>1, <2>3, <3>1, <3>2, <4>1 DEF Planned
    <3> QED
      BY <1>3, <1>4, <3>3 DEF CoherentIn, File
  <2>4. CASE ~rotates
    <3>1. Planned(r) = {"server", "server_key"}
      <4>1. 1..2 = {1, 2}
        OBVIOUS
      <4> QED
        BY <2>1, <2>2, <2>4, <4>1 DEF Planned
    <3>2. old["ca"].ca = c
      BY <2>4 DEF Foreign
    <3> QED
      BY <1>3, <1>4, <3>1, <3>2 DEF CoherentIn, File
  <2> QED
    BY <2>3, <2>4
<1> QED
  BY <1>2, <1>5, <1>6 DEF Job

LEMMA PlaceLastPreserves ==
    ASSUME PublishInv, NEW r \in Run, StepOf(r), Observe, Place(r), job[r].at = Len(job[r].plan)
    PROVE  PublishInv'
<1>1. pc[r] = "place" /\ pc[r] \in Publishing
  BY DEF Place, Publishing
<1>2. TypeOK
  BY DEF PublishInv
<1>3. Live(r)
  BY <1>1, PublisherKnows
<1>4. /\ FilesTyped' /\ UNCHANGED <<bak, clock, before>>
      /\ Alone(r) => Recoverable(r)'
  BY PlacedFile
<1>5. End(r, "done")
  BY DEF Place
<1>6. /\ pc' \in [Run -> {"idle"} \cup Preparing \cup Publishing \cup Ended]
      /\ pc'[r] = "done" /\ \A q \in Run \ {r} : pc'[q] = pc[q]
      /\ job' \in [Run -> Job] /\ \A q \in Run \ {r} : job'[q] = job[q]
  <2>1. NoJob \in Job
    BY CertPublishAssumption DEF NoJob, Job, Plan
  <2> QED
    BY <1>2, <1>5, <2>1 DEF TypeOK, End, Goto, Ended
<1>7. TypeOK'
  <2>1. \A q \in Run : Live(q)' => q # r /\ Live(q)
    BY <1>6 DEF Live, Ended
  <2>2. /\ lock' \in [Dir -> Run \cup {Nobody}]
        /\ \A q \in Run \ {r} : Live(q) /\ pc[q] \notin {"pin", "lock"}
                                  => lock'[LockDir[job[q].cmd]] = q
    BY <1>5, LockKept
  <2> QED
    BY <1>2, <1>4, <1>6, <2>1, <2>2 DEF FilesTyped, TypeOK
<1>8. Knows(r)'
  BY <1>6 DEF Knows, Live, Deciding, Preparing, Publishing, Ended
<1>9. CoherentBefore'
  <2>1. ~Writing(r)'
    BY <1>6 DEF Writing, Publishing
  <2>2. CASE ~Writing(r)
    BY <2>1, <2>2, CoherentKept
  <2>3. CASE Writing(r)
    <3> SUFFICES ASSUME Orderly'
                 PROVE  /\ CoherentIn(disk')
                        /\ \A q \in Run : ~Writing(q)'
      BY DEF CoherentBefore, Coherent, CoherentIn
    <3>1. Orderly
      BY OrderlyBefore
    <3>2. r \notin stale \cup mixed
      BY <1>1, <3>1 DEF Orderly
    <3>3. CoherentIn(before[r])
      BY <2>3, <3>1 DEF PublishInv, CoherentBefore
    <3>4. CoherentIn(disk')
      BY <2>3, <3>2, <3>3, PlacedCoherent DEF Writing
    <3>5. \A q \in Run \ {r} : ~Writing(q)
      BY <2>3, <3>1, OneWriter
    <3> QED
      BY <1>6, <2>1, <3>4, <3>5 DEF Writing
  <2> QED
    BY <2>2, <2>3
<1> QED
  BY <1>4, <1>7, <1>8, <1>9, StepKeeps

(***************************************************************************)
(* A step of a command that has not begun to publish and does not end.     *)
(***************************************************************************)
LEMMA PrepareStep ==
    ASSUME PublishInv, NEW r \in Run, StepOf(r), Observe,
           pc[r] \in Preparing \cup {"idle"},
           NEW l \in Preparing, Goto(r, l),
           NEW j \in Job, job' = [job EXCEPT ![r] = j],
           j.cmd # "none", j.ca \in CA,
           pc[r] # "idle" => j.cmd = job[r].cmd,
           l # "pin" => j.plan # <<>> /\ {j.plan[n] : n \in 1..Len(j.plan)} \subseteq Written(r)',
           j.published = {}, j.backups = {}, j.torn = 0, j.at = 1,
           UNCHANGED <<disk, bak, clock, before>>,
           l # "pin" /\ (r \in stale => pc[r] = "pin") => Decided(j, disk),
           lock' \in [Dir -> Run \cup {Nobody}],
           \A d \in Dir : lock[d] # Nobody => lock'[d] = lock[d],
           l \notin {"pin", "lock"} => lock'[LockDir[j.cmd]] = r
    PROVE  PublishInv'
<1>1. TypeOK /\ Knows(r)
  BY DEF PublishInv
<1>2. /\ pc' \in [Run -> {"idle"} \cup Preparing \cup Publishing \cup Ended]
      /\ pc'[r] = l /\ \A q \in Run \ {r} : pc'[q] = pc[q]
      /\ job' \in [Run -> Job] /\ job'[r] = j
      /\ \A q \in Run \ {r} : job'[q] = job[q]
  BY <1>1 DEF TypeOK, Goto
<1>3. /\ l \notin Publishing \cup Ended \cup {"idle"}
      /\ pc[r] \in Preparing \cup {"idle"}
      /\ pc[r] \notin Publishing \cup Ended
  BY DEF Publishing, Preparing, Ended
<1>4. before[r] = Nothing
  BY <1>1, <1>3 DEF Knows, Untouched
<1>5. TypeOK'
  <2>1. ASSUME NEW q \in Run \ {r}, Live(q)', pc'[q] \notin {"pin", "lock"}
        PROVE  lock'[LockDir[job'[q].cmd]] = q
    <3>1. Live(q) /\ pc[q] \notin {"pin", "lock"} /\ job'[q] = job[q]
      BY <1>2, <2>1 DEF Live
    <3>2. job[q].cmd \in {"init", "renew", "sign"}
      BY <1>1, <3>1 DEF PublishInv, Knows, TypeOK, Job
    <3>3. LockDir[job[q].cmd] \in Dir /\ lock[LockDir[job[q].cmd]] = q
      BY <1>1, <3>1, <3>2 DEF LockDir, Dir, TypeOK
    <3>4. q # Nobody
      BY CertPublishAssumption DEF Nobody
    <3> QED
      BY <3>1, <3>3, <3>4
  <2>2. \A q \in Run : Live(q)' /\ pc'[q] \notin {"pin", "lock"}
                         => lock'[LockDir[job'[q].cmd]] = q
    BY <1>2, <2>1
  <2> QED
    BY <1>1, <1>2, <2>2 DEF TypeOK
<1>6. Knows(r)'
  <2>1. Untouched(r)'
    BY <1>2, <1>4 DEF Untouched
  <2>2. r \in stale /\ pc[r] # "pin" => r \in stale'
    BY <1>2, <1>3 DEF Observe
  <2>3. r \notin stale' /\ l # "pin" => Decided(job'[r], disk')
    BY <1>2, <2>2
  <2>4. l # "pin" => Planned(r)' \subseteq Written(r)'
    BY <1>2 DEF Planned
  <2>5. l \in Deciding => l # "pin"
    BY DEF Deciding
  <2> QED
    BY <1>2, <1>3, <2>1, <2>3, <2>4, <2>5 DEF Knows, Live
<1>7. Alone(r) => Recoverable(r)'
  BY <1>4 DEF Recoverable, Nothing
<1>8. CoherentBefore'
  <2>1. ~Writing(r) /\ ~Writing(r)'
    BY <1>2, <1>3 DEF Writing
  <2> QED
    BY <2>1, CoherentKept
<1> QED
  BY <1>5, <1>6, <1>7, <1>8, StepKeeps

LEMMA StartPreserves ==
    ASSUME PublishInv, NEW r \in Run, StepOf(r), Observe, Start(r)
    PROVE  PublishInv'
<1>1. TypeOK /\ Knows(r) /\ pc[r] = "idle"
  BY DEF PublishInv, Start
<1>2. PICK cmd \in Command, rotate \in BOOLEAN, c \in CA :
         job' = [job EXCEPT ![r] = [NoJob EXCEPT !.cmd = cmd, !.rotate = rotate, !.ca = c]]
  BY DEF Start
<1> DEFINE j == [NoJob EXCEPT !.cmd = cmd, !.rotate = rotate, !.ca = c]
<1>3. cmd \in {"init", "renew", "sign"}
  BY CertPublishAssumption
<1>4. NoJob \in Job
  BY CertPublishAssumption DEF NoJob, Job, Plan
<1>5. /\ j \in Job /\ j.cmd # "none" /\ j.ca \in CA
      /\ j.published = {} /\ j.backups = {} /\ j.torn = 0 /\ j.at = 1
  BY <1>3, CertPublishAssumption DEF NoJob, Job, Plan
<1> HIDE DEF j
<1>6. /\ UNCHANGED <<disk, bak, clock, before>> /\ lock' = lock
      /\ Goto(r, "pin")
  BY DEF Start, files
<1>7. lock' \in [Dir -> Run \cup {Nobody}]
  BY <1>1, <1>6 DEF TypeOK
<1>8. job' = [job EXCEPT ![r] = j]
  BY <1>2 DEF j
<1>9. "pin" \in Preparing
  BY DEF Preparing
<1> QED
  BY <1>1, <1>5, <1>6, <1>7, <1>8, <1>9, PrepareStep

(***************************************************************************)
(* What is known of an execution that runs and has not begun to publish.   *)
(***************************************************************************)
LEMMA PreparerKnows ==
    ASSUME PublishInv, NEW r \in Run, pc[r] \in Preparing
    PROVE  /\ Live(r) /\ Untouched(r) /\ TypeOK
           /\ job[r] \in Job /\ job[r].ca \in CA
           /\ job[r].cmd \in {"init", "renew", "sign"}
           /\ pc[r] # "pin" => job[r].plan # <<>> /\ Planned(r) \subseteq Written(r)
           /\ pc[r] \notin {"pin"} /\ r \notin stale => Decided(job[r], disk)
           /\ pc[r] \notin {"pin", "lock"} => lock[LockDir[job[r].cmd]] = r
<1>1. Live(r)
  BY DEF Live, Preparing, Ended
<1>2. TypeOK /\ Knows(r)
  BY DEF PublishInv
<1> QED
  BY <1>1, <1>2 DEF TypeOK, Knows, Preparing, Deciding, Job

LEMMA PinPreserves ==
    ASSUME PublishInv, NEW r \in Run, StepOf(r), Observe, Pin(r)
    PROVE  PublishInv'
<1>1. pc[r] = "pin" /\ pc[r] \in Preparing /\ pc[r] \notin Publishing
  BY DEF Pin, Preparing, Publishing
<1>2. /\ Live(r) /\ Untouched(r) /\ TypeOK
      /\ job[r] \in Job /\ job[r].ca \in CA
      /\ job[r].cmd \in {"init", "renew", "sign"}
  BY <1>1, PreparerKnows
<1>3. UNCHANGED <<disk, bak, clock, before>>
  BY DEF Pin, files
<1>4. CASE End(r, "failed")
  BY <1>1, <1>2, <1>3, <1>4, EndPreserves
<1>5. CASE \E force, initca \in BOOLEAN :
           /\ ~Refuses(r, force, initca) /\ UNCHANGED lock /\ Goto(r, "lock")
           /\ job' = [job EXCEPT ![r].plan = PlanOf(r)]
  <2> DEFINE j == [job[r] EXCEPT !.plan = PlanOf(r)]
  <2>1. Written(r)' = Written(r) /\ Planned(r)' = {j.plan[n] : n \in 1..Len(j.plan)}
    BY <1>2, <1>5 DEF Written, Planned, TypeOK, Job
  <2>2. {j.plan[n] : n \in 1..Len(j.plan)} \subseteq Written(r)'
    <3>1. j.plan = PlanOf(r)
      BY <1>2 DEF Job
    <3>2. CASE job[r].cmd = "init"
      BY <2>1, <3>1, <3>2 DEF PlanOf, Written, InitPlan, File
    <3>3. CASE job[r].cmd = "renew" /\ PlanOf(r) = RenewPlan
      BY <2>1, <3>1, <3>3 DEF Written, RenewPlan, File
    <3>4. CASE job[r].cmd = "renew" /\ PlanOf(r) # RenewPlan
      <4>1. j.plan = Append(RenewPlan, "ca")
        BY <3>1, <3>4 DEF PlanOf
      <4>2. PICK p : p = Append(RenewPlan, "ca")
        OBVIOUS
      <4>3. Len(p) = 3 /\ p[1] = "server" /\ p[2] = "server_key" /\ p[3] = "ca"
        BY <4>2, RotationPlan
      <4>4. 1..3 = {1, 2, 3}
        OBVIOUS
      <4>5. Written(r)' = File \ {"signed"}
        BY <2>1, <3>4 DEF Written
      <4> QED
        BY <4>1, <4>2, <4>3, <4>4, <4>5 DEF File
    <3>5. CASE job[r].cmd = "sign"
      BY <2>1, <3>1, <3>5 DEF PlanOf, Written, SignPlan
    <3> QED
      BY <1>2, <3>2, <3>3, <3>4, <3>5
  <2>3. PlanOf(r) \in Plan /\ PlanOf(r) # <<>>
    <3>1. InitPlan # <<>> /\ RenewPlan # <<>> /\ SignPlan # <<>>
      BY DEF InitPlan, RenewPlan, SignPlan
    <3>2. Append(RenewPlan, "ca") # <<>>
      <4>1. PICK p : p = Append(RenewPlan, "ca")
        OBVIOUS
      <4>2. Len(p) = 3
        BY <4>1, RotationPlan
      <4> QED
        BY <4>1, <4>2
    <3> QED
      BY <1>2, <3>1, <3>2 DEF PlanOf, Plan
  <2>4. Decided(j, disk)
    <3>1. CASE job[r].cmd = "init"
      <4>1. ~job[r].rotate => \A f \in CaFile : ~Differs(r, f)
        BY <1>5, <3>1 DEF Refuses, InitRefuses
      <4>2. PlanOf(r) = InitPlan
        BY <3>1 DEF PlanOf
      <4> QED
        BY <1>2, <3>1, <4>1, <4>2 DEF Decided, Foreign, Differs, Job
    <3>2. CASE job[r].cmd = "renew"
      <4>1. ~job[r].rotate => ~Differs(r, "ca")
        BY <1>5, <3>2 DEF Refuses, RenewRefuses
      <4>2. PlanOf(r) = IF disk["ca"] = Absent \/ Differs(r, "ca")
                        THEN Append(RenewPlan, "ca") ELSE RenewPlan
        BY <3>2 DEF PlanOf
      <4> QED
        BY <1>2, <3>2, <4>1, <4>2 DEF Decided, Foreign, Differs, Job
    <3>3. CASE job[r].cmd = "sign"
      BY <1>2, <3>3 DEF Decided, PlanOf, Job
    <3> QED
      BY <1>2, <3>1, <3>2, <3>3
  <2>5. /\ j \in Job /\ j.cmd # "none" /\ j.ca \in CA /\ j.plan # <<>>
        /\ j.published = {} /\ j.backups = {} /\ j.torn = 0 /\ j.at = 1
    BY <1>2, <2>3 DEF Untouched, Job
  <2>6. lock' \in [Dir -> Run \cup {Nobody}] /\ lock' = lock
    BY <1>2, <1>5 DEF TypeOK
  <2>7. "lock" \in Preparing
    BY DEF Preparing
  <2>8. job' = [job EXCEPT ![r] = j]
    BY <1>5
  <2>9. j.cmd = job[r].cmd
    BY <1>2 DEF Job
  <2> HIDE DEF j
  <2> QED
    BY <1>1, <1>2, <1>3, <1>5, <2>4, <2>5, <2>6, <2>7, <2>8, <2>2, <2>9, PrepareStep
<1> QED
  BY <1>4, <1>5 DEF Pin

LEMMA LockPreserves ==
    ASSUME PublishInv, NEW r \in Run, StepOf(r), Observe, Lock(r)
    PROVE  PublishInv'
<1> DEFINE d == LockDir[job[r].cmd]
<1>1. pc[r] = "lock" /\ pc[r] \in Preparing /\ pc[r] \notin Publishing
  BY DEF Lock, Preparing, Publishing
<1>2. /\ Live(r) /\ Untouched(r) /\ TypeOK
      /\ job[r] \in Job /\ job[r].ca \in CA
      /\ job[r].cmd \in {"init", "renew", "sign"} /\ job[r].plan # <<>>
      /\ Planned(r) \subseteq Written(r)
      /\ r \notin stale => Decided(job[r], disk)
  BY <1>1, PreparerKnows
<1>3. UNCHANGED <<disk, bak, clock, before>>
  BY DEF Lock, files
<1>4. CASE End(r, "failed")
  BY <1>1, <1>2, <1>3, <1>4, EndPreserves
<1>5. CASE /\ lock[d] = Nobody /\ lock' = [lock EXCEPT ![d] = r]
           /\ Goto(r, "stage") /\ UNCHANGED job
  <2>1. d \in Dir
    BY <1>2 DEF LockDir, Dir
  <2>2. /\ lock' \in [Dir -> Run \cup {Nobody}] /\ lock'[d] = r
        /\ \A e \in Dir : lock[e] # Nobody => lock'[e] = lock[e]
    BY <1>2, <1>5, <2>1 DEF TypeOK
  <2>3. "stage" \in Preparing /\ job' = [job EXCEPT ![r] = job[r]]
    BY <1>2, <1>5 DEF Preparing, TypeOK
  <2>4. /\ {job[r].plan[n] : n \in 1..Len(job[r].plan)} \subseteq Written(r)'
        /\ pc[r] # "pin"
    BY <1>1, <1>2, <1>5 DEF Planned, Written
  <2>5. /\ job[r].cmd # "none" /\ job[r].published = {} /\ job[r].backups = {}
        /\ job[r].torn = 0 /\ job[r].at = 1
    BY <1>2 DEF Untouched
  <2> QED
    BY <1>1, <1>2, <1>3, <1>5, <2>2, <2>3, <2>5, <2>4, PrepareStep
<1> QED
  BY <1>4, <1>5 DEF Lock

LEMMA StagePreserves ==
    ASSUME PublishInv, NEW r \in Run, StepOf(r), Observe, Stage(r)
    PROVE  PublishInv'
<1>1. pc[r] = "stage" /\ pc[r] \in Preparing /\ pc[r] \notin Publishing
  BY DEF Stage, Preparing, Publishing
<1>2. /\ Live(r) /\ Untouched(r) /\ TypeOK
      /\ job[r] \in Job /\ job[r].ca \in CA
      /\ job[r].cmd \in {"init", "renew", "sign"} /\ job[r].plan # <<>>
      /\ Planned(r) \subseteq Written(r)
      /\ r \notin stale => Decided(job[r], disk)
      /\ lock[LockDir[job[r].cmd]] = r
  BY <1>1, PreparerKnows
<1>3. UNCHANGED <<disk, bak, clock, before>>
  BY DEF Stage, files
<1>4. CASE End(r, "failed")
  BY <1>1, <1>2, <1>3, <1>4, EndPreserves
<1>5. CASE Goto(r, "confirm") /\ UNCHANGED <<lock, job>>
  <2>1. lock' \in [Dir -> Run \cup {Nobody}] /\ lock' = lock
    BY <1>2, <1>5 DEF TypeOK
  <2>2. "confirm" \in Preparing /\ job' = [job EXCEPT ![r] = job[r]]
    BY <1>2, <1>5 DEF Preparing, TypeOK
  <2>3. /\ {job[r].plan[n] : n \in 1..Len(job[r].plan)} \subseteq Written(r)'
        /\ pc[r] # "pin"
    BY <1>1, <1>2, <1>5 DEF Planned, Written
  <2>4. /\ job[r].cmd # "none" /\ job[r].published = {} /\ job[r].backups = {}
        /\ job[r].torn = 0 /\ job[r].at = 1
    BY <1>2 DEF Untouched
  <2> QED
    BY <1>1, <1>2, <1>3, <1>5, <2>1, <2>2, <2>4, <2>3, PrepareStep
<1> QED
  BY <1>4, <1>5 DEF Stage

LEMMA ConfirmPreserves ==
    ASSUME PublishInv, NEW r \in Run, StepOf(r), Observe, Confirm(r)
    PROVE  PublishInv'
<1> DEFINE j == [job[r] EXCEPT !.stamp = clock']
<1>1. pc[r] = "confirm" /\ pc[r] \in Preparing
  BY DEF Confirm, Preparing
<1>2. /\ Live(r) /\ Untouched(r) /\ TypeOK
      /\ job[r] \in Job /\ job[r].ca \in CA
      /\ job[r].cmd \in {"init", "renew", "sign"} /\ job[r].plan # <<>>
      /\ Planned(r) \subseteq Written(r)
      /\ r \notin stale => Decided(job[r], disk)
      /\ lock[LockDir[job[r].cmd]] = r
  BY <1>1, PreparerKnows
<1>3. /\ clock' \in Stamp
      /\ job' = [job EXCEPT ![r] = j]
      /\ Goto(r, "backup") /\ UNCHANGED <<disk, bak, lock>>
  BY DEF Confirm, files
<1>4. /\ j \in Job /\ j.cmd = job[r].cmd /\ j.ca = job[r].ca
      /\ j.plan = job[r].plan /\ j.rotate = job[r].rotate
      /\ j.published = {} /\ j.backups = {} /\ j.torn = 0 /\ j.at = 1
  BY <1>2, <1>3 DEF Untouched, Job
<1> HIDE DEF j
<1>5. /\ pc' \in [Run -> {"idle"} \cup Preparing \cup Publishing \cup Ended]
      /\ pc'[r] = "backup" /\ \A q \in Run \ {r} : pc'[q] = pc[q]
      /\ job' \in [Run -> Job] /\ job'[r] = j
      /\ \A q \in Run \ {r} : job'[q] = job[q]
  BY <1>2, <1>3, <1>4 DEF TypeOK, Goto, Publishing
<1>6. before'[r] = disk
  BY DEF Confirm
<1>7. TypeOK'
  <2>1. \A q \in Run : Live(q)' /\ pc'[q] \notin {"pin", "lock"}
                         => lock[LockDir[job'[q].cmd]] = q
    BY <1>2, <1>4, <1>5 DEF TypeOK, Live
  <2>2. before' \in [Run -> [File -> Contents]]
    BY <1>2 DEF Confirm, TypeOK, Nothing, Contents
  <2>3. \A f \in CaFile : \A q \in Run :
            before'[q][f] # Absent => before'[q][f].by = "cln"
    <3>1. \A q \in Run : before'[q] \in {disk, before[q], Nothing}
      BY DEF Confirm
    <3>2. CaFile \subseteq File
      BY DEF CaFile, File
    <3> QED
      BY <1>2, <3>1, <3>2 DEF TypeOK, Nothing
  <2> QED
    BY <1>2, <1>3, <1>5, <2>1, <2>2, <2>3 DEF TypeOK
<1>8. Lists(r)'
  <2>1. 1 \in 1..Len(j.plan) /\ Len(j.plan) \in Nat
    BY <1>2, <1>4, Plans DEF Job
  <2> QED
    BY <1>4, <1>5, <2>1 DEF Lists, Planned
<1>9. Progress(r)'
  <2>1. Written(r)' \subseteq File
    BY DEF Written, File
  <2> QED
    BY <1>3, <1>4, <1>5, <1>6, <2>1 DEF Progress, Moved
<1>10. Knows(r)'
  <2>1. r \notin stale' => Decided(j, disk)
    <3>1. r \in stale => r \in stale'
      BY <1>5 DEF Observe, Ended
    <3>2. Decided(job[r], disk) => Decided(j, disk)
      BY <1>4 DEF Decided
    <3> QED
      BY <1>2, <3>1, <3>2
  <2>2. Planned(r)' \subseteq Written(r)'
    <3>1. Planned(r)' = Planned(r) /\ Written(r)' = Written(r)
      BY <1>4, <1>5 DEF Planned, Written
    <3> QED
      BY <1>2, <3>1
  <2> QED
    BY <1>2, <1>4, <1>5, <1>6, <1>8, <1>9, <2>1, <2>2
    DEF Knows, Live, Deciding, Preparing, Publishing, Ended
<1>11. Recoverable(r)'
  BY <1>3, <1>6 DEF Recoverable
<1>12. CoherentBefore'
  <2>1. pc[r] \notin Publishing /\ pc'[r] \in Publishing /\ ~Writing(r)
    BY <1>1, <1>5 DEF Publishing, Writing
  <2>2. CASE ~Writing(r)'
    BY <2>1, <2>2, CoherentKept
  <2>3. CASE Writing(r)'
    <3> SUFFICES ASSUME Orderly'
                 PROVE  \A q \in Run : Writing(q)' => CoherentIn(before'[q])
      BY <2>3 DEF CoherentBefore, CoherentIn
    <3>1. Orderly
      BY OrderlyBefore
    <3>2. ASSUME NEW q \in Run \ {r}, Writing(q)' PROVE FALSE
      <4>1. Rivals(q, r)' /\ pc'[q] \in Publishing
        BY <2>3, <3>2 DEF Rivals, Writing
      <4>2. r \in mixed'
        BY <2>1, <4>1 DEF Observe, Rivaled
      <4> QED
        BY <4>2 DEF Orderly
    <3>3. \A q \in Run : ~Writing(q)
      BY <1>5, <2>1, <3>2 DEF Writing
    <3>4. CoherentIn(disk)
      BY <3>1, <3>3 DEF PublishInv, CoherentBefore, Coherent
    <3> QED
      BY <1>6, <3>2, <3>4
  <2> QED
    BY <2>2, <2>3
<1> QED
  BY <1>7, <1>10, <1>11, <1>12, StepKeeps

(***************************************************************************)
(* A rollback that says it succeeded has put every file back.              *)
(***************************************************************************)
LEMMA RolledBackRestores ==
    ASSUME PublishInv, NEW r \in Run \ mixed, RolledBack(r), job[r].torn = 0
    PROVE  (\A f \in Written(r) : disk[f] = before[r][f]) /\ UNCHANGED disk
<1>1. pc[r] \in Publishing
  BY DEF RolledBack, Publishing
<1>2. Progress(r)
  BY <1>1, PublisherKnows
<1> QED
  BY <1>2 DEF Progress, RolledBack, files

(***************************************************************************)
(* Every step keeps the invariant.                                         *)
(***************************************************************************)
LEMMA StepInv ==
    ASSUME PublishInv, [Next]_vars
    PROVE  PublishInv'
<1>1. CASE UNCHANGED vars
  <2>1. TypeOK' /\ ObservedExact' /\ NothingLost' /\ CoherentBefore'
    BY <1>1 DEF vars, observed, files, PublishInv, TypeOK, ObservedExact, Rivaled, Rivals,
      NothingLost, Alone, Recoverable, CoherentBefore, Orderly, Writing, Coherent,
      CoherentIn, Live
  <2>2. ASSUME NEW r \in Run PROVE Knows(r)'
    <3>1. Knows(r)
      BY DEF PublishInv
    <3>2. Live(r)' = Live(r) /\ Untouched(r)' = Untouched(r)
      BY <1>1 DEF vars, Live, Untouched
    <3>3. /\ Lists(r)' = Lists(r)
          /\ Planned(r)' = Planned(r) /\ Written(r)' = Written(r)
      BY <1>1 DEF vars, Lists, Planned, Written
    <3>4. Progress(r) => Progress(r)'
      BY <1>1, <3>3 DEF vars, files, Progress, Moved, Target
    <3> QED
      BY <1>1, <3>1, <3>2, <3>3, <3>4 DEF vars, files, observed, Knows
  <2> QED
    BY <2>1, <2>2 DEF PublishInv
<1>2. ASSUME NEW r \in Run, Execute(r), Observe PROVE PublishInv'
  <2> USE <1>2
  <2> StepOf(r)
    BY ExecuteIsStep
  <2>1. CASE Start(r)
    BY <2>1, StartPreserves
  <2>2. CASE Pin(r)
    BY <2>2, PinPreserves
  <2>3. CASE Lock(r)
    BY <2>3, LockPreserves
  <2>4. CASE Stage(r)
    BY <2>4, StagePreserves
  <2>5. CASE Confirm(r)
    BY <2>5, ConfirmPreserves
  <2>6. CASE GiveUp(r)
    BY <2>6, EndPreserves DEF GiveUp, files
  <2>7. CASE Publish(r)
    <3>1. CASE Backup(r)
      BY <3>1, BackupPreserves
    <3>2. CASE Place(r)
      BY <3>2, PlaceNextPreserves, PlaceLastPreserves
    <3>3. CASE RenameFails(r)
      BY <3>3, RenameFailsPreserves
    <3>4. CASE Undo(r)
      BY <3>4, UndoPreserves
    <3>5. CASE Restore(r)
      BY <3>5, RestorePreserves
    <3>6. CASE RolledBack(r)
      <4>1. pc[r] \in Publishing
        BY <3>6 DEF RolledBack, Publishing
      <4>2. Live(r) /\ job[r].torn \in Nat
        BY <4>1, PublisherKnows DEF Job
      <4>3. UNCHANGED <<disk, bak, clock, before>>
        BY <3>6 DEF RolledBack, files
      <4>4. CASE job[r].torn = 0
        <5>1. End(r, "failed")
          BY <3>6, <4>4 DEF RolledBack
        <5>2. r \notin mixed => \A f \in Written(r) : disk[f] = before[r][f]
          BY <3>6, <4>4, RolledBackRestores
        <5> QED
          BY <4>2, <4>3, <5>1, <5>2, EndPreserves
      <4>5. CASE job[r].torn # 0
        <5>1. End(r, "torn")
          BY <3>6, <4>2, <4>5 DEF RolledBack
        <5> QED
          BY <4>2, <4>3, <5>1, EndPreserves
      <4> QED
        BY <4>4, <4>5
    <3> QED
      BY <2>7, <3>1, <3>2, <3>3, <3>4, <3>5, <3>6 DEF Publish
  <2>8. CASE Crash(r)
    BY <2>8, EndPreserves DEF Crash, files, Live, Publishing, Ended
  <2> QED
    BY <2>1, <2>2, <2>3, <2>4, <2>5, <2>6, <2>7, <2>8 DEF Execute
<1> QED
  BY <1>1, <1>2 DEF Next

-----------------------------------------------------------------------------
(***************************************************************************)
(* The invariant of publish_files and rollback: whoever publishes holds    *)
(* the lock of its directory, each file is where the lists of the command  *)
(* say unless a rival publishes too, no old content is lost while only one *)
(* has published, and orderly executions leave what belongs together.      *)
(***************************************************************************)
THEOREM Invariance == Spec => []PublishInv
<1>1. PublishInv /\ [Next]_vars => PublishInv'
  BY StepInv
<1> QED
  BY InitInv, <1>1, PTL DEF Spec

(***************************************************************************)
(* publish_files and rollback lose nothing that was installed, wherever    *)
(* they are cut short: the old content of each file is in place or in a    *)
(* backup.                                                                 *)
(***************************************************************************)
THEOREM OldFilesRecoverable == Spec => []NothingLost
<1>1. PublishInv => NothingLost
  BY DEF PublishInv
<1> QED
  BY <1>1, Invariance, PTL

(***************************************************************************)
(* Whatever executions run beside each other, what init and renew leave    *)
(* belongs together, unless one acted on what it saw before another        *)
(* published, two published at once, or one died or could not roll back.   *)
(***************************************************************************)
THEOREM InstalledMatch == Spec => []OrderlyMeansCoherent
<1>1. PublishInv => OrderlyMeansCoherent
  BY DEF PublishInv, CoherentBefore, OrderlyMeansCoherent
<1> QED
  BY <1>1, Invariance, PTL

(***************************************************************************)
(* A label that changes is that of the execution that moves.               *)
(***************************************************************************)
LEMMA MoverMoves ==
    ASSUME PublishInv, [Next]_vars, NEW r \in Run, pc'[r] # pc[r]
    PROVE  Execute(r) /\ StepOf(r) /\ Observe
<1>1. PICK q \in Run : Execute(q) /\ Observe
  BY DEF Next, vars
<1>2. StepOf(q)
  BY <1>1, ExecuteIsStep
<1>3. q = r
  BY <1>2 DEF StepOf, Still
<1> QED
  BY <1>1, <1>2, <1>3

(***************************************************************************)
(* A command that fails while publish_files runs leaves every file of its  *)
(* plan as it found it, unless its rollback could not undo everything or   *)
(* another command published the same files at once.                       *)
(***************************************************************************)
THEOREM FailureUndone == Spec => FailureRestores
<1> DEFINE Undone == \A r \in Run \ mixed :
               pc[r] = "rollback" /\ pc'[r] = "failed" =>
                  \A f \in Planned(r) : disk'[f] = before[r][f]
<1>1. ASSUME PublishInv, [Next]_vars PROVE Undone
  <2> SUFFICES ASSUME NEW r \in Run \ mixed, pc[r] = "rollback", pc'[r] = "failed"
               PROVE  \A f \in Planned(r) : disk'[f] = before[r][f]
    OBVIOUS
  <2>1. pc \in [Run -> {"idle"} \cup Preparing \cup Publishing \cup Ended]
    BY <1>1 DEF PublishInv, TypeOK
  <2>2. Execute(r)
    BY <1>1, MoverMoves
  <2>3. pc[r] \in Publishing
    BY DEF Publishing
  <2>4. RolledBack(r) /\ job[r].torn = 0
    <3>1. RolledBack(r)
      BY <2>1, <2>2, <2>3 DEF Execute, Publish, Start, Pin, Lock, Stage,
        Confirm, GiveUp, Backup, Place, RenameFails, Undo, Restore, Crash, End, Goto
    <3>2. job[r].torn \in Nat
      BY <1>1, <2>3, PublisherKnows DEF Job
    <3> QED
      BY <2>1, <3>1, <3>2 DEF RolledBack, End, Goto
  <2>5. Planned(r) \subseteq Written(r)
    BY <1>1, <2>3, PublisherKnows
  <2> QED
    BY <1>1, <2>4, <2>5, RolledBackRestores
<1>2. PublishInv /\ [Next]_vars => [Undone]_vars
  BY <1>1
<1> QED
  BY <1>2, Invariance, PTL DEF Spec, FailureRestores

(***************************************************************************)
(* One that succeeds without --rotate-ca leaves each CA that it may        *)
(* replace and found installed in place, unless it decided on what another *)
(* has replaced since, or another published the same files at once.        *)
(***************************************************************************)
THEOREM AnchorsStay == Spec => TrustAnchorPinned
<1> DEFINE Pinned == \A r \in Run \ (stale \cup mixed) :
               pc[r] = "place" /\ pc'[r] = "done" /\ ~job[r].rotate =>
                  \A f \in CaFile \cap Written(r) :
                      before[r][f] # Absent => disk'[f] = before[r][f]
<1>1. ASSUME PublishInv, [Next]_vars PROVE Pinned
  <2> SUFFICES ASSUME NEW r \in Run \ (stale \cup mixed), pc[r] = "place", pc'[r] = "done",
                      ~job[r].rotate, NEW f \in CaFile \cap Written(r), before[r][f] # Absent
               PROVE  disk'[f] = before[r][f]
    OBVIOUS
  <2>1. pc \in [Run -> {"idle"} \cup Preparing \cup Publishing \cup Ended]
    BY <1>1 DEF PublishInv, TypeOK
  <2>2. Execute(r)
    BY <1>1, MoverMoves
  <2>3. Place(r) /\ job[r].at = Len(job[r].plan)
    <3>1. Place(r)
      BY <2>1, <2>2 DEF Execute, Publish, Start, Pin, Lock, Stage, Confirm,
        GiveUp, Backup, RenameFails, Undo, Restore, RolledBack, Crash, End, Goto,
        Publishing
    <3> QED
      BY <2>1, <3>1 DEF Place, Goto
  <2>4. /\ job[r] \in Job /\ job[r].cmd # "none" /\ job[r].ca \in CA
        /\ Decided(job[r], before[r])
    BY <1>1, <2>3, PublisherKnows DEF Publishing
  <2>5. job[r].cmd # "sign"
    BY DEF Written, CaFile
  <2>6. f \in File
    BY DEF CaFile, File
  <2>7. disk'[f] = IF f \in Planned(r) THEN Content(f, job[r].ca, r)
                   ELSE before[r][f]
    BY <1>1, <2>3, AllPlaced
  <2>8. CASE f \in Planned(r)
    <3>1. before[r][f].ca = job[r].ca
      <4>1. CASE job[r].cmd = "init"
        BY <2>4, <4>1 DEF Decided, Foreign
      <4>2. CASE job[r].cmd = "renew"
        <5>1. ~Foreign(before[r], "ca", job[r].ca)
          BY <2>4, <4>2 DEF Decided
        <5>2. job[r].plan = IF before[r]["ca"] = Absent
                            THEN Append(RenewPlan, "ca") ELSE RenewPlan
          BY <2>4, <4>2, <5>1 DEF Decided
        <5>3. f = "ca"
          <6>1. job[r].plan = RenewPlan => FALSE
            BY <2>8 DEF Planned, RenewPlan, CaFile
          <6>2. PICK p : p = Append(RenewPlan, "ca")
            OBVIOUS
          <6>3. Len(p) = 3 /\ p[1] = "server" /\ p[2] = "server_key" /\ p[3] = "ca"
            BY <6>2, RotationPlan
          <6> QED
            BY <2>8, <5>2, <6>1, <6>2, <6>3 DEF Planned, CaFile
        <5> QED
          BY <5>1, <5>3 DEF Foreign
      <4> QED
        BY <2>4, <2>5, <4>1, <4>2 DEF Job
    <3>2. before[r][f] \in [ca : CA, by : Run \cup {Before, "cln"}]
      BY <1>1, <2>6 DEF PublishInv, TypeOK, Contents
    <3>3. before[r][f].by = "cln"
      BY <1>1 DEF PublishInv, TypeOK
    <3> QED
      BY <2>7, <2>8, <3>1, <3>2, <3>3 DEF Content
  <2>9. CASE f \notin Planned(r)
    BY <2>7, <2>9
  <2> QED
    BY <2>8, <2>9
<1>2. PublishInv /\ [Next]_vars => [Pinned]_vars
  BY <1>1
<1> QED
  BY <1>2, Invariance, PTL DEF Spec, TrustAnchorPinned

-----------------------------------------------------------------------------
(* Publication is atomic.                                                  *)

\* What is seen of a file is what its keeper found, or what is there.
SeenTyped == Seen \in [File -> Contents]
SeenByKeeper ==
    \A f \in File : \A r \in Keepers(f) : Seen[f] = before[r][f]
SeenOnDisk ==
    \A f \in File : Keepers(f) = {} => Seen[f] = disk[f]

LEMMA SeenIs == PublishInv => SeenTyped /\ SeenByKeeper /\ SeenOnDisk
<1> SUFFICES ASSUME PublishInv PROVE SeenTyped /\ SeenByKeeper /\ SeenOnDisk
  OBVIOUS
<1>1. disk \in [File -> Contents] /\ before \in [Run -> [File -> Contents]]
  BY DEF PublishInv, TypeOK
<1>2. ASSUME NEW f \in File, NEW q \in Keepers(f), NEW r \in Keepers(f)
      PROVE  q = r
  <2> SUFFICES ASSUME q # r PROVE FALSE
    OBVIOUS
  <2>1. /\ q \in Run \ mixed /\ r \in Run \ mixed
        /\ pc[q] \in Publishing /\ pc[r] \in Publishing
        /\ f \in Written(q) \cap Written(r)
    BY DEF Keepers
  <2>2. Rivals(q, r)
    BY <2>1, RivalsOrApart
  <2> QED
    BY <2>1, <2>2, RivalsAreMixed
<1>3. ASSUME NEW f \in File, NEW r \in Keepers(f)
      PROVE  Seen[f] = before[r][f]
  <2>1. (CHOOSE q \in Keepers(f) : TRUE) = r
    BY <1>2
  <2> QED
    BY <2>1 DEF Seen
<1>4. \A f \in File : Keepers(f) \subseteq Run
  BY DEF Keepers
<1>5. \A f \in File : Seen[f] \in Contents
  BY <1>1, <1>3, <1>4 DEF Seen
<1>6. SeenTyped
  BY <1>5 DEF SeenTyped, Seen
<1> QED
  BY <1>3, <1>6 DEF SeenByKeeper, SeenOnDisk, Seen

LEMMA SeenIsNext == PublishInv' => SeenTyped' /\ SeenByKeeper' /\ SeenOnDisk'
BY SeenIs, PTL

(***************************************************************************)
(* Executions are observed to be mixed when one of them begins to publish. *)
(***************************************************************************)
LEMMA MixedAtConfirm ==
    ASSUME PublishInv, NEW r \in Run, StepOf(r), Observe, NEW q \in mixed' \ mixed
    PROVE  /\ pc[r] \notin Publishing /\ pc'[r] \in Publishing /\ r \in mixed'
           /\ q # r => Rivals(q, r)' /\ pc[q] \in Publishing
<1>1. q \in Run /\ pc'[q] \in Publishing /\ Rivaled(q)'
  BY DEF Observe
<1>2. PICK p \in Run : Rivals(p, q)' /\ pc'[p] \in Publishing
  BY <1>1 DEF Rivaled
<1>3. ~(pc[p] \in Publishing /\ pc[q] \in Publishing)
  <2> SUFFICES ASSUME pc[p] \in Publishing, pc[q] \in Publishing PROVE FALSE
    OBVIOUS
  <2>1. job'[p].cmd = job[p].cmd /\ job'[q].cmd = job[q].cmd
    BY <1>1, <1>2 DEF StepOf, Still
  <2>2. Rivals(p, q)
    BY <1>2, <2>1 DEF Rivals
  <2> QED
    BY <1>1, <2>2, RivalsAreMixed
<1>4. \A x \in Run \ {r} : pc[x] = pc'[x]
  BY DEF StepOf, Still
<1>5. r \in {p, q} /\ p # q /\ pc[r] \notin Publishing /\ pc'[r] \in Publishing
  BY <1>1, <1>2, <1>3, <1>4 DEF Rivals
<1>6. Rivals(q, p)'
  BY <1>2 DEF Rivals
<1>7. p \in mixed'
  BY <1>1, <1>2, <1>6 DEF Observe, Rivaled
<1> QED
  BY <1>1, <1>4, <1>5, <1>6, <1>7

LEMMA UnmixedStep ==
    ASSUME PublishInv, NEW r \in Run, StepOf(r), Observe,
           r \notin mixed' \/ pc[r] \in Publishing
    PROVE  mixed' = mixed
  BY MixedAtConfirm DEF Observe

(***************************************************************************)
(* The outcome of an execution changes when it moves or gets mixed.        *)
(***************************************************************************)
LEMMA OutcomeKept ==
    ASSUME NEW r \in Run, StepOf(r), Observe, NEW q \in Run \ {r}, q \notin mixed' \ mixed
    PROVE  Outcome(q)' = Outcome(q)
<1>1. pc'[q] = pc[q] /\ (q \in mixed' <=> q \in mixed)
  BY DEF StepOf, Still, Observe
<1> QED
  BY <1>1 DEF Outcome

(***************************************************************************)
(* What is seen of a file changes only by its keeper, or when it moves.    *)
(***************************************************************************)
LEMMA SeenElsewhere ==
    ASSUME PublishInv, PublishInv', NEW r \in Run, StepOf(r), Observe, NEW f \in File,
           r \notin Keepers(f), r \notin Keepers(f)', \A q \in mixed' \ mixed : q \notin Keepers(f),
           disk'[f] = disk[f]
    PROVE  Seen'[f] = Seen[f]
<1>1. /\ SeenByKeeper /\ SeenOnDisk
      /\ SeenByKeeper' /\ SeenOnDisk'
  BY SeenIs, SeenIsNext
<1>2. ASSUME NEW q \in Run \ {r} PROVE q \in Keepers(f)' <=> q \in Keepers(f)
  <2>1. pc'[q] = pc[q] /\ Written(q)' = Written(q)
    BY DEF StepOf, Still, Written
  <2>2. q \notin mixed' => q \notin mixed
    BY DEF Observe
  <2> QED
    BY <2>1, <2>2 DEF Keepers
<1>3. Keepers(f) \subseteq Run \ {r} /\ Keepers(f)' \subseteq Run \ {r}
  BY DEF Keepers
<1>4. CASE Keepers(f) = {}
  BY <1>1, <1>2, <1>3, <1>4 DEF SeenOnDisk
<1>5. ASSUME NEW q \in Keepers(f) PROVE Seen'[f] = Seen[f]
  <2>1. q \in Keepers(f)' /\ before'[q] = before[q]
    BY <1>2, <1>3, <1>5 DEF StepOf, Still, Keepers
  <2> QED
    BY <1>1, <1>5, <2>1 DEF SeenByKeeper
<1> QED
  BY <1>4, <1>5

(***************************************************************************)
(* While an execution publishes without a rival, it alone keeps its files. *)
(***************************************************************************)
LEMMA OnlyKeeper ==
    ASSUME PublishInv, NEW r \in Run, pc[r] \in Publishing, NEW f \in Written(r),
           NEW q \in Keepers(f)
    PROVE  q = r
<1> SUFFICES ASSUME q # r PROVE FALSE
  OBVIOUS
<1>1. q \in Run \ mixed /\ pc[q] \in Publishing /\ f \in Written(q)
  BY DEF Keepers
<1>2. Rivals(q, r)
  BY <1>1, RivalsOrApart
<1> QED
  BY <1>1, <1>2, RivalsAreMixed

(***************************************************************************)
(* Halfway, each file of the plan is old, missing or new, also when steps  *)
(* of the rollback fail; the other files are as they were.                 *)
(***************************************************************************)
Midway(r) ==
    \A f \in Written(r) :
        disk[f] \in IF f \in Planned(r)
                    THEN {before[r][f], Absent, Content(f, job[r].ca, r)}
                    ELSE {before[r][f]}

Between == \A r \in Run \ mixed : pc[r] \in Publishing => Midway(r)

(***************************************************************************)
(* A file that is moved or restored is one of the plan.                    *)
(***************************************************************************)
LEMMA MidwayKept ==
    ASSUME PublishInv, NEW r \in Run \ mixed, pc[r] \in Publishing, Midway(r), StepOf(r),
           Publish(r), pc'[r] \in Publishing
    PROVE  Midway(r)'
<1>1. /\ Planned(r) \subseteq Written(r) /\ Written(r) \subseteq File
      /\ Lists(r) /\ Progress(r) /\ job[r].plan \in Plan
  BY PublisherKnows DEF Job
<1>2. /\ disk \in [File -> Contents] /\ before \in [Run -> [File -> Contents]]
      /\ pc \in [Run -> {"idle"} \cup Preparing \cup Publishing \cup Ended]
      /\ job \in [Run -> Job]
  BY DEF PublishInv, TypeOK
<1>3. /\ job'[r].plan = job[r].plan /\ job'[r].ca = job[r].ca /\ job'[r].cmd = job[r].cmd
      /\ before' = before
  BY DEF StepOf
<1>4. \/ UNCHANGED disk
      \/ \E f \in Planned(r) :
            \E x \in {before[r][f], Absent, Content(f, job[r].ca, r)} :
               disk' = [disk EXCEPT ![f] = x]
  <2>1. CASE Backup(r)
    <3>1. Target(r) \in Planned(r) /\ pc[r] = "backup"
      BY <2>1, CurrentFile DEF Backup
    <3> QED
      BY <2>1, <3>1 DEF Backup, files
  <2>2. CASE Place(r)
    <3>1. Target(r) \in Planned(r) /\ pc[r] = "place"
      BY <2>2, CurrentFile DEF Place
    <3> QED
      BY <2>2, <3>1 DEF Place
  <2>3. CASE RenameFails(r) \/ RolledBack(r)
    BY <2>3 DEF RenameFails, RolledBack, files
  <2>4. CASE Undo(r)
    <3>1. LastOf(r, job[r].published) \in Planned(r)
      BY <1>1, <2>4, LastOfIsIn DEF Undo, Lists
    <3> QED
      BY <2>4, <3>1 DEF Undo
  <2>5. CASE Restore(r)
    <3> DEFINE f == LastOf(r, job[r].backups)
    <3>1. f \in job[r].backups /\ f \in Planned(r)
      BY <1>1, <2>5, LastOfIsIn DEF Restore, Lists
    <3>2. bak[f][job[r].stamp] = before[r][f]
      BY <1>1, <3>1 DEF Progress
    <3>3. disk' = [disk EXCEPT ![f] = bak[f][job[r].stamp]] \/ UNCHANGED disk
      BY <2>5 DEF Restore, files
    <3> QED
      BY <3>1, <3>2, <3>3
  <2> QED
    BY <2>1, <2>2, <2>3, <2>4, <2>5 DEF Publish
<1>5. Planned(r)' = Planned(r) /\ Written(r)' = Written(r)
  BY <1>3 DEF Planned, Written
<1>6. \A f \in Written(r) :
          disk'[f] \in IF f \in Planned(r)
                       THEN {before[r][f], Absent, Content(f, job[r].ca, r)}
                       ELSE {before[r][f]}
  BY <1>1, <1>2, <1>4 DEF Midway
<1> QED
  BY <1>3, <1>5, <1>6 DEF Midway, Content

LEMMA BetweenStep ==
    ASSUME PublishInv, Between, [Next]_vars
    PROVE  Between'
<1> SUFFICES ASSUME NEW q \in Run \ mixed', pc'[q] \in Publishing
             PROVE  Midway(q)'
  BY DEF Between
<1>1. CASE UNCHANGED vars
  <2>1. Midway(q) /\ UNCHANGED <<disk, job, before>>
    BY <1>1 DEF vars, files, observed, Between
  <2>2. Planned(q)' = Planned(q) /\ Written(q)' = Written(q)
    BY <2>1 DEF Planned, Written
  <2> QED
    BY <2>1, <2>2 DEF Midway
<1>2. ASSUME NEW r \in Run, Execute(r), Observe PROVE Midway(q)'
  <2>1. StepOf(r) /\ q \notin mixed
    BY <1>2, ExecuteIsStep DEF Observe
  <2>2. CASE q = r /\ pc[r] \in Publishing
    <3>1. Publish(r)
      <4>1. pc \in [Run -> {"idle"} \cup Preparing \cup Publishing \cup Ended]
        BY DEF PublishInv, TypeOK
      <4>2. ~Crash(r)
        BY <2>2, <4>1 DEF Crash, End, Goto, Publishing
      <4> QED
        BY <1>2, <2>2, <4>2 DEF Execute, Start, Pin, Lock, Stage, Confirm, GiveUp, Publishing
    <3> QED
      BY <2>1, <2>2, <3>1, MidwayKept DEF Between
  <2>3. CASE q = r /\ pc[r] \notin Publishing
    <3>1. Confirm(r)
      BY <2>1, <2>3 DEF StepOf
    <3>2. before'[r] = disk /\ disk' = disk /\ Written(r)' \subseteq File
      BY <3>1 DEF Confirm, files, Written, File
    <3> QED
      BY <2>3, <3>2 DEF Midway
  <2>4. CASE q # r
    <3>1. pc[q] \in Publishing /\ before'[q] = before[q] /\ job'[q] = job[q]
      BY <2>1, <2>4 DEF StepOf, Still
    <3>2. Midway(q) /\ Written(q) \subseteq File
      BY <2>1, <3>1, PublisherKnows DEF Between
    <3>3. \A f \in Written(q) : disk'[f] = disk[f]
      <4>1. CASE pc[r] \in Publishing
        <5>1. ~Rivals(q, r) /\ Planned(r) \subseteq Written(r)
          BY <2>1, <3>1, <4>1, RivalsAreMixed, PublisherKnows
        <5> QED
          BY <2>1, <2>4, <3>2, <5>1, RivalsOrApart DEF StepOf
      <4>2. CASE pc[r] \notin Publishing
        BY <2>1, <3>2, <4>2 DEF StepOf
      <4> QED
        BY <4>1, <4>2
    <3>4. Planned(q)' = Planned(q) /\ Written(q)' = Written(q)
      BY <3>1 DEF Planned, Written
    <3> QED
      BY <3>1, <3>2, <3>3, <3>4 DEF Midway
  <2> QED
    BY <2>2, <2>3, <2>4
<1> QED
  BY <1>1, <1>2 DEF Next

-----------------------------------------------------------------------------
\* The sets of files that commands publish, as Publication knows them.
PlannedSets == {{plan[n] : n \in 1..Len(plan)} : plan \in Plan \ {<<>>}}

(***************************************************************************)
(* What a step that is not a clash does to the outcomes.                   *)
(***************************************************************************)
LEMMA OutcomeStep ==
    ASSUME PublishInv, NEW r \in Run, StepOf(r), Observe, mixed' = mixed
    PROVE  /\ Outcome(r)' = Outcome(r) => UNCHANGED [q \in Run |-> Outcome(q)]
           /\ [q \in Run |-> Outcome(q)]' =
                 [[q \in Run |-> Outcome(q)] EXCEPT ![r] = Outcome(r)']
<1>1. \A q \in Run \ {r} : Outcome(q)' = Outcome(q)
  BY OutcomeKept
<1> QED
  BY <1>1

(***************************************************************************)
(* An execution that has met no rival ends once, as its last label says.   *)
(***************************************************************************)
LEMMA EndsAs ==
    ASSUME PublishInv, NEW r \in Run, StepOf(r), Observe, mixed' = mixed, r \notin mixed
    PROVE  /\ pc'[r] \notin Ended => UNCHANGED [q \in Run |-> Outcome(q)]
           /\ pc'[r] \in {"done", "failed"} => Promise!Ends(r, pc'[r])
           /\ pc'[r] \in {"crashed", "torn"} => Promise!Ends(r, "broken")
<1>1. Outcome(r) = "none"
  BY DEF StepOf, Live, Outcome, Ended
<1>2. /\ pc'[r] \notin Ended => Outcome(r)' = "none"
      /\ pc'[r] \in {"done", "failed"} => Outcome(r)' = pc'[r]
      /\ pc'[r] \in {"crashed", "torn"} => Outcome(r)' = "broken"
  BY DEF Outcome, Ended
<1> QED
  BY <1>1, <1>2, OutcomeStep DEF Promise!Ends

LEMMA PlannedIsSet ==
    ASSUME PublishInv, NEW r \in Run, pc[r] \in Publishing
    PROVE  Planned(r) \in PlannedSets /\ Planned(r) \subseteq Written(r)
<1>1. job[r].plan \in Plan \ {<<>>} /\ Planned(r) \subseteq Written(r)
  BY PublisherKnows DEF Job
<1> QED
  BY <1>1 DEF Planned, PlannedSets

(***************************************************************************)
(* Of one that has met a rival every rename is seen.                       *)
(***************************************************************************)
LEMMA MixedMeddles ==
    ASSUME PublishInv, PublishInv', NEW r \in Run, r \in mixed, StepOf(r), Observe
    PROVE  Promise!Meddle(r)
<1>1. pc[r] \in Publishing /\ pc'[r] \in Publishing \cup Ended
  BY DEF PublishInv, ObservedExact, StepOf, Live, Publishing, Ended
<1>2. mixed' = mixed
  BY <1>1, UnmixedStep
<1>3. Outcome(r) = "mixed" /\ Outcome(r)' \in {"mixed", "broken"}
  BY <1>1, <1>2 DEF Outcome, Publishing, Ended
<1>4. [q \in Run |-> Outcome(q)]' \in
          {[q \in Run |-> Outcome(q)], [[q \in Run |-> Outcome(q)] EXCEPT ![r] = "broken"]}
  BY <1>2, <1>3, OutcomeStep
<1>5. Planned(r) \in PlannedSets
  BY <1>1, PlannedIsSet
<1>6. ASSUME NEW f \in File \ Planned(r) PROVE Seen'[f] = Seen[f]
  <2>1. disk'[f] = disk[f]
    BY DEF StepOf
  <2>2. r \notin Keepers(f) /\ r \notin Keepers(f)'
    BY <1>2 DEF Keepers
  <2> QED
    BY <1>2, <2>1, <2>2, SeenElsewhere
<1>7. Seen' \in [File -> Contents]
  BY SeenIsNext DEF SeenTyped
<1> QED
  BY <1>3, <1>4, <1>5, <1>6, <1>7 DEF Promise!Meddle, PlannedSets

(***************************************************************************)
(* When an execution that has met no rival ends, its files are seen.       *)
(***************************************************************************)
LEMMA SeenAtEnd ==
    ASSUME PublishInv, PublishInv', NEW r \in Run \ mixed, StepOf(r), Observe,
           mixed' = mixed, pc[r] \in Publishing, pc'[r] \in Ended, NEW f \in File
    PROVE  /\ f \in Written(r) => Seen[f] = before[r][f] /\ Seen'[f] = disk'[f]
           /\ f \notin Written(r) => Seen'[f] = Seen[f]
<1>1. pc'[r] \notin Publishing
  BY DEF Publishing, Ended
<1>2. r \notin Keepers(f)'
  BY <1>1 DEF Keepers
<1>3. CASE f \in Written(r)
  <2>1. r \in Keepers(f)
    BY <1>3 DEF Keepers
  <2>2. \A q \in Run \ {r} : q \notin Keepers(f)
    BY <1>3, OnlyKeeper
  <2>3. \A q \in Run \ {r} : q \in Keepers(f)' => q \in Keepers(f)
    BY DEF Keepers, StepOf, Still, Written
  <2>4. Keepers(f)' = {}
    BY <1>2, <2>2, <2>3 DEF Keepers
  <2> QED
    BY <1>3, <2>1, <2>4, SeenIs, SeenIsNext DEF SeenByKeeper, SeenOnDisk
<1>4. CASE f \notin Written(r)
  <2>1. r \notin Keepers(f) /\ disk'[f] = disk[f]
    BY <1>4, PlannedIsSet DEF Keepers, StepOf
  <2> QED
    BY <1>2, <1>4, <2>1, SeenElsewhere
<1> QED
  BY <1>3, <1>4

(***************************************************************************)
(* A command that ends has replaced the whole set, or nothing; one that    *)
(* died or could not roll back is halfway.                                 *)
(***************************************************************************)
LEMMA DoneReplaces ==
    ASSUME PublishInv, PublishInv', NEW r \in Run \ mixed, Execute(r), StepOf(r), Observe,
           mixed' = mixed, pc'[r] = "done"
    PROVE  Promise!Succeed(r)
<1>1. pc \in [Run -> {"idle"} \cup Preparing \cup Publishing \cup Ended]
  BY DEF PublishInv, TypeOK
<1>2. Place(r) /\ job[r].at = Len(job[r].plan)
  <2>1. Place(r)
    BY <1>1 DEF Execute, Publish, Start, Pin, Lock, Stage, Confirm, GiveUp, Backup,
       RenameFails, Undo, Restore, RolledBack, Crash, End, Goto
  <2> QED
    BY <1>1, <2>1 DEF Place, Goto
<1>3. pc[r] \in Publishing /\ pc'[r] \in Ended
  BY <1>2 DEF Place, Publishing, Ended
<1>4. job[r].ca \in CA /\ Planned(r) \in PlannedSets /\ Planned(r) \subseteq Written(r)
  BY <1>3, PublisherKnows, PlannedIsSet
<1>5. \A f \in Written(r) :
          disk'[f] = IF f \in Planned(r) THEN Content(f, job[r].ca, r) ELSE before[r][f]
  BY <1>2, AllPlaced
<1>6. \A f \in File :
          Seen'[f] = IF f \in Planned(r) THEN Content(f, job[r].ca, r) ELSE Seen[f]
  BY <1>3, <1>4, <1>5, SeenAtEnd
<1>7. Seen' = [f \in File |-> IF f \in Planned(r) THEN Content(f, job[r].ca, r)
                               ELSE Seen[f]]
  <2>1. Seen' \in [File -> Contents]
    BY SeenIsNext DEF SeenTyped
  <2> QED
    BY <1>6, <2>1
<1>8. Promise!Ends(r, "done")
  BY EndsAs
<1> QED
  BY <1>4, <1>7, <1>8 DEF Promise!Succeed, PlannedSets

LEMMA FailedChangesNothing ==
    ASSUME PublishInv, PublishInv', NEW r \in Run \ mixed, Execute(r), StepOf(r), Observe,
           mixed' = mixed, pc'[r] = "failed"
    PROVE  Promise!Fail(r)
<1>1. pc \in [Run -> {"idle"} \cup Preparing \cup Publishing \cup Ended]
  BY DEF PublishInv, TypeOK
<1>2. \A f \in File : Seen'[f] = Seen[f]
  <2>1. CASE pc[r] \in Publishing
    <3>1. RolledBack(r)
      BY <1>1, <2>1 DEF Execute, Publish, Start, Pin, Lock, Stage, Confirm, GiveUp,
         Backup, Place, RenameFails, Undo, Restore, Crash, End, Goto, Publishing
    <3>2. job[r].torn = 0
      <4>1. job[r].torn \in Nat
        BY <2>1, PublisherKnows DEF Job
      <4> QED
        BY <1>1, <3>1, <4>1 DEF RolledBack, End, Goto
    <3>3. \A f \in Written(r) : disk'[f] = before[r][f]
      BY <3>1, <3>2, RolledBackRestores
    <3>4. pc'[r] \in Ended
      BY DEF Ended
    <3> QED
      BY <2>1, <3>3, <3>4, SeenAtEnd
  <2>2. CASE pc[r] \notin Publishing
    <3>1. pc'[r] \notin Publishing
      BY DEF Publishing
    <3>2. \A f \in File : r \notin Keepers(f) /\ r \notin Keepers(f)' /\ disk'[f] = disk[f]
      BY <2>2, <3>1 DEF Keepers, StepOf
    <3> QED
      BY <3>2, SeenElsewhere
  <2> QED
    BY <2>1, <2>2
<1>3. Seen' = Seen
  BY <1>2, SeenIs, SeenIsNext DEF SeenTyped
<1>4. Promise!Ends(r, "failed")
  BY EndsAs
<1> QED
  BY <1>3, <1>4 DEF Promise!Fail

LEMMA BrokenIsHalfway ==
    ASSUME PublishInv, PublishInv', Between, NEW r \in Run \ mixed, Execute(r), StepOf(r),
           Observe, mixed' = mixed, pc'[r] \in {"crashed", "torn"}
    PROVE  Promise!BreakOff(r)
<1>1. pc \in [Run -> {"idle"} \cup Preparing \cup Publishing \cup Ended]
  BY DEF PublishInv, TypeOK
<1>2. Promise!Ends(r, "broken")
  BY EndsAs
<1>3. DOMAIN Seen' = File
  BY SeenIsNext DEF SeenTyped
<1>4. pc[r] \in Publishing /\ pc'[r] \in Ended /\ disk' = disk
  <2>1. Crash(r) \/ RolledBack(r)
    BY <1>1 DEF Execute, Publish, Start, Pin, Lock, Stage, Confirm, GiveUp, Backup,
       Place, RenameFails, Undo, Restore, End, Goto
  <2> QED
    BY <2>1 DEF Crash, RolledBack, files, Publishing, Ended
<1>5. job[r].ca \in CA /\ Planned(r) \in PlannedSets /\ Planned(r) \subseteq Written(r)
  BY <1>4, PublisherKnows, PlannedIsSet
<1>6. Midway(r)
  BY <1>4 DEF Between
<1>7. \A f \in File :
          Seen'[f] \in IF f \in Planned(r) THEN {Seen[f], Absent, Content(f, job[r].ca, r)}
                       ELSE {Seen[f]}
  BY <1>4, <1>5, <1>6, SeenAtEnd DEF Midway
<1> QED
  BY <1>2, <1>3, <1>5, <1>7 DEF Promise!BreakOff, Promise!Halfway, PlannedSets

(***************************************************************************)
(* The other steps of an execution that has met no rival are not seen.     *)
(***************************************************************************)
LEMMA UnseenStep ==
    ASSUME PublishInv, PublishInv', NEW r \in Run \ mixed, StepOf(r), Observe,
           mixed' = mixed, pc'[r] \notin Ended
    PROVE  UNCHANGED <<Seen, [q \in Run |-> Outcome(q)]>>
<1>1. ASSUME NEW f \in File PROVE Seen'[f] = Seen[f]
  <2>1. CASE pc[r] \in Publishing
    <3>1. /\ pc'[r] \in Publishing /\ before' = before /\ Written(r)' = Written(r)
          /\ Planned(r) \subseteq Written(r)
      BY <2>1, PlannedIsSet DEF StepOf, Written
    <3>2. CASE f \in Written(r)
      <4>1. r \in Keepers(f) /\ r \in Keepers(f)'
        BY <2>1, <3>1, <3>2 DEF Keepers
      <4> QED
        BY <3>1, <4>1, SeenIs, SeenIsNext DEF SeenByKeeper
    <3>3. CASE f \notin Written(r)
      <4>1. r \notin Keepers(f) /\ r \notin Keepers(f)' /\ disk'[f] = disk[f]
        BY <3>1, <3>3 DEF Keepers, StepOf
      <4> QED
        BY <4>1, SeenElsewhere
    <3> QED
      BY <3>2, <3>3
  <2>2. CASE pc[r] \notin Publishing /\ (pc'[r] \in Publishing => f \notin Written(r)')
    <3>1. r \notin Keepers(f) /\ r \notin Keepers(f)' /\ disk'[f] = disk[f]
      BY <2>2 DEF Keepers, StepOf
    <3> QED
      BY <3>1, SeenElsewhere
  <2>3. CASE pc[r] \notin Publishing /\ pc'[r] \in Publishing /\ f \in Written(r)'
    <3>1. before'[r] = disk
      BY <2>3 DEF StepOf, Confirm
    <3>2. r \in Keepers(f)'
      BY <2>3 DEF Keepers
    <3>3. ASSUME NEW q \in Keepers(f) PROVE FALSE
      <4>1. q \in Run \ mixed /\ pc[q] \in Publishing /\ f \in Written(q) /\ q # r
        BY <2>3, <3>3 DEF Keepers
      <4>2. pc'[q] = pc[q] /\ job'[q] = job[q]
        BY <4>1 DEF StepOf, Still
      <4>3. Rivals(q, r)'
        BY <2>3, <4>1, <4>2 DEF Rivals, Written
      <4>4. r \in mixed'
        BY <2>3, <4>1, <4>2, <4>3 DEF Observe, Rivaled
      <4> QED
        BY <4>4
    <3>4. Keepers(f) = {}
      BY <3>3
    <3> QED
      BY <3>1, <3>2, <3>4, SeenIs, SeenIsNext DEF SeenByKeeper, SeenOnDisk
  <2> QED
    BY <2>1, <2>2, <2>3
<1>2. Seen' = Seen
  BY <1>1, SeenIs, SeenIsNext DEF SeenTyped
<1> QED
  BY <1>2, EndsAs

(***************************************************************************)
(* An execution that begins to publish beside a rival joins one that is    *)
(* mixed already, or makes both mixed: what the other had done so far is   *)
(* seen from then on.                                                      *)
(***************************************************************************)
LEMMA ClashJoins ==
    ASSUME PublishInv, PublishInv', Between, NEW r \in mixed' \ mixed, r \in Run,
           StepOf(r), Observe
    PROVE  \E q \in Run : Promise!Clash(q)
<1>1. /\ pc[r] \notin Publishing /\ pc'[r] \in Publishing
      /\ \A q \in mixed' \ mixed : q # r => Rivals(q, r)' /\ pc[q] \in Publishing
  BY MixedAtConfirm
<1>2. PICK p \in Run : p # r /\ Rivals(p, r)' /\ pc'[p] \in Publishing
  BY DEF Observe, Rivaled, Rivals
<1>3. /\ pc[p] \in Publishing /\ pc[p] \notin Ended
      /\ pc'[p] = pc[p] /\ job'[p] = job[p] /\ Written(p)' = Written(p)
  BY <1>2 DEF StepOf, Still, Written, Publishing, Ended
<1>4. p \in mixed'
  <2>1. Rivals(r, p)'
    BY <1>2 DEF Rivals
  <2> QED
    BY <1>1, <1>2, <2>1 DEF Observe, Rivaled
<1>5. ASSUME NEW q \in mixed' \ mixed PROVE q \in {p, r}
  <2> SUFFICES ASSUME q # p, q # r PROVE FALSE
    OBVIOUS
  <2>1. q \in Run /\ Rivals(q, r)' /\ pc[q] \in Publishing /\ job'[q] = job[q]
    BY <1>1 DEF Observe, StepOf, Still
  <2>2. Rivals(q, p)
    BY <1>2, <1>3, <2>1 DEF Rivals
  <2> QED
    BY <1>3, <2>1, <2>2, RivalsAreMixed
<1>6. /\ Outcome(r) = "none" /\ Outcome(r)' = "mixed"
      /\ Outcome(p) = IF p \in mixed THEN "mixed" ELSE "none"
      /\ Outcome(p)' = "mixed"
  BY <1>1, <1>3, <1>4 DEF Outcome, StepOf, Live, Publishing, Ended
<1>7. \A q \in Run \ {p, r} : Outcome(q)' = Outcome(q)
  BY <1>5, OutcomeKept
<1>8. /\ \A f \in File : r \notin Keepers(f) /\ r \notin Keepers(f)' /\ disk'[f] = disk[f]
      /\ DOMAIN Seen' = File
  BY <1>1, SeenIsNext DEF Keepers, StepOf, SeenTyped
<1>9. CASE p \in mixed
  <2>1. mixed' \ mixed = {r}
    BY <1>5, <1>9
  <2>2. \A f \in File : Seen'[f] = Seen[f]
    BY <1>8, <2>1, SeenElsewhere
  <2>3. job[r].ca \in CA
    BY <1>1 DEF PublishInv, Knows, StepOf, Confirm, Live, Ended
  <2>4. Planned(p) \in PlannedSets
    BY <1>3, PlannedIsSet
  <2>5. Promise!Halfway(r)
    BY <1>8, <2>2, <2>3, <2>4 DEF Promise!Halfway, PlannedSets
  <2>6. [q \in Run |-> Outcome(q)]' =
            [[q \in Run |-> Outcome(q)] EXCEPT ![r] = "mixed", ![p] = "mixed"]
    BY <1>6, <1>7
  <2> QED
    BY <1>2, <1>6, <1>9, <2>5, <2>6 DEF Promise!Clash
<1>10. CASE p \notin mixed
  <2>1. mixed' \ mixed \subseteq {p, r} /\ Midway(p)
    BY <1>3, <1>5, <1>10 DEF Between
  <2>2. job[p].ca \in CA /\ Planned(p) \in PlannedSets /\ Planned(p) \subseteq Written(p)
    BY <1>3, PublisherKnows, PlannedIsSet
  <2>3. ASSUME NEW f \in File \ Written(p) PROVE Seen'[f] = Seen[f]
    <3>1. \A q \in mixed' \ mixed : q \notin Keepers(f)
      BY <1>8, <2>1, <2>3 DEF Keepers
    <3> QED
      BY <1>8, <3>1, SeenElsewhere
  <2>4. ASSUME NEW f \in File, f \in Written(p)
        PROVE  Seen[f] = before[p][f] /\ Seen'[f] = disk[f]
    <3>1. p \in Keepers(f)
      BY <1>3, <1>10, <2>4 DEF Keepers
    <3>2. ASSUME NEW q \in Keepers(f)' PROVE FALSE
      <4>1. q \in Run \ mixed /\ q # r /\ q # p /\ pc'[q] \in Publishing /\ f \in Written(q)'
        BY <1>4, <1>8, <3>2 DEF Keepers, Observe
      <4>2. q \in Keepers(f)
        BY <4>1 DEF Keepers, StepOf, Still, Written
      <4> QED
        BY <1>3, <2>4, <4>1, <4>2, OnlyKeeper
    <3>3. Keepers(f)' = {}
      BY <3>2
    <3> QED
      BY <1>8, <3>1, <3>3, SeenIs, SeenIsNext DEF SeenByKeeper, SeenOnDisk
  <2>5. \A f \in File :
            Seen'[f] \in IF f \in Planned(p) THEN {Seen[f], Absent, Content(f, job[p].ca, p)}
                         ELSE {Seen[f]}
    BY <2>1, <2>2, <2>3, <2>4 DEF Midway
  <2>6. Promise!Halfway(p)
    BY <1>8, <2>2, <2>5 DEF Promise!Halfway, PlannedSets
  <2>7. [q \in Run |-> Outcome(q)]' =
            [[q \in Run |-> Outcome(q)] EXCEPT ![p] = "mixed", ![r] = "mixed"]
    BY <1>6, <1>7
  <2> QED
    BY <1>2, <1>6, <1>10, <2>6, <2>7 DEF Promise!Clash
<1> QED
  BY <1>9, <1>10

(***************************************************************************)
(* A command replaces its whole set of files at once, or changes nothing,  *)
(* whatever else runs: renaming them one by one, with a rollback,          *)
(* implements it.  Only an execution that dies or that cannot roll back,   *)
(* or two that publish the same files at once, leave some files old, some  *)
(* missing and some new.                                                   *)
(***************************************************************************)
THEOREM Refinement == Spec => ImplementsPublication
<1>1. Init => Promise!Init
  <2> SUFFICES ASSUME Init PROVE Promise!Init
    OBVIOUS
  <2>1. Seen \in [File -> Contents]
    BY InitInv, SeenIs DEF SeenTyped
  <2>2. \A r \in Run : Outcome(r) = "none"
    BY DEF Init, Outcome
  <2> QED
    BY <2>1, <2>2 DEF Promise!Init
<1>2. Init => Between
  BY DEF Init, Between, Publishing
<1>3. PublishInv /\ Between /\ [Next]_vars => Between'
  BY BetweenStep
<1>4. ASSUME PublishInv, PublishInv', Between, [Next]_vars
      PROVE  [Promise!Next]_<<Seen, [r \in Run |-> Outcome(r)]>>
  <2>1. CASE UNCHANGED vars
    BY <2>1 DEF vars, files, observed, Seen, Keepers, Written, Outcome
  <2>2. ASSUME NEW r \in Run, Execute(r), Observe
        PROVE  [Promise!Next]_<<Seen, [q \in Run |-> Outcome(q)]>>
    <3>1. StepOf(r)
      BY <1>4, <2>2, ExecuteIsStep
    <3>2. CASE r \in mixed
      BY <1>4, <2>2, <3>1, <3>2, MixedMeddles DEF Promise!Next
    <3>3. CASE r \in mixed' \ mixed
      BY <1>4, <2>2, <3>1, <3>3, ClashJoins DEF Promise!Next
    <3>4. CASE r \notin mixed'
      <4>1. mixed' = mixed /\ r \notin mixed
        BY <1>4, <2>2, <3>1, <3>4, UnmixedStep
      <4>2. CASE pc'[r] \notin Ended
        BY <1>4, <2>2, <3>1, <4>1, <4>2, UnseenStep
      <4>3. CASE pc'[r] \in Ended
        BY <1>4, <2>2, <3>1, <4>1, <4>3, DoneReplaces, FailedChangesNothing, BrokenIsHalfway
        DEF Promise!Next, Ended
      <4> QED
        BY <4>2, <4>3
    <3> QED
      BY <3>2, <3>3, <3>4
  <2> QED
    BY <1>4, <2>1, <2>2 DEF Next
<1> QED
  BY <1>1, <1>2, <1>3, <1>4, Invariance, PTL
  DEF Spec, ImplementsPublication, Promise!Spec
=============================================================================
