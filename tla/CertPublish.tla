---------------------------- MODULE CertPublish ----------------------------
(***************************************************************************)
(* The commands that write certificates: gcob init (provision_server),     *)
(* gcob certs renew (renew_certificates) and gcob sign (sign_csr_file).    *)
(* Each loads the CA of CLN, checks it against what is installed, locks a  *)
(* directory, stages new files and hands them to publish_files of          *)
(* src/cli/atomic.rs, which moves the old file aside and the new one in,   *)
(* file after file, and undoes all of it when a rename fails.              *)
(*                                                                         *)
(* Every rename and removal is one step.  A command can fail before it     *)
(* publishes, a rename can fail, the rollback ignores its own failures,    *)
(* and the process can die anywhere; the CA of CLN may change, and the     *)
(* clock that names the backups is coarse.                                 *)
(***************************************************************************)
EXTENDS Integers, Sequences

CONSTANTS
    Run,        \* executions of a command
    Command,    \* the commands they may be
    CA,         \* CAs that CLN may have
    Stamp,      \* seconds since the epoch, 0..n
    MaxTorn     \* bound: steps of one rollback that fail

ASSUME CertPublishAssumption ==
    /\ Command \subseteq {"init", "renew", "sign"}
    /\ Stamp \subseteq Nat /\ 0 \in Stamp
    /\ MaxTorn \in Nat
    /\ "nobody" \notin Run

\* The published files, in the order of the plans.  The client certificates
\* and keys that init and renew also write go the way of the server's.
InitPlan == <<"haproxy_ca", "haproxy_concat", "ca", "server", "server_key">>
RenewPlan == <<"server", "server_key">>
SignPlan == <<"signed">>
CaFile == {"haproxy_ca", "ca"}
File == {"haproxy_ca", "haproxy_concat", "ca", "server", "server_key", "signed"}

\* A file is the CA it comes from and the execution that generated it; a copy
\* of the CA certificate is the same whoever made it.
Absent == [ca |-> "none", by |-> "none"]
Before == "earlier"
Content(f, c, r) == [ca |-> c, by |-> IF f \in CaFile THEN "cln" ELSE r]
Contents ==
    {Absent} \cup [ca : CA, by : Run \cup {Before, "cln"}]

VARIABLES
    disk,     \* the published files
    bak,      \* bak[f][t]: the file <f>.bak.<t>
    clock,    \* the latest second that named a backup
    lock,     \* who holds .gcob.lock of each directory
    pc,       \* where each execution stands
    job,      \* its arguments and local state
    before,   \* observation: disk when it began to publish
    stale,    \* observation: who decided before another published its files
    mixed     \* observation: who published while another published its files

files == <<disk, bak>>
observed == <<stale, mixed>>
vars == <<disk, bak, clock, lock, pc, job, before, observed>>

-----------------------------------------------------------------------------
Nobody == "nobody"
LockDir == [init |-> "haproxy", renew |-> "api", sign |-> "output"]
Dir == {"haproxy", "api", "output"}

NoJob == [cmd |-> "none", rotate |-> FALSE, ca |-> "none", plan |-> <<>>, stamp |-> 0, at |-> 1,
          published |-> {}, backups |-> {}, torn |-> 0]

\* A command ends torn when its rollback could not undo everything; the code
\* reports it like any other failure.
Ended == {"done", "failed", "torn", "crashed"}
Preparing == {"pin", "lock", "stage", "confirm"}
Deciding == Preparing \ {"pin"}
Publishing == {"backup", "place", "rollback"}
Live(r) == pc[r] \notin Ended \cup {"idle"}

\* Nothing is installed yet, or an earlier init has installed everything.
Installed(c) ==
    [f \in File |-> IF f = "signed" THEN Absent ELSE Content(f, c, Before)]

Nothing == [f \in File |-> Absent]

Init ==
    /\ \/ disk = Nothing
       \/ \E c \in CA : disk = Installed(c)
    /\ bak = [f \in File |-> [t \in Stamp |-> Absent]]
    /\ clock = 0
    /\ lock = [d \in Dir |-> Nobody]
    /\ pc = [r \in Run |-> "idle"]
    /\ job = [r \in Run |-> NoJob]
    /\ before = [r \in Run |-> Nothing]
    /\ stale = {} /\ mixed = {}

-----------------------------------------------------------------------------
Goto(r, label) == pc' = [pc EXCEPT ![r] = label]

\* The function returns, or the process ends, and its lock is dropped.
End(r, label) ==
    /\ Goto(r, label)
    /\ job' = [job EXCEPT ![r] = NoJob]
    /\ lock' = [d \in Dir |-> IF lock[d] = r THEN Nobody ELSE lock[d]]

\* The command starts and loads the CA that CLN has at that moment.  An option
\* that one step reads (--force, --init-ca) is chosen in that step.
Start(r) ==
    /\ pc[r] = "idle"
    /\ \E cmd \in Command, rotate \in BOOLEAN, c \in CA :
         /\ cmd = "sign" => ~rotate
         /\ job' = [job EXCEPT ![r] =
                      [NoJob EXCEPT !.cmd = cmd, !.rotate = rotate, !.ca = c]]
    /\ Goto(r, "pin")
    /\ UNCHANGED <<files, clock, lock, before>>

Differs(r, f) == disk[f] # Absent /\ disk[f].ca # job[r].ca

\* CA pinning of init: neither installed CA may silently change.
InitRefuses(r) == ~job[r].rotate /\ \E f \in CaFile : Differs(r, f)

\* Mutant of RenewRefuses: another CA is replaced without --rotate-ca.
RenewRefuses_RotatesAlways(r, initca) == disk["ca"] = Absent /\ ~initca

\* CA pinning of renew: a change needs --rotate-ca, a first CA --init-ca.
RenewRefuses(r, initca) ==
    \/ Differs(r, "ca") /\ ~job[r].rotate
    \/ disk["ca"] = Absent /\ ~initca

\* sign looks for its target.
SignRefuses(r, force) == disk["signed"] # Absent /\ ~force

\* These checks come before the lock is taken.
Refuses(r, force, initca) ==
    \/ job[r].cmd = "init" /\ InitRefuses(r)
    \/ job[r].cmd = "renew" /\ RenewRefuses(r, initca)
    \/ job[r].cmd = "sign" /\ SignRefuses(r, force)

\* Mutant of PlanOf: renew never installs the CA it signed with.
PlanOf_KeepsCa(r) ==
    CASE job[r].cmd = "init"  -> InitPlan
      [] job[r].cmd = "renew" -> RenewPlan
      [] job[r].cmd = "sign"  -> SignPlan

\* renew decides here whether the CA is to be installed as well.
PlanOf(r) ==
    CASE job[r].cmd = "init"  -> InitPlan
      [] job[r].cmd = "renew" ->
             IF disk["ca"] = Absent \/ Differs(r, "ca")
             THEN Append(RenewPlan, "ca") ELSE RenewPlan
      [] job[r].cmd = "sign"  -> SignPlan

Pin(r) ==
    /\ pc[r] = "pin"
    /\ \E force, initca \in BOOLEAN :
       \/ Refuses(r, force, initca) /\ End(r, "failed")
       \/ /\ ~Refuses(r, force, initca)
          /\ job' = [job EXCEPT ![r].plan = PlanOf(r)]
          /\ Goto(r, "lock")
          /\ UNCHANGED lock
    /\ UNCHANGED <<files, clock, before>>

\* lock_dir: flock without waiting.
Lock(r) ==
    LET d == LockDir[job[r].cmd] IN
    /\ pc[r] = "lock"
    /\ \/ /\ lock[d] = Nobody
          /\ lock' = [lock EXCEPT ![d] = r]
          /\ Goto(r, "stage")
          /\ UNCHANGED job
       \/ lock[d] # Nobody /\ End(r, "failed")
    /\ UNCHANGED <<files, clock, before>>

Planned(r) == {job[r].plan[n] : n \in 1..Len(job[r].plan)}

\* Files are generated and verified out of sight.  init then refuses to
\* overwrite unless forced, and asks the operator.
Exists(r, force) ==
    job[r].cmd = "init" /\ ~force /\ \E f \in Planned(r) : disk[f] # Absent
Stage(r) ==
    /\ pc[r] = "stage"
    /\ \E force \in BOOLEAN :
       \/ Exists(r, force) /\ End(r, "failed")
       \/ ~Exists(r, force) /\ Goto(r, "confirm") /\ UNCHANGED <<lock, job>>
    /\ UNCHANGED <<files, clock, before>>

\* The operator confirms, and publish_files reads the clock.
Confirm(r) ==
    /\ pc[r] = "confirm"
    /\ clock' \in {t \in Stamp : t >= clock}
    /\ job' = [job EXCEPT ![r].stamp = clock']
    /\ before' = [q \in Run |-> IF q = r THEN disk
                               ELSE IF pc[q] \in Publishing THEN before[q] ELSE Nothing]
    /\ Goto(r, "backup")
    /\ UNCHANGED <<files, lock>>

\* A validation, generation or verification error, a dry run, an operator who
\* does not confirm, or the death of the process: the command ends before it
\* has published anything.
GiveUp(r) ==
    /\ Live(r)
    /\ pc[r] \notin Publishing
    /\ End(r, "failed")
    /\ UNCHANGED <<files, clock, before>>

-----------------------------------------------------------------------------
(* publish_files.                                                          *)

Target(r) == job[r].plan[job[r].at]

\* Mutant of Backup: the old file is not moved aside but overwritten.
Backup_Skipped(r) ==
    /\ pc[r] = "backup"
    /\ Goto(r, "place")
    /\ UNCHANGED <<files, clock, lock, job, before>>

\* Mutant of Backup: the backup is not recorded for the rollback.
Backup_Unrecorded(r) ==
    LET f == Target(r) IN
    /\ pc[r] = "backup"
    /\ bak' = IF disk[f] = Absent THEN bak
              ELSE [bak EXCEPT ![f][job[r].stamp] = disk[f]]
    /\ disk' = [disk EXCEPT ![f] = Absent]
    /\ Goto(r, "place")
    /\ UNCHANGED <<clock, lock, job, before>>

\* An existing target is renamed to its backup, replacing a backup that has
\* the same name.
Backup(r) ==
    LET f == Target(r) IN
    /\ pc[r] = "backup"
    /\ \/ /\ disk[f] # Absent
          /\ bak' = [bak EXCEPT ![f][job[r].stamp] = disk[f]]
          /\ disk' = [disk EXCEPT ![f] = Absent]
          /\ job' = [job EXCEPT ![r].backups = @ \cup {f}]
       \/ /\ disk[f] = Absent
          /\ UNCHANGED <<files, job>>
    /\ Goto(r, "place")
    /\ UNCHANGED <<clock, lock, before>>

\* The staged file is renamed to the target.
Place(r) ==
    LET f == Target(r)
        last == job[r].at = Len(job[r].plan)
    IN
    /\ pc[r] = "place"
    /\ disk' = [disk EXCEPT ![f] = Content(f, job[r].ca, r)]
    /\ \/ last /\ End(r, "done")
       \/ /\ ~last
          /\ job' = [job EXCEPT ![r].published = @ \cup {f}, ![r].at = @ + 1]
          /\ Goto(r, "backup")
          /\ UNCHANGED lock
    /\ UNCHANGED <<bak, clock, before>>

\* Either rename fails: rollback.
RenameFails(r) ==
    /\ pc[r] \in {"backup", "place"}
    /\ pc[r] = "backup" => disk[Target(r)] # Absent
    /\ Goto(r, "rollback")
    /\ UNCHANGED <<files, clock, lock, job, before>>

\* The last of the files of a plan that are in a set.
LastOf(r, set) ==
    LET ns == {n \in 1..Len(job[r].plan) : job[r].plan[n] \in set}
    IN  job[r].plan[CHOOSE n \in ns : \A m \in ns : m <= n]

\* rollback, first half: the published files are removed.  The result of
\* remove_file is ignored.
Undo(r) ==
    /\ pc[r] = "rollback"
    /\ job[r].published # {}
    /\ LET f == LastOf(r, job[r].published) IN
         \/ /\ disk' = [disk EXCEPT ![f] = Absent]
            /\ job' = [job EXCEPT ![r].published = @ \ {f}]
         \/ /\ job[r].torn < MaxTorn
            /\ job' = [job EXCEPT ![r].published = @ \ {f}, ![r].torn = @ + 1]
            /\ UNCHANGED disk
    /\ UNCHANGED <<bak, clock, lock, pc, before>>

\* rollback, second half: the backups are renamed back, if they are there.
\* The result of rename is ignored.
Restore(r) ==
    /\ pc[r] = "rollback"
    /\ job[r].published = {}
    /\ job[r].backups # {}
    /\ LET f == LastOf(r, job[r].backups)
           t == job[r].stamp
       IN
         \/ /\ bak[f][t] # Absent
            /\ disk' = [disk EXCEPT ![f] = bak[f][t]]
            /\ bak' = [bak EXCEPT ![f][t] = Absent]
            /\ job' = [job EXCEPT ![r].backups = @ \ {f}]
         \/ /\ job[r].torn < MaxTorn \/ bak[f][t] = Absent
            /\ job' = [job EXCEPT ![r].backups = @ \ {f}, ![r].torn = @ + 1]
            /\ UNCHANGED files
    /\ UNCHANGED <<clock, lock, pc, before>>

RolledBack(r) ==
    /\ pc[r] = "rollback"
    /\ job[r].published = {}
    /\ job[r].backups = {}
    /\ End(r, IF job[r].torn > 0 THEN "torn" ELSE "failed")
    /\ UNCHANGED <<files, clock, before>>

-----------------------------------------------------------------------------
\* The process dies while publish_files runs.
Crash(r) ==
    /\ pc[r] \in Publishing
    /\ End(r, "crashed")
    /\ UNCHANGED <<files, clock, before>>

Publish(r) == Backup(r) \/ Place(r) \/ RenameFails(r) \/ Undo(r) \/ Restore(r)
              \/ RolledBack(r)
Execute(r) == Start(r) \/ Pin(r) \/ Lock(r) \/ Stage(r) \/ Confirm(r) \/ GiveUp(r)
              \/ Publish(r) \/ Crash(r)

\* init and renew write the same files, and sign writes its own.
Rivals(q, r) == q # r /\ (job[q].cmd = "sign" <=> job[r].cmd = "sign")
Rivaled(r) == \E q \in Run : Rivals(q, r) /\ pc[q] \in Publishing

\* A decision that was never acted on does not count.
Observe ==
    /\ stale' = {r \in stale : pc[r] \in Preparing => pc'[r] \notin Ended} \cup
                {r \in Run : pc'[r] \in Deciding /\ Rivaled(r)'}
    /\ mixed' = mixed \cup {r \in Run : pc'[r] \in Publishing /\ Rivaled(r)'}

Next == (\E r \in Run : Execute(r)) /\ Observe

Spec == Init /\ [][Next]_vars

-----------------------------------------------------------------------------
\* A job is one of the commands with the files it publishes.
Plan == {<<>>, InitPlan, RenewPlan, Append(RenewPlan, "ca"), SignPlan}
Job ==
    [cmd : {"none", "init", "renew", "sign"}, rotate : BOOLEAN, ca : CA \cup {"none"}, plan : Plan, stamp : Stamp, at : Nat,
     published : SUBSET File, backups : SUBSET File, torn : Nat]

(***************************************************************************)
(* Types, and what lock_dir is for: whoever stages, confirms or publishes  *)
(* files holds the lock of its directory, until it ends or dies.           *)
(***************************************************************************)
TypeOK ==
    /\ disk \in [File -> Contents]
    /\ bak \in [File -> [Stamp -> Contents]]
    /\ before \in [Run -> [File -> Contents]]
    /\ \A f \in CaFile :
          /\ disk[f] # Absent => disk[f].by = "cln"
          /\ \A t \in Stamp : bak[f][t] # Absent => bak[f][t].by = "cln"
          /\ \A r \in Run : before[r][f] # Absent => before[r][f].by = "cln"
    /\ clock \in Stamp
    /\ pc \in [Run -> {"idle"} \cup Preparing \cup Publishing \cup Ended]
    /\ job \in [Run -> Job]
    /\ lock \in [Dir -> Run \cup {Nobody}]
    /\ \A r \in Run : Live(r) /\ pc[r] \notin {"pin", "lock"}
                         => lock[LockDir[job[r].cmd]] = r

(***************************************************************************)
(* atomic.rs: any failure rolls the whole set back to its previous state.  *)
(* A command that had begun to publish and failed leaves every file of its *)
(* plan as it found it, unless the rollback itself fails, or an init and a *)
(* renew publish at once: their locks are in different directories.        *)
(* (Checked as a part of ImplementsPublication.)                           *)
(***************************************************************************)
FailureRestores ==
    [][\A r \in Run \ mixed :
         pc[r] = "rollback" /\ pc'[r] = "failed" =>
            \A f \in Planned(r) : disk'[f] = before[r][f]]_vars

\* The old content of every file is in place or in a backup.
Recoverable(r) ==
    \A f \in File :
        \/ before[r][f] \in {Absent, disk[f]}
        \/ \E t \in Stamp : bak[f][t] = before[r][f]

(***************************************************************************)
(* A crash in the middle of publish_files or of its rollback, or a         *)
(* rollback whose own renames fail, loses nothing that was installed:      *)
(* as long as no other command publishes or has ended, the old content of  *)
(* each file is either in place or in a backup.                            *)
(***************************************************************************)
Alone(r) == \A q \in Run \ {r} : pc[q] \in {"idle"} \cup Preparing
NothingLost == \A r \in Run : Alone(r) => Recoverable(r)

-----------------------------------------------------------------------------
\* Why: what every step of a command knows.

\* Nothing was published before publish_files was called.
Untouched(r) ==
    /\ job[r].published = {} /\ job[r].backups = {}
    /\ job[r].torn = 0 /\ job[r].at = 1
    /\ before[r] = Nothing

\* What a command has checked of the files it found, and so what it publishes.
Foreign(found, f, c) == found[f] # Absent /\ found[f].ca # c
Decided(j, found) ==
    /\ j.cmd = "init" =>
          /\ j.plan = InitPlan
          /\ ~j.rotate => \A f \in CaFile : ~Foreign(found, f, j.ca)
    /\ j.cmd = "renew" =>
          /\ j.plan = IF found["ca"] = Absent \/ Foreign(found, "ca", j.ca)
                      THEN Append(RenewPlan, "ca") ELSE RenewPlan
          /\ ~j.rotate => ~Foreign(found, "ca", j.ca)
    /\ j.cmd = "sign" => j.plan = SignPlan

\* The two lists of publish_files, and how far its loop has come.
Lists(r) ==
    LET j == job[r] IN
    /\ j.published \cup j.backups \subseteq Planned(r)
    /\ pc[r] \in {"backup", "place"} =>
          /\ j.torn = 0
          /\ j.at \in 1..Len(j.plan)
          /\ j.published = {j.plan[n] : n \in 1..j.at - 1}
          /\ \A n \in j.at..Len(j.plan) :
                j.plan[n] \in j.backups => n = j.at /\ pc[r] = "place"

\* The files that a command may write.
Written(r) == IF job[r].cmd = "sign" THEN {"signed"} ELSE File \ {"signed"}

\* Each file is the old one, moved aside, or new, as the lists say, unless a
\* step of the rollback failed.
Moved(r, f) == before[r][f] # Absent => f \in job[r].backups
Progress(r) ==
    LET j == job[r] IN
    /\ \A f \in j.backups :
          before[r][f] # Absent /\ bak[f][j.stamp] = before[r][f]
    /\ \A f \in j.published : Moved(r, f)
    /\ pc[r] = "place" => Moved(r, Target(r))
    /\ j.torn = 0 =>
          \A f \in Written(r) :
             disk[f] = IF f \in j.published THEN Content(f, j.ca, r)
                       ELSE IF f \in j.backups THEN Absent ELSE before[r][f]

\* What execution r knows at each of its steps: its decision holds unless a
\* rival published since, its lists do unless one publishes at the same time.
Knows(r) ==
    /\ pc[r] \in Preparing \cup {"idle"} => Untouched(r)
    /\ Live(r) => job[r].cmd # "none" /\ job[r].ca \in CA
    /\ Live(r) /\ pc[r] # "pin" => job[r].plan # <<>> /\ Planned(r) \subseteq Written(r)
    /\ pc[r] \in Publishing => Lists(r)
    /\ r \notin stale /\ pc[r] \in Deciding => Decided(job[r], disk)
    /\ r \notin stale /\ pc[r] \in Publishing => Decided(job[r], before[r])
    /\ r \notin mixed /\ pc[r] \in Publishing => Progress(r)

\* The observations miss no rival, and have nobody who is alone.
ObservedExact ==
    /\ stale \subseteq Run /\ mixed \subseteq Run
    /\ \A r \in Run : pc[r] \in Deciding /\ Rivaled(r) => r \in stale
    /\ \A r \in Run : pc[r] \in Publishing /\ Rivaled(r) => r \in mixed
    /\ \A r \in mixed : pc[r] \in Publishing \cup Ended /\ ~Alone(r)

\* What each directory holds belongs together: a certificate has its own key
\* and is issued by the CA beside it.
CoherentIn(found) ==
    /\ found["server"] = found["server_key"]
    /\ found["server"] # Absent => found["server"].ca = found["ca"].ca
    /\ found["haproxy_concat"] # Absent =>
          found["haproxy_concat"].ca = found["haproxy_ca"].ca
Coherent == CoherentIn(disk)

\* Nobody who published had decided too early, met a rival, died, or failed to
\* roll back.
Orderly ==
    /\ \A r \in stale : pc[r] \notin Publishing \cup Ended
    /\ mixed = {}
    /\ \A r \in Run : pc[r] \notin {"crashed", "torn"}

\* What is installed is coherent, or was when init or renew began to publish.
Writing(r) == pc[r] \in Publishing /\ job[r].cmd # "sign"
CoherentBefore ==
    Orderly => /\ (\A r \in Run : ~Writing(r)) => Coherent
               /\ \A r \in Run : Writing(r) => CoherentIn(before[r])

(***************************************************************************)
(* The invariant of publish_files and rollback, and inductive: whoever     *)
(* publishes holds the lock, each file is where the lists of its command   *)
(* say, and what was installed is never lost.                              *)
(***************************************************************************)
PublishInv ==
    /\ TypeOK
    /\ \A r \in Run : Knows(r)
    /\ ObservedExact
    /\ NothingLost
    /\ CoherentBefore

(***************************************************************************)
(* The lock against concurrent provisioning, and the postconditions of     *)
(* renew_certificates: when no command runs and none has crashed or failed *)
(* to roll back, server certificate and key match, and their CA is the     *)
(* installed one.                                                          *)
(***************************************************************************)
QuietMeansCoherent ==
    (\A r \in Run : ~Live(r) /\ pc[r] \notin {"crashed", "torn"}) => Coherent

(***************************************************************************)
(* What the lock does give: the same, while init and renew are not in the  *)
(* middle of publishing, unless one acted on what it saw before the other  *)
(* published, or both published at once.  Executions may overlap as they   *)
(* like otherwise: prepare together, wait for the operator, be refused.    *)
(***************************************************************************)
OrderlyMeansCoherent ==
    Orderly /\ (\A r \in Run : ~Writing(r)) => Coherent

(***************************************************************************)
(* CA pinning: never change the installed trust anchor silently.  Without  *)
(* --rotate-ca a command that succeeds leaves every CA it found in place,  *)
(* unless its decision was outdated or two commands published at once.     *)
(***************************************************************************)
TrustAnchorPinned ==
    [][\A r \in Run \ (stale \cup mixed) :
         pc[r] = "place" /\ pc'[r] = "done" /\ ~job[r].rotate =>
            \A f \in CaFile \cap Written(r) :
                before[r][f] # Absent => disk'[f] = before[r][f]]_vars

-----------------------------------------------------------------------------
(***************************************************************************)
(* The files as Publication has them: while an execution publishes a file, *)
(* as it found it and may restore it.  Of executions that publish the same *)
(* files at once every rename is seen.                                     *)
(***************************************************************************)
Keepers(f) == {r \in Run \ mixed : pc[r] \in Publishing /\ f \in Written(r)}
Seen == [f \in File |-> IF Keepers(f) = {} THEN disk[f]
                        ELSE before[CHOOSE r \in Keepers(f) : TRUE][f]]
Outcome(r) ==
    IF r \in mixed THEN IF pc[r] \in Ended THEN "broken" ELSE "mixed"
    ELSE CASE pc[r] \in {"crashed", "torn"} -> "broken"
           [] pc[r] \in {"done", "failed"} -> pc[r]
           [] OTHER -> "none"

Promise == INSTANCE Publication WITH
    Sets <- {{plan[n] : n \in 1..Len(plan)} : plan \in Plan \ {<<>>}},
    New <- Content,
    installed <- Seen,
    outcome <- [r \in Run |-> Outcome(r)]

(***************************************************************************)
(* atomic.rs, atomic publication: the renames file by file, with the       *)
(* rollback and the checks before them, implement a replacement of the     *)
(* whole set in one step; a command that reports failure has changed       *)
(* nothing, in whichever step it failed.  Other executions may do what     *)
(* they want meanwhile, unless they publish the same files at once.        *)
(***************************************************************************)
ImplementsPublication == Promise!Spec
=============================================================================
