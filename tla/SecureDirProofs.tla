-------------------------- MODULE SecureDirProofs --------------------------
(***************************************************************************)
(* Proofs about Permissions and SecureDir, for every set of users, groups, *)
(* permissions, entries and calls.  First: what paths.rs concludes from    *)
(* mode bits and ACL is right for the kernel's access check.               *)
(***************************************************************************)
EXTENDS SecureDir, TLAPS

(***************************************************************************)
(* effective_perms_are_owner_only is sound: what it accepts gives none of  *)
(* the permissions to anybody but the owner and users that an ACL names.   *)
(***************************************************************************)
THEOREM EffectiveSound ==
    \A n \in Node, perms \in SUBSET Perm :
        effective_perms_are_owner_only(n, perms) => NoBroadAccess(n, perms)
<1> SUFFICES ASSUME NEW n \in Node, NEW perms \in SUBSET Perm,
                    effective_perms_are_owner_only(n, perms),
                    NEW uid \in User, NEW gs \in SUBSET Group, Broad(n, uid),
                    NEW p \in perms, p \in Access(n, uid, gs)
             PROVE  FALSE
    BY DEF NoBroadAccess
<1>1. p \in n.g \cup n.o => ModeHas(n, perms)
    BY DEF ModeHas
<1>2. CASE n.acl = NoAcl
    <2>1. p \in n.g \cup n.o
        BY <1>2 DEF Access, Broad
    <2>2. acl_has_broad_perms(n, perms) = {}
        BY <1>2 DEF acl_has_broad_perms
    <2> QED BY <1>1, <2>1, <2>2 DEF effective_perms_are_owner_only
<1>3. CASE n.acl # NoAcl
    <2>1. \/ p \in n.o
          \/ p \in n.g /\ \E m \in Matching(n, gs) : p \in m
        <3>1. Access(n, uid, gs) = IF Matching(n, gs) # {}
                                   THEN (UNION Matching(n, gs)) \cap n.g ELSE n.o
            BY <1>3 DEF Access, Broad
        <3> HIDE DEF Access, Matching
        <3>2. CASE Matching(n, gs) = {}
            BY <3>1, <3>2
        <3>3. CASE Matching(n, gs) # {}
            <4>1. p \in UNION Matching(n, gs) /\ p \in n.g
                BY <3>1, <3>3
            <4> QED BY <4>1
        <3> QED BY <3>2, <3>3
    <2>2. ~acl_has_broad_perms_from_bytes(n, perms)
        BY <1>1, <1>3, <2>1 DEF effective_perms_are_owner_only, acl_has_broad_perms
    <2>3. p \notin n.o
        BY <2>2 DEF acl_has_broad_perms_from_bytes
    <2>4. \A m \in Matching(n, gs) : p \notin m
        BY <2>2 DEF acl_has_broad_perms_from_bytes, Matching
    <2> QED BY <2>1, <2>3, <2>4
<1> QED BY <1>2, <1>3

(***************************************************************************)
(* load_env_file is sound: an environment file that it accepts belongs to  *)
(* one of the owners, and only its owner and users an ACL names, within    *)
(* the mask, could write it.                                               *)
(***************************************************************************)
THEOREM EnvFileSound ==
    \A n \in Node, owners \in SUBSET User :
        load_env_file(n, owners) => n.owner \in owners /\ NoBroadAccess(n, Write)
<1> SUFFICES ASSUME NEW n \in Node, NEW owners \in SUBSET User, load_env_file(n, owners)
             PROVE  n.owner \in owners /\ NoBroadAccess(n, Write)
    OBVIOUS
<1>1. ~ModeHas(n, Write)
    BY DEF load_env_file, ModeHas, Write
<1>2. Write \in SUBSET Perm
    BY PermAssumption DEF Write
<1>3. NoBroadAccess(n, Write)
    BY <1>1, <1>2, EffectiveSound DEF effective_perms_are_owner_only
<1> QED BY <1>3 DEF load_env_file

(***************************************************************************)
(* validate_cln_source does not look at ACLs and need not: the key of the  *)
(* CA is its owner's alone, even if an ACL names other users or groups,    *)
(* because the mask is among the mode bits that must be clear.             *)
(***************************************************************************)
THEOREM CaKeyIsOwners ==
    \A dir, key \in Node : validate_cln_source(dir, key) =>
        \A uid \in User \ {key.owner}, gs \in SUBSET Group : Access(key, uid, gs) = {}
<1> SUFFICES ASSUME NEW dir \in Node, NEW key \in Node, validate_cln_source(dir, key),
                    NEW uid \in User \ {key.owner}, NEW gs \in SUBSET Group,
                    NEW p \in Access(key, uid, gs)
             PROVE  FALSE
    OBVIOUS
<1>1. key.g \subseteq Perm /\ key.o \subseteq Perm
    BY DEF Node
<1>2. key.g = {} /\ key.o = {}
    BY <1>1 DEF validate_cln_source, ModeHas
<1>3. Access(key, uid, gs) = {}
    <2>1. CASE key.acl = NoAcl
        BY <1>2, <2>1 DEF Access
    <2>2. CASE key.acl # NoAcl
        BY <1>2, <2>2 DEF Access
    <2> QED BY <2>1, <2>2
<1> QED BY <1>3

-----------------------------------------------------------------------------
(* The inductive invariant.                                                *)

\* The entry is one that call c accepts.
AcceptedBy(c) ==
    /\ parent = "dir" /\ entry \in Node /\ entry.kind = "dir"
    /\ entry.owner \in c.allowed
    /\ effective_perms_are_owner_only(entry, Write)

\* The last call that created or accepted the entry would accept it again;
\* past the check it is the present call; and what was set stays set.
EnsureInv ==
    /\ \A c \in passed : AcceptedBy(c)
    /\ pc \in {"chmod", "chown", "done"} => passed = {call}
    /\ pc \in {"chown", "done"} /\ entry.acl = NoAcl => entry.g = call.g /\ entry.o = {}
    /\ pc = "done" => entry.owner = call.owner
    /\ pc = "refused" => call \notin passed

ReadInv == reader \in {"checked", "read"} => Accepted(fd)

Inv == TypeOK /\ EnsureInv /\ ReadInv

LEMMA InitInv == Init => Inv
<1> SUFFICES ASSUME Init PROVE Inv
    OBVIOUS
<1>1. TypeOK
    BY SecureDirAssumption DEF Init, TypeOK, Active, Returned
<1>2. EnsureInv
    BY DEF Init, EnsureInv
<1>3. ReadInv
    BY DEF Init, ReadInv
<1> QED BY <1>1, <1>2, <1>3 DEF Inv

\* What a call is made of.
LEMMA CallFacts ==
    ASSUME NEW c \in Call
    PROVE  /\ c.g \in SUBSET Perm /\ c.g \cap Write = {}
           /\ c.euid \in User /\ c.owner \in User /\ c.group \in Group
           /\ c.euid \in c.allowed /\ c.owner \in c.allowed
           /\ c.name = "api" => c.g = {}
           /\ c # NoCall
BY SecureDirAssumption DEF Calls, NoCall

\* The names of the entry's fields.
LEMMA NodeFacts ==
    /\ Absent \notin Node
    /\ \A n \in Node : n # Absent /\ n.kind \in {"dir", "file", "symlink"}
    /\ Absent.kind = "absent"
BY DEF Node, Absent

\* The reader does not change what ensure_secure_dir relies on.
LEMMA ReaderStep ==
    ASSUME Inv, Reader
    PROVE  Inv'
<1> USE DEF Inv, read, ensure, fs
<1>1. UNCHANGED <<parent, entry, pc, call, passed, swaps>>
    BY DEF Reader, Open, CheckFd, Read
<1>2. TypeOK'
    <2>1. CASE Open
        BY <1>1, <2>1, NodeFacts DEF Open, TypeOK
    <2>2. CASE CheckFd
        BY <1>1, <2>2 DEF CheckFd, TypeOK
    <2>3. CASE Read
        BY <1>1, <2>3 DEF Read, TypeOK
    <2> QED BY <2>1, <2>2, <2>3 DEF Reader
<1>3. EnsureInv'
    BY <1>1 DEF EnsureInv, AcceptedBy
<1>4. ReadInv'
    <2>1. CASE Open
        BY <2>1 DEF Open, ReadInv
    <2>2. CASE CheckFd
        BY <2>2 DEF CheckFd, ReadInv, Accepted
    <2>3. CASE Read
        BY <2>3 DEF Read, ReadInv, Accepted
    <2> QED BY <2>1, <2>2, <2>3 DEF Reader
<1> QED BY <1>2, <1>3, <1>4

\* A new call, a refusal, a failure and a crash leave the entry alone.
LEMMA QuietStep ==
    ASSUME Inv, UNCHANGED <<fs, passed, read>>, call' \in Call \cup {NoCall},
           pc' = "idle" <=> call' = NoCall,
           pc' \in {"idle", "parent", "refused", "failed"},
           pc' = "refused" => call' \notin passed
    PROVE  Inv'
<1> USE DEF Inv, read, fs
<1>1. TypeOK'
    BY DEF TypeOK, Active, Returned
<1>2. EnsureInv'
    BY DEF EnsureInv, AcceptedBy
<1>3. ReadInv'
    BY DEF ReadInv, Accepted
<1> QED BY <1>1, <1>2, <1>3

\* A call is refused only if it is not the one that passed last.
LEMMA RefuseStep ==
    ASSUME Inv, Refuse, pc \in Active,
           ~(parent = "dir" /\ entry.kind = "dir") \/ Refused
    PROVE  Inv'
<1>1. call \in Call
    BY DEF Inv, TypeOK, Active
<1>2. call \notin passed
    <2> SUFFICES ASSUME call \in passed PROVE FALSE
        OBVIOUS
    <2>1. AcceptedBy(call)
        BY DEF Inv, EnsureInv
    <2>2. ~Refused
        BY <2>1 DEF AcceptedBy, Refused, effective_perms_are_owner_only
    <2> QED BY <2>1, <2>2 DEF AcceptedBy
<1>3. call' = call /\ pc' = "refused" /\ UNCHANGED <<fs, passed, read>>
    BY DEF Refuse
<1> QED BY <1>1, <1>2, <1>3, QuietStep, CallFacts

LEMMA FailStep ==
    ASSUME Inv, Fail, pc \in Active
    PROVE  Inv'
<1>1. call \in Call
    BY DEF Inv, TypeOK, Active
<1>2. call' = call /\ pc' = "failed" /\ UNCHANGED <<fs, passed, read>>
    BY DEF Fail
<1> QED BY <1>1, <1>2, QuietStep, CallFacts

\* While ensure_secure_dir works, the reader's part stays as it is.
LEMMA ReadInvKept ==
    ASSUME ReadInv, UNCHANGED read
    PROVE  ReadInv'
BY DEF ReadInv, Accepted, read

LEMMA ParentStep ==
    ASSUME Inv, Parent
    PROVE  Inv'
<1>1. pc \in Active
    BY DEF Parent, Active
<1>2. CASE parent \in {"symlink", "file"} /\ Refuse
    BY <1>1, <1>2, RefuseStep
<1>3. CASE Fail
    BY <1>1, <1>3, FailStep
<1>4. CASE /\ parent \in {"dir", "absent"} /\ parent' = "dir" /\ pc' = "entry"
           /\ UNCHANGED <<entry, call, passed, read>>
    <2>1. TypeOK'
        BY <1>1, <1>4 DEF Inv, TypeOK, Active, Returned, ParentKind, read
    <2>2. EnsureInv'
        BY <1>4 DEF Inv, EnsureInv, AcceptedBy
    <2> QED BY <1>4, <2>1, <2>2, ReadInvKept DEF Inv
<1> QED BY <1>2, <1>3, <1>4 DEF Parent

\* The directory that mkdir makes.
Made == [kind |-> "dir", owner |-> call.euid, group |-> call.group,
         u |-> Perm, g |-> {}, o |-> {}, acl |-> NoAcl]

LEMMA EntryStep ==
    ASSUME Inv, Entry
    PROVE  Inv'
<1>1. pc = "entry" /\ pc \in Active /\ call \in Call /\ parent = "dir"
    BY DEF Entry, Active, Inv, TypeOK
<1>2. CASE entry.kind \in {"symlink", "file"} /\ Refuse
    BY <1>1, <1>2, RefuseStep
<1>3. CASE Fail
    BY <1>1, <1>3, FailStep
<1>4. CASE /\ entry # Absent /\ entry.kind = "dir" /\ pc' = "check"
           /\ UNCHANGED <<parent, entry, call, passed, read>>
    <2>1. TypeOK'
        BY <1>1, <1>4 DEF Inv, TypeOK, Active, Returned, read
    <2>2. EnsureInv'
        BY <1>4 DEF Inv, EnsureInv, AcceptedBy
    <2> QED BY <1>4, <2>1, <2>2, ReadInvKept DEF Inv
<1>5. CASE /\ entry = Absent /\ entry' = Made /\ passed' = {call} /\ pc' = "check"
           /\ UNCHANGED <<parent, call, read>>
    <2>1. Made \in Node /\ Made.kind = "dir" /\ Made.owner \in call.allowed
        BY <1>1, CallFacts DEF Made, Node
    <2>2. effective_perms_are_owner_only(Made, Write)
        BY DEF Made, effective_perms_are_owner_only, ModeHas
    <2>3. TypeOK'
        BY <1>1, <1>5, <2>1 DEF Inv, TypeOK, Active, Returned, read
    <2>4. EnsureInv'
        BY <1>1, <1>5, <2>1, <2>2 DEF EnsureInv, AcceptedBy
    <2> QED BY <1>5, <2>3, <2>4, ReadInvKept DEF Inv
<1>6. entry \in Node \cup {Absent}
    BY DEF Inv, TypeOK
<1> QED BY <1>2, <1>3, <1>4, <1>5, <1>6, NodeFacts DEF Entry, Made

LEMMA CheckStep ==
    ASSUME Inv, Check
    PROVE  Inv'
<1>1. /\ pc = "check" /\ pc \in Active /\ call \in Call
      /\ parent = "dir" /\ entry.kind = "dir"
    BY DEF Check, Active, Inv, TypeOK
<1>2. CASE Refused /\ Refuse
    BY <1>1, <1>2, RefuseStep
<1>3. CASE /\ ~Refused /\ passed' = {call} /\ pc' = "chmod"
           /\ UNCHANGED <<fs, call, read>>
    <2>1. entry \in Node
        BY <1>1, NodeFacts DEF Inv, TypeOK
    <2>2. AcceptedBy(call)
        BY <1>1, <1>3, <2>1 DEF AcceptedBy, Refused, effective_perms_are_owner_only
    <2>3. TypeOK'
        BY <1>1, <1>3 DEF Inv, TypeOK, Active, Returned, read, fs
    <2>4. EnsureInv'
        BY <1>3, <2>2 DEF EnsureInv, AcceptedBy, fs
    <2> QED BY <1>3, <2>3, <2>4, ReadInvKept DEF Inv
<1> QED BY <1>2, <1>3 DEF Check

\* Past the check, the entry is a directory that the call has accepted.
LEMMA PastCheck ==
    ASSUME Inv, pc \in {"chmod", "chown", "done"}
    PROVE  /\ call \in Call /\ passed = {call} /\ AcceptedBy(call)
           /\ entry \in Node /\ entry.kind = "dir" /\ parent = "dir"
<1>1. call \in Call /\ passed = {call}
    BY DEF Inv, TypeOK, EnsureInv
<1>2. AcceptedBy(call)
    BY <1>1 DEF Inv, EnsureInv
<1> QED BY <1>1, <1>2 DEF AcceptedBy

LEMMA NormaliseStep ==
    ASSUME Inv, Normalise
    PROVE  Inv'
<1>1. pc = "chmod" /\ pc \in Active
    BY DEF Normalise, Active
<1>2. /\ call \in Call /\ passed = {call} /\ AcceptedBy(call)
      /\ entry \in Node /\ entry.kind = "dir" /\ parent = "dir"
    BY <1>1, PastCheck
<1>3. CASE Fail
    BY <1>1, <1>3, FailStep
<1>4. CASE /\ entry' = IF entry.acl = NoAcl THEN Chmod(entry, Perm, call.g, {}) ELSE entry
           /\ pc' = "chown" /\ UNCHANGED <<parent, call, passed, read>>
    <2>1. /\ entry' \in Node /\ entry'.kind = "dir" /\ entry'.owner = entry.owner
          /\ entry'.acl = entry.acl
          /\ entry'.acl = NoAcl => entry'.g = call.g /\ entry'.o = {}
        BY <1>2, <1>4, CallFacts DEF Node, Chmod
    <2>2. effective_perms_are_owner_only(entry', Write)
        <3>1. CASE entry.acl = NoAcl
            BY <1>2, <2>1, <3>1, CallFacts DEF effective_perms_are_owner_only, ModeHas
        <3>2. CASE entry.acl # NoAcl
            BY <1>2, <1>4, <3>2 DEF AcceptedBy
        <3> QED BY <3>1, <3>2
    <2>3. TypeOK'
        BY <1>1, <1>2, <1>4, <2>1 DEF Inv, TypeOK, Active, Returned, read
    <2>4. EnsureInv'
        BY <1>2, <1>4, <2>1, <2>2 DEF EnsureInv, AcceptedBy
    <2> QED BY <1>4, <2>3, <2>4, ReadInvKept DEF Inv
<1> QED BY <1>3, <1>4 DEF Normalise

LEMMA ChownStep ==
    ASSUME Inv, Chown
    PROVE  Inv'
<1>1. pc = "chown" /\ pc \in Active
    BY DEF Chown, Active
<1>2. /\ call \in Call /\ passed = {call} /\ AcceptedBy(call)
      /\ entry \in Node /\ entry.kind = "dir" /\ parent = "dir"
    BY <1>1, PastCheck
<1>3. CASE Fail
    BY <1>1, <1>3, FailStep
<1>4. CASE /\ entry' = [entry EXCEPT !.owner = call.owner, !.group = call.group]
           /\ pc' = "done" /\ UNCHANGED <<parent, call, passed, read>>
    <2>1. /\ entry' \in Node /\ entry'.kind = "dir" /\ entry'.owner = call.owner
          /\ entry'.g = entry.g /\ entry'.o = entry.o /\ entry'.acl = entry.acl
        BY <1>2, <1>4, CallFacts DEF Node
    <2>2. effective_perms_are_owner_only(entry', Write)
        BY <1>2, <2>1 DEF AcceptedBy, effective_perms_are_owner_only, ModeHas,
                          acl_has_broad_perms, acl_has_broad_perms_from_bytes
    <2>3. TypeOK'
        BY <1>1, <1>2, <1>4, <2>1 DEF Inv, TypeOK, Active, Returned, read
    <2>4. EnsureInv'
        BY <1>1, <1>2, <1>4, <2>1, <2>2, CallFacts DEF Inv, EnsureInv, AcceptedBy
    <2> QED BY <1>4, <2>3, <2>4, ReadInvKept DEF Inv
<1> QED BY <1>3, <1>4 DEF Chown

\* A file is replaced: no call has passed, or is past its check.
LEMMA SwapStep ==
    ASSUME Inv, NEW n \in KeyFile, Swap(n)
    PROVE  Inv'
<1>1. /\ entry.kind # "dir" /\ entry' = n /\ n \in Node /\ swaps' \in 0..MaxSwaps
      /\ UNCHANGED <<parent, pc, call, passed, reader, what, fd>>
    BY SecureDirAssumption DEF Swap, ensure, Inv, TypeOK
<1>2. passed = {}
    BY <1>1 DEF Inv, EnsureInv, AcceptedBy
<1>3. pc \notin {"check", "chmod", "chown", "done"}
    BY <1>1 DEF Inv, TypeOK
<1>4. TypeOK'
    BY <1>1, <1>3 DEF Inv, TypeOK
<1>5. EnsureInv'
    BY <1>1, <1>2, <1>3 DEF EnsureInv
<1>6. ReadInv'
    BY <1>1 DEF Inv, ReadInv, Accepted
<1> QED BY <1>4, <1>5, <1>6 DEF Inv

LEMMA StepInv == Inv /\ [Next]_vars => Inv'
<1> SUFFICES ASSUME Inv, [Next]_vars PROVE Inv'
    OBVIOUS
<1>1. ASSUME NEW c \in Call, Begin(c) PROVE Inv'
    BY <1>1, QuietStep, CallFacts DEF Begin
<1>2. CASE Parent
    BY <1>2, ParentStep
<1>3. CASE Entry
    BY <1>3, EntryStep
<1>4. CASE Check
    BY <1>4, CheckStep
<1>5. CASE Normalise
    BY <1>5, NormaliseStep
<1>6. CASE Chown
    BY <1>6, ChownStep
<1>7. CASE Crash
    BY <1>7, QuietStep DEF Crash
<1>8. CASE Reader
    BY <1>8, ReaderStep
<1>9. ASSUME NEW n \in KeyFile, Swap(n) PROVE Inv'
    BY <1>9, SwapStep
<1>10. CASE UNCHANGED vars
    <2>1. TypeOK'
        BY <1>10 DEF Inv, TypeOK, vars, fs, ensure, read
    <2>2. EnsureInv'
        BY <1>10 DEF Inv, EnsureInv, AcceptedBy, vars, fs, ensure, read
    <2>3. ReadInv'
        BY <1>10, ReadInvKept DEF Inv, vars
    <2> QED BY <2>1, <2>2, <2>3 DEF Inv
<1> QED BY <1>1, <1>2, <1>3, <1>4, <1>5, <1>6, <1>7, <1>8, <1>9, <1>10 DEF Next, Ensure

(***************************************************************************)
(* The inductive invariant holds in every reachable state.                 *)
(***************************************************************************)
THEOREM Invariance == Spec => []Inv
BY InitInv, StepInv, PTL DEF Spec

(***************************************************************************)
(* Every state has its type.                                               *)
(***************************************************************************)
THEOREM TypeCorrect == Spec => []TypeOK
<1>1. Inv => TypeOK
    BY DEF Inv
<1> QED BY <1>1, Invariance, PTL

(***************************************************************************)
(* A directory that ensure_secure_dir hands out has the owner asked for    *)
(* and cannot be written by a broad principal, whatever was there before,  *)
(* whatever crashed in between, with and without an ACL.                   *)
(***************************************************************************)
THEOREM EnsuredSecure == Spec => []EnsuredIsSecure
<1>1. Inv => EnsuredIsSecure
    <2> SUFFICES ASSUME Inv, pc = "done"
                 PROVE  /\ entry.kind = "dir" /\ entry.owner = call.owner
                        /\ NoBroadAccess(entry, Write)
        BY DEF EnsuredIsSecure
    <2>1. entry \in Node /\ entry.kind = "dir" /\ AcceptedBy(call)
        BY PastCheck
    <2>2. Write \in SUBSET Perm
        BY PermAssumption DEF Write
    <2>3. NoBroadAccess(entry, Write)
        BY <2>1, <2>2, EffectiveSound DEF AcceptedBy
    <2> QED BY <2>1, <2>3 DEF Inv, EnsureInv
<1> QED BY <1>1, Invariance, PTL

(***************************************************************************)
(* A call that was interrupted after it had created or accepted its        *)
(* directory is not refused when it is made again.                         *)
(***************************************************************************)
THEOREM Retry == Spec => []RetryAccepted
<1>1. Inv => RetryAccepted
    BY DEF Inv, EnsureInv, RetryAccepted
<1> QED BY <1>1, Invariance, PTL

(***************************************************************************)
(* What init prepares for HAProxy makes the host a server, and what it     *)
(* prepares for the API is accepted when the server starts.                *)
(***************************************************************************)
THEOREM Prepared == Spec => []PreparedIsAccepted
<1>1. Inv => PreparedIsAccepted
    <2> SUFFICES ASSUME Inv, pc = "done"
                 PROVE  /\ haproxy_certs_dir_is_secure(entry)
                        /\ call.name = "api" /\ entry.acl = NoAcl => validate_cert_dir(entry)
        BY DEF PreparedIsAccepted
    <2>1. call \in Call /\ entry.kind = "dir" /\ AcceptedBy(call)
        BY PastCheck
    <2>2. haproxy_certs_dir_is_secure(entry)
        BY <2>1 DEF AcceptedBy, haproxy_certs_dir_is_secure
    <2>3. ASSUME call.name = "api", entry.acl = NoAcl
          PROVE  validate_cert_dir(entry)
        <3>1. entry.g = {} /\ entry.o = {}
            BY <2>1, <2>3, CallFacts DEF Inv, EnsureInv
        <3> QED BY <2>1, <3>1 DEF validate_cert_dir, effective_perms_are_owner_only, ModeHas
    <2> QED BY <2>2, <2>3
<1> QED BY <1>1, Invariance, PTL

(***************************************************************************)
(* Keys and environment files that are read are what was checked, also     *)
(* when the path is replaced meanwhile.                                    *)
(***************************************************************************)
THEOREM ReadTrusted == Spec => []ReadIsTrusted
<1>1. Inv => ReadIsTrusted
    <2> SUFFICES ASSUME Inv, reader = "read"
                 PROVE  /\ fd.kind = "file"
                        /\ what = "key" => NoBroadAccess(fd, Perm)
                        /\ what = "env" => /\ fd.owner \in {Root, Service}
                                           /\ NoBroadAccess(fd, Write)
        BY DEF ReadIsTrusted
    <2>1. Accepted(fd) /\ what \in {"key", "env"}
        BY DEF Inv, ReadInv, TypeOK
    <2>2. fd.kind = "file"
        BY <2>1 DEF Accepted, secure_file_is_private, load_env_file
    <2>3. fd \in Node
        BY <2>2, NodeFacts DEF Inv, TypeOK
    <2>4. what = "key" => NoBroadAccess(fd, Perm)
        BY <2>1, <2>3, EffectiveSound DEF Accepted, secure_file_is_private
    <2>5. ASSUME what = "env"
          PROVE  fd.owner \in {Root, Service} /\ NoBroadAccess(fd, Write)
        <3>1. load_env_file(fd, {Root, Service})
            BY <2>1, <2>5 DEF Accepted
        <3>2. {Root, Service} \in SUBSET User
            BY SecureDirAssumption
        <3> QED BY <2>3, <3>1, <3>2, EnvFileSound
    <2> QED BY <2>2, <2>4, <2>5
<1> QED BY <1>1, Invariance, PTL

(***************************************************************************)
(* Nothing behind a symlinked component, nor the symlink, is ever changed. *)
(***************************************************************************)
THEOREM SymlinksKept == Spec => NothingThroughSymlink
<1>1. Inv /\ [Next]_vars => [parent = "symlink" => fs' = fs]_fs
    <2> SUFFICES ASSUME Inv, [Next]_vars, parent = "symlink"
                 PROVE  fs' = fs
        OBVIOUS
    <2>1. pc \notin {"entry", "check", "chmod", "chown", "done"}
        BY DEF Inv, TypeOK
    <2> QED BY <2>1 DEF Next, Begin, Ensure, Parent, Refuse, Entry, Check, Normalise, Chown,
                        Crash, Reader, Open, CheckFd, Read, Swap, vars, fs
<1> QED BY <1>1, Invariance, PTL DEF Spec, NothingThroughSymlink

(***************************************************************************)
(* No step of ensure_secure_dir takes a permission from a user whom the    *)
(* ACL of an existing directory names.                                     *)
(***************************************************************************)
THEOREM NamedUsersKept == Spec => NamedUsersKeepAccess
<1> DEFINE Step == entry # Absent /\ pc \in Active /\ swaps' = swaps /\ entry.acl # NoAcl =>
                      \A uid \in DOMAIN entry.acl.users \ {entry.owner, entry'.owner} :
                          Access(entry, uid, {}) \subseteq Access(entry', uid, {})
<1>1. Inv /\ [Next]_vars => Step
    <2> SUFFICES ASSUME Inv, [Next]_vars, entry # Absent, pc \in Active, swaps' = swaps,
                        entry.acl # NoAcl,
                        NEW uid \in DOMAIN entry.acl.users \ {entry.owner, entry'.owner}
                 PROVE  Access(entry, uid, {}) = Access(entry', uid, {})
        OBVIOUS
    <2>1. entry \in Node
        BY DEF Inv, TypeOK
    <2>2. CASE entry' = entry
        BY <2>2
    <2>3. CASE Chown /\ entry' # entry
        <3>1. entry' = [entry EXCEPT !.owner = call.owner, !.group = call.group]
            BY <2>3 DEF Chown, Fail, fs
        <3>2. /\ entry'.acl = entry.acl /\ entry'.g = entry.g
              /\ uid # entry.owner /\ uid # entry'.owner
            BY <2>1, <3>1 DEF Node
        <3> QED BY <3>2 DEF Access
    <2>4. entry' = entry \/ Chown
        <3>1. ASSUME NEW n \in KeyFile, Swap(n) PROVE FALSE
            BY <3>1 DEF Swap, Inv, TypeOK
        <3> QED BY <3>1 DEF Next, Begin, Ensure, Parent, Refuse, Fail, Entry, Check, Normalise,
                            Crash, Reader, Open, CheckFd, Read, vars, fs
    <2> QED BY <2>2, <2>3, <2>4
<1>2. Inv /\ [Next]_vars => [Step]_vars
    BY <1>1
<1> QED BY <1>2, Invariance, PTL DEF Spec, NamedUsersKeepAccess
=============================================================================
