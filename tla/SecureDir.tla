----------------------------- MODULE SecureDir -----------------------------
(***************************************************************************)
(* ensure_secure_dir and read_secure_file of src/certs/paths.rs, on one    *)
(* path of two components: a parent and an entry.  Every command that      *)
(* writes certificates prepares its directories with the first, system     *)
(* call by system call, and may die in between and be run again; serve     *)
(* reads every key with the second, while the entry may be replaced.       *)
(*                                                                         *)
(* External: the kernel.  Directories are created without an ACL (a parent *)
(* with a default ACL is not modelled), and chmod and chown of a file that *)
(* is not the caller's fail unless the caller is root.                     *)
(***************************************************************************)
EXTENDS Permissions

CONSTANTS
    Root,       \* uid 0
    Service,    \* the user that reads files
    Call,       \* the calls of ensure_secure_dir that the commands make
    InitNode,   \* entries to begin with
    KeyFile,    \* files that may be renamed over the entry
    MaxSwaps    \* bound: how often that happens

Absent == [kind |-> "absent"]
ParentKind == {"dir", "file", "symlink", "absent"}

\* A call: the caller, mode 0700 or 0750 as sets, the new owner, and owners
\* that are accepted.
Calls == [name : {"haproxy", "api", "sign", "client"}, euid : User, g : SUBSET Perm,
          owner : User, group : Group, allowed : SUBSET User]
NoCall == [name |-> "none"]

ASSUME SecureDirAssumption ==
    /\ {Root, Service} \subseteq User
    /\ Call \subseteq Calls
    /\ \A c \in Call : /\ c.g \cap Write = {} /\ {c.euid, c.owner} \subseteq c.allowed
                       /\ c.name = "api" => c.g = {}
    /\ InitNode \subseteq Node \cup {Absent}
    /\ KeyFile \subseteq Node
    /\ MaxSwaps \in Nat

VARIABLES
    parent,   \* kind of the first component
    entry,    \* the second component: a node, or absent
    pc,       \* progress of ensure_secure_dir
    call,     \* its arguments
    passed,   \* observation: the call that created the entry or accepted it last
    reader,   \* progress of read_secure_file or load_env_file
    what,     \* which of them: a key or the environment file
    fd,       \* the node it has opened
    swaps     \* replacements so far

fs == <<parent, entry>>
ensure == <<pc, call, passed>>
read == <<reader, what, fd, swaps>>
vars == <<fs, ensure, read>>

Active == {"parent", "entry", "check", "chmod", "chown"}
Returned == {"done", "refused", "failed"}

Init ==
    /\ parent \in ParentKind
    /\ entry \in InitNode
    /\ parent \in {"file", "absent"} => entry = Absent
    /\ pc = "idle"
    /\ call = NoCall
    /\ passed = {}
    /\ reader = "idle"
    /\ what = "key"
    /\ fd = Absent
    /\ swaps = 0

-----------------------------------------------------------------------------
(* ensure_secure_dir.                                                      *)

Begin(c) ==
    /\ pc \in {"idle"} \cup Returned
    /\ call' = c
    /\ pc' = "parent"
    /\ UNCHANGED <<fs, passed, read>>

\* mkdir, chmod or chown is not permitted, or fails.
Fail ==
    /\ pc' = "failed"
    /\ UNCHANGED <<fs, call, passed, read>>

Refuse ==
    /\ pc' = "refused"
    /\ UNCHANGED <<fs, call, passed, read>>

\* A component that is a symlink, or no directory, is refused; one that is
\* missing is created.
Parent ==
    /\ pc = "parent"
    /\ \/ parent \in {"symlink", "file"} /\ Refuse
       \/ parent = "absent" /\ Fail
       \/ /\ parent \in {"dir", "absent"}
          /\ parent' = "dir"
          /\ pc' = "entry"
          /\ UNCHANGED <<entry, call, passed, read>>

Entry ==
    /\ pc = "entry"
    /\ \/ entry.kind \in {"symlink", "file"} /\ Refuse
       \/ entry = Absent /\ Fail
       \/ /\ entry.kind \in {"dir", "absent"}
          /\ entry' = IF entry # Absent THEN entry ELSE
                        [kind |-> "dir", owner |-> call.euid, group |-> call.group,
                         u |-> Perm, g |-> {}, o |-> {}, acl |-> NoAcl]
          /\ passed' = IF entry = Absent THEN {call} ELSE passed
          /\ pc' = "check"
          /\ UNCHANGED <<parent, call, read>>

\* Mutant of Refused: only the owner that is about to be set is accepted.
Refused_OtherOwners ==
    \/ ModeHas(entry, Write) /\ acl_has_broad_perms(entry, Write) # {FALSE}
    \/ entry.owner # call.owner

\* Writable by group or other, unless by users an ACL names; or not ours.
Refused ==
    \/ ModeHas(entry, Write) /\ acl_has_broad_perms(entry, Write) # {FALSE}
    \/ entry.owner \notin call.allowed

Check ==
    /\ pc = "check"
    /\ \/ Refused /\ Refuse
       \/ /\ ~Refused
          /\ passed' = {call}
          /\ pc' = "chmod"
          /\ UNCHANGED <<fs, call, read>>

MayChange == call.euid \in {Root, entry.owner}

\* Mutant of Normalise: the mode is set whether or not there is an ACL.
Normalise_Always ==
    /\ pc = "chmod"
    /\ MayChange
    /\ entry' = Chmod(entry, Perm, call.g, {})
    /\ pc' = "chown"
    /\ UNCHANGED <<parent, call, passed, read>>

\* Mutant of Normalise: an existing directory keeps its mode.
Normalise_Never ==
    /\ pc = "chmod"
    /\ pc' = "chown"
    /\ UNCHANGED <<fs, call, passed, read>>

\* The mode is set unless there is an ACL.
Normalise ==
    /\ pc = "chmod"
    /\ \/ entry.acl = NoAcl /\ ~MayChange /\ Fail
       \/ /\ entry.acl = NoAcl => MayChange
          /\ entry' = IF entry.acl = NoAcl THEN Chmod(entry, Perm, call.g, {}) ELSE entry
          /\ pc' = "chown"
          /\ UNCHANGED <<parent, call, passed, read>>

Chown ==
    LET mine == call.euid = entry.owner /\ call.owner = entry.owner
    IN
    /\ pc = "chown"
    /\ \/ call.euid # Root /\ ~mine /\ Fail
       \/ /\ call.euid = Root \/ mine
          /\ entry' = [entry EXCEPT !.owner = call.owner, !.group = call.group]
          /\ pc' = "done"
          /\ UNCHANGED <<parent, call, passed, read>>

Crash ==
    /\ pc \in Active
    /\ pc' = "idle"
    /\ call' = NoCall
    /\ UNCHANGED <<fs, passed, read>>

-----------------------------------------------------------------------------
(* read_secure_file of a private key, and load_env_file of src/config.rs.  *)

\* Somebody renames another file over the path.
Swap(n) ==
    /\ swaps < MaxSwaps
    /\ parent = "dir"
    /\ entry.kind \in {"file", "symlink"}
    /\ entry' = n
    /\ swaps' = swaps + 1
    /\ UNCHANGED <<parent, ensure, reader, what, fd>>

\* O_NOFOLLOW: a symlink is not opened.
Open ==
    /\ reader = "idle"
    /\ entry.kind \in {"dir", "file"}
    /\ fd' = entry
    /\ what' \in {"key", "env"}
    /\ reader' = "opened"
    /\ UNCHANGED <<fs, ensure, swaps>>

Accepted(n) ==
    IF what = "key" THEN secure_file_is_private(n) ELSE load_env_file(n, {Root, Service})

\* Mutant of CheckFd: the path is checked instead of the descriptor.
CheckFd_ByPath ==
    /\ reader = "opened"
    /\ reader' = IF Accepted(entry) THEN "checked" ELSE "refused"
    /\ UNCHANGED <<fs, ensure, what, fd, swaps>>

\* Type, mode and ACL of the open descriptor are checked.
CheckFd ==
    /\ reader = "opened"
    /\ reader' = IF Accepted(fd) THEN "checked" ELSE "refused"
    /\ UNCHANGED <<fs, ensure, what, fd, swaps>>

Read ==
    /\ reader = "checked"
    /\ reader' = "read"
    /\ UNCHANGED <<fs, ensure, what, fd, swaps>>

-----------------------------------------------------------------------------
Ensure == Parent \/ Entry \/ Check \/ Normalise \/ Chown
Reader == Open \/ CheckFd \/ Read

Next ==
    \/ \E c \in Call : Begin(c)
    \/ Ensure \/ Crash \/ Reader
    \/ \E n \in KeyFile : Swap(n)

Spec == Init /\ [][Next]_vars

-----------------------------------------------------------------------------
(***************************************************************************)
(* Types; while a call is past its first component, that is a directory.   *)
(***************************************************************************)
TypeOK ==
    /\ parent \in ParentKind
    /\ entry \in Node \cup {Absent}
    /\ pc \in {"idle"} \cup Active \cup Returned
    /\ call \in Call \cup {NoCall}
    /\ pc = "idle" <=> call = NoCall
    /\ passed \in {{}} \cup {{c} : c \in Call}
    /\ pc \in {"entry", "check", "chmod", "chown", "done"} => parent = "dir"
    /\ pc \in {"check", "chmod", "chown", "done"} => entry.kind = "dir"
    /\ reader \in {"idle", "opened", "checked", "read", "refused"}
    /\ what \in {"key", "env"}
    /\ fd \in Node \cup {Absent}
    /\ swaps \in 0..MaxSwaps

(***************************************************************************)
(* A directory that ensure_secure_dir hands out belongs to the account     *)
(* asked for, and nobody but its owner and users named in its ACL can      *)
(* write to it, as the kernel decides it.                                  *)
(***************************************************************************)
EnsuredIsSecure ==
    pc = "done" => /\ entry.kind = "dir"
                   /\ entry.owner = call.owner
                   /\ NoBroadAccess(entry, Write)

(***************************************************************************)
(* chmod would reset the ACL mask and silently revoke the access of named  *)
(* users (the gcob service user): no step takes a permission from a user   *)
(* whom the ACL names, unless he was the owner.                            *)
(***************************************************************************)
NamedUsersKeepAccess ==
    [][entry # Absent /\ pc \in Active /\ swaps' = swaps /\ entry.acl # NoAcl =>
          \A uid \in DOMAIN entry.acl.users \ {entry.owner, entry'.owner} :
              Access(entry, uid, {}) \subseteq Access(entry', uid, {})]_vars

(***************************************************************************)
(* No symlinked path component is ever followed for writes: what lies      *)
(* behind one stays as it was, and the symlink too.                        *)
(***************************************************************************)
NothingThroughSymlink ==
    [][parent = "symlink" => fs' = fs]_fs

(***************************************************************************)
(* A command that died after it had created or accepted its directory,     *)
(* between mkdir, chmod and chown, is not locked out by what it left       *)
(* behind: run again, it passes the checks.                                *)
(***************************************************************************)
RetryAccepted == pc = "refused" => call \notin passed

(***************************************************************************)
(* What init prepares is accepted later.  The directory of HAProxy makes   *)
(* the host a server (is_server_env), and the server takes the API         *)
(* directory when it starts, if no ACL has been set on it: it is no wider  *)
(* than the server tolerates.                                              *)
(***************************************************************************)
PreparedIsAccepted ==
    pc = "done" =>
        /\ call.name = "haproxy" => haproxy_certs_dir_is_secure(entry)
        /\ call.name = "api" /\ entry.acl = NoAcl => validate_cert_dir(entry)

(***************************************************************************)
(* A key that read_secure_file returns comes from a regular file that no   *)
(* broad principal can read or write; an environment file that is loaded   *)
(* belongs to root or the process, and no broad principal can write it.    *)
(* That holds of the file that is read, also when the path was replaced    *)
(* between the open and the check.                                         *)
(***************************************************************************)
ReadIsTrusted ==
    reader = "read" =>
        /\ fd.kind = "file"
        /\ what = "key" => NoBroadAccess(fd, Perm)
        /\ what = "env" => fd.owner \in {Root, Service} /\ NoBroadAccess(fd, Write)
=============================================================================
