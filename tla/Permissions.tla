---------------------------- MODULE Permissions ----------------------------
(***************************************************************************)
(* Who may do what with a file, and what src/certs/paths.rs concludes from *)
(* its mode bits and its POSIX ACL.  A permission set stands for one octal *)
(* digit.  When a node has an access ACL, the group digit that stat        *)
(* reports is the mask of the ACL and the other digit its other entry; the *)
(* entry of the owning group is in the ACL only.                           *)
(***************************************************************************)
EXTENDS Naturals

CONSTANTS
    User,       \* user ids
    Group,      \* group ids
    Perm        \* permissions: "w" and at least one other

ASSUME PermAssumption == "w" \in Perm

Acls == UNION {[groupObj : SUBSET Perm, users : [us -> SUBSET Perm],
                groups : [gs -> SUBSET Perm]] : us \in SUBSET User, gs \in SUBSET Group}
NoAcl == [groupObj |-> {}]

\* What lstat and getxattr tell of an entry of a directory.
Node == [kind : {"dir", "file", "symlink"}, owner : User, group : Group,
         u : SUBSET Perm, g : SUBSET Perm, o : SUBSET Perm, acl : Acls \cup {NoAcl}]

-----------------------------------------------------------------------------
(* The kernel: POSIX 1003.1e access check, for one permission at a time.   *)

\* The ACL entries that match one of the groups of a process.
Matching(n, gs) ==
    {n.acl.groups[h] : h \in gs \cap DOMAIN n.acl.groups} \cup
    (IF n.group \in gs THEN {n.acl.groupObj} ELSE {})

Access(n, uid, gs) ==
    IF uid = n.owner THEN n.u
    ELSE IF n.acl = NoAcl THEN IF n.group \in gs THEN n.g ELSE n.o
    ELSE IF uid \in DOMAIN n.acl.users THEN n.acl.users[uid] \cap n.g
    ELSE IF Matching(n, gs) # {} THEN (UNION Matching(n, gs)) \cap n.g
    ELSE n.o

\* A broad principal: neither the owner nor a user the ACL names.
Broad(n, uid) == uid # n.owner /\ (n.acl # NoAcl => uid \notin DOMAIN n.acl.users)

\* No broad principal has any of perms.
NoBroadAccess(n, perms) ==
    \A uid \in User, gs \in SUBSET Group :
        Broad(n, uid) => Access(n, uid, gs) \cap perms = {}

-----------------------------------------------------------------------------
(* src/certs/paths.rs.                                                     *)

\* mode & 0o022 and mode & 0o077, as sets of permissions.
Write == {"w"}
ModeHas(n, perms) == (n.g \cup n.o) \cap perms # {}

\* Mutant of acl_has_broad_perms_from_bytes: named groups are overlooked.
acl_has_broad_perms_from_bytes_NoGroups(n, perms) ==
    \/ n.acl.groupObj \cap perms # {}
    \/ n.o \cap perms # {}

\* GROUP_OBJ, GROUP and OTHER entries count, and USER entries do not.
acl_has_broad_perms_from_bytes(n, perms) ==
    \/ n.acl.groupObj \cap perms # {}
    \/ \E h \in DOMAIN n.acl.groups : n.acl.groups[h] \cap perms # {}
    \/ n.o \cap perms # {}

\* None without an ACL, else Some(TRUE) or Some(FALSE).
acl_has_broad_perms(n, perms) ==
    IF n.acl = NoAcl THEN {} ELSE {acl_has_broad_perms_from_bytes(n, perms)}

effective_perms_are_owner_only(n, perms) ==
    ~ModeHas(n, perms) \/ acl_has_broad_perms(n, perms) = {FALSE}

\* haproxy_certs_dir_is_secure, of the directory that makes a host a server.
haproxy_certs_dir_is_secure(n) ==
    n.kind = "dir" /\ effective_perms_are_owner_only(n, Write)

\* validate_cert_dir of src/certs/mtls_certs.rs, before the server starts.
validate_cert_dir(n) ==
    n.kind = "dir" /\ effective_perms_are_owner_only(n, Perm)

\* Of the nodes on a path.
reject_symlink_components(nodes) == \A n \in nodes : n.kind # "symlink"

\* validate_cln_source: the directory and the key of the CA of CLN.  ACLs are
\* not looked at: the mask is among the bits that must be clear.
validate_cln_source(dir, key) ==
    /\ reject_symlink_components({dir, key})
    /\ dir.kind = "dir" /\ ~ModeHas(dir, Write)
    /\ key.kind = "file" /\ ~ModeHas(key, Perm)

\* The check of read_secure_file, on the open descriptor of a private key.
secure_file_is_private(n) ==
    n.kind = "file" /\ effective_perms_are_owner_only(n, Perm)

\* The check of load_env_file (src/config.rs): owner, and mode 0600 or 0640.
load_env_file(n, owners) ==
    /\ n.kind = "file"
    /\ n.owner \in owners
    /\ n.u = {"r", "w"} /\ n.g \in {{}, {"r"}} /\ n.o = {}

\* chmod of a node with an ACL sets the mask instead of the owning group.
Chmod(n, u, g, o) == [n EXCEPT !.u = u, !.g = g, !.o = o]
=============================================================================
