---------------------------- MODULE MCSecureDir ----------------------------
(***************************************************************************)
(* Root, the admin, the service user and a stranger; two groups, of which  *)
(* an ACL may name one; every combination of read and write bits for       *)
(* directories with and without an ACL that names the service user, and    *)
(* for keys.                                                               *)
(***************************************************************************)
EXTENDS SecureDir

MCUser == {"root", "admin", "gcob", "other"}
MCGroup == {"staff", "svc"}
MCPerm == {"r", "w"}

Api(euid) ==
    [name |-> "api", euid |-> euid, g |-> {}, owner |-> "gcob", group |-> "svc",
     allowed |-> {"root", euid, "gcob", "admin"}]
Haproxy(euid) ==
    [name |-> "haproxy", euid |-> euid, g |-> {"r"}, owner |-> "root", group |-> "svc",
     allowed |-> {"root", euid}]
Client(euid) ==
    [name |-> "client", euid |-> euid, g |-> {}, owner |-> "admin", group |-> "staff",
     allowed |-> {"root", "admin"}]
Sign(euid) ==
    [name |-> "sign", euid |-> euid, g |-> {}, owner |-> euid, group |-> "svc",
     allowed |-> {"root", euid, "admin"}]

MCCall == {Api("root"), Api("gcob"), Haproxy("root"), Client("admin"),
           Client("root"), Sign("gcob")}

MCAcl == {[groupObj |-> b, users |-> [x \in {"gcob"} |-> us], groups |-> [x \in {"staff"} |-> gs]]
            : b \in SUBSET MCPerm, us \in {{"r"}, MCPerm}, gs \in SUBSET MCPerm}
MCNode(kinds, owners) ==
    [kind : kinds, owner : owners, group : {"staff"}, u : {MCPerm},
     g : SUBSET MCPerm, o : SUBSET MCPerm, acl : MCAcl \cup {NoAcl}]
Symlink == [kind |-> "symlink", owner |-> "other", group |-> "staff", u |-> MCPerm,
            g |-> {}, o |-> {}, acl |-> NoAcl]
MCKeyFile ==
    [kind : {"file"}, owner : {"gcob"}, group : {"svc"}, u : {{"r"}},
     g : {{}, {"r"}}, o : {{}, {"r"}}, acl : {NoAcl}] \cup {Symlink}
MCInitNode ==
    MCNode({"dir"}, MCUser) \cup MCNode({"file"}, {"other", "root"}) \cup MCKeyFile
        \cup {Symlink, Absent}
=============================================================================
