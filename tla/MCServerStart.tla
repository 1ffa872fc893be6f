--------------------------- MODULE MCServerStart ---------------------------
(***************************************************************************)
(* A root shell of the admin, the service user and a stranger; flags that  *)
(* ask for nothing, for a name and an address, and for an address in a     *)
(* spelling that is not canonical.                                         *)
(***************************************************************************)
EXTENDS ServerStart

MCSpelling == {"localhost", "127.0.0.1", "host", "node", "::2", "0::2", "10.0.0.1", "10.0.0.2"}
Dns(name) == Identity("dns", name, name, "usable")
Ip(name, spelled) == Identity("ip", name, spelled, "usable")

Admin == [ruid |-> "root", euid |-> "root", sudo |-> "admin"]
Gcob == [ruid |-> "gcob", euid |-> "gcob", sudo |-> ""]
Other == [ruid |-> "other", euid |-> "other", sudo |-> ""]

Nothing == [host |-> None, ip |-> None]
Node == [host |-> {Dns("node")}, ip |-> {Ip("::2", "::2")}]
Spelled == [host |-> {Dns("node")}, ip |-> {Ip("::2", "0::2")}]
Literal == [host |-> {Ip("10.0.0.2", "10.0.0.2")}, ip |-> {Ip("10.0.0.2", "10.0.0.2")}]

Opt(who, flags, dir, force, ca, expected) ==
    [who |-> who, flags |-> flags, dir |-> dir, force |-> force, rotate |-> ca,
     initca |-> ca, loopback |-> FALSE, expected |-> expected]
MCOption ==
    {Opt(Admin, fd[1], fd[2], fc[1], fc[2], None) :
        fd \in {<<Nothing, None>>, <<Node, None>>, <<Nothing, {"srv"}>>},
        fc \in {<<FALSE, FALSE>>, <<TRUE, FALSE>>, <<TRUE, TRUE>>}}
    \cup {Opt(Admin, Spelled, None, FALSE, FALSE, None),
          Opt(Admin, Literal, None, FALSE, FALSE, {0}),
          Opt(Gcob, Nothing, None, FALSE, FALSE, None),
          Opt(Other, Nothing, None, FALSE, FALSE, None)}

MCConf == {[admin |-> "admin", role |-> "auto", peer |-> "cln"],
           [admin |-> "", role |-> "server", peer |-> "haproxy"]}
MCAccount == {"root", "gcob", "haproxy", "admin"}
MCHostName == {Dns("host")}
MCAddresses == <<Loopback, Ip("10.0.0.1", "10.0.0.1")>>

MCLimit == {"streams", "preauth"}
MCDefaultLimit == [streams |-> 256, preauth |-> 120]
MCLimitEnv == {None, {0}}
=============================================================================
