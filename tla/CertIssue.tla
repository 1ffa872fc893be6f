----------------------------- MODULE CertIssue -----------------------------
(***************************************************************************)
(* Identities and certificates: src/certs/detect.rs, generate.rs and       *)
(* inspect.rs as operators, and the accounts and roles of paths.rs and     *)
(* role.rs that decide who may use them and where.                         *)
(*                                                                         *)
(* An identity is a DNS name or an IP address: its kind, its name in       *)
(* normal form, the way it was spelled, and whether it is usable, a        *)
(* loopback address, or invalid.  An Option is a set of at most one.       *)
(* Days are counted from an arbitrary origin.                              *)
(***************************************************************************)
EXTENDS Integers, Sequences, SequencesExt

CONSTANTS
    Account,     \* the accounts of the host
    Spelling,    \* what a name or an address may look like
    Validity,    \* days a certificate is valid
    RenewDays    \* renew is not needed with more days than this left

ASSUME CertIssueAssumption ==
    /\ Validity \in Nat
    /\ RenewDays \in Nat
    /\ RenewDays < Validity
    /\ {"localhost", "127.0.0.1"} \subseteq Spelling

None == {}
OrElse(a, b) == IF a # None THEN a ELSE b
The(option) == CHOOSE v \in option : TRUE

-----------------------------------------------------------------------------
(* src/certs/detect.rs.                                                    *)

Identity(kind, norm, spelled, class) ==
    [kind |-> kind, norm |-> norm, spelled |-> spelled, class |-> class]
Identities == [kind : {"dns", "ip"}, norm : Spelling, spelled : Spelling,
               class : {"usable", "loopback", "invalid"}]
Localhost == Identity("dns", "localhost", "localhost", "usable")
Loopback == Identity("ip", "127.0.0.1", "127.0.0.1", "loopback")

validate_ip_addr(v, allowLoopback) ==
    v.class = "usable" \/ (v.class = "loopback" /\ allowLoopback)

\* A wildcard, an empty label or a foreign character makes a name invalid.
validate_hostname(v, allowLoopback) ==
    IF v.kind = "ip" THEN validate_ip_addr(v, allowLoopback) ELSE v.class = "usable"

validate_unicast_ip(v, allowLoopback) ==
    v.kind = "ip" /\ validate_ip_addr(v, allowLoopback)

\* The first address of an interface that ip or ifconfig lists, never loopback.
detect_ip(addresses) ==
    LET outside == {i \in 1..Len(addresses) : addresses[i].class # "loopback"}
    IN  IF outside = {} THEN None ELSE {addresses[Min(outside)]}

\* Flag, then environment, then what the host says of itself, then a default.
resolve_identity(flags, env, host, addresses) ==
    [host |-> OrElse(flags.host, OrElse(env.host, OrElse(host, {Localhost}))),
     ip |-> OrElse(flags.ip, OrElse(env.ip, detect_ip(addresses)))]

\* For the server the environment is not consulted.
resolve_server_identity(flags, host, addresses) ==
    [host |-> OrElse(flags.host, OrElse(host, {Localhost})),
     ip |-> OrElse(flags.ip, detect_ip(addresses))]

-----------------------------------------------------------------------------
(* src/certs/generate.rs.  A certificate holds the SANs in order; an IP    *)
(* address loses its spelling in it.                                       *)

San(v) == [kind |-> v.kind, name |-> v.norm]

Leaf(ca, key, sans, eku, now) ==
    [ca |-> ca, key |-> key, sans |-> sans, eku |-> eku, until |-> now + Validity]

generate_client_cert(ca, key, host, now) ==
    Leaf(ca, key, <<San(host)>>, "client", now)

generate_server_cert(ca, key, host, ip, now) ==
    Leaf(ca, key, IF San(ip) = San(host) THEN <<San(host)>> ELSE <<San(host), San(ip)>>,
         "server", now)

\* Only the public key of the CSR is used.
sign_csr(ca, csr, host, now) == generate_client_cert(ca, csr.key, host, now)

\* The token of an address keeps its spelling, that of a name does not.
san_token(v) ==
    [kind |-> v.kind, name |-> IF v.kind = "ip" THEN v.spelled ELSE v.norm]

cert_san_set(cert) == ToSet(cert.sans)

\* Chain and validity (src/certs/inspect.rs).
verify_signed_by(cert, ca, now) ==
    [signed |-> cert.ca = ca, expired |-> now > cert.until]

Issued(cert, ca, sans, eku, now) ==
    /\ verify_signed_by(cert, ca, now) = [signed |-> TRUE, expired |-> FALSE]
    /\ cert.eku = eku
    /\ cert_san_set(cert) = sans

\* What is checked of a new certificate before it is published.
verify_issued_cert(cert, key, ca, sans, eku, now) ==
    Issued(cert, ca, sans, eku, now) /\ key = cert.key

verify_signed_csr(cert, csr, ca, sans, now) ==
    Issued(cert, ca, sans, "client", now) /\ csr.key = cert.key

-----------------------------------------------------------------------------
(* src/certs/inspect.rs.                                                   *)

days_until_expiry(cert, now) == IF now > cert.until THEN -1 ELSE cert.until - now

FirstSan(cert, kind) ==
    LET ofKind == {i \in 1..Len(cert.sans) : cert.sans[i].kind = kind}
        first == cert.sans[Min(ofKind)]
    IN  IF ofKind = {} THEN None
        ELSE {Identity(kind, first.name, first.name,
                       IF first = San(Loopback) THEN "loopback" ELSE "usable")}

san_identities(cert) == [host |-> FirstSan(cert, "dns"), ip |-> FirstSan(cert, "ip")]

check_san_match(cert, v) == San(v) \in cert_san_set(cert)

-----------------------------------------------------------------------------
(* src/certs/paths.rs and src/role.rs.  A caller has a real and an         *)
(* effective user and perhaps SUDO_USER; adminUser is GCOB_ADMIN_USER.  An *)
(* account is an Option: it may not exist.                                 *)

account_by_name(name) == {name} \cap Account
current_account(who) == account_by_name(who.euid)

\* Accounts with a uid below 1000.
SystemUsers == {"root", "gcob", "haproxy"}

\* The account of a person; a variable that names no account is an error, a
\* SUDO_USER that names none is passed over.
detect_admin_account(who, adminUser) ==
    IF adminUser # "" THEN account_by_name(adminUser)
    ELSE OrElse(account_by_name(who.sudo) \ {"root"},
                account_by_name(who.ruid) \ SystemUsers)

check_gcob_access(who) == account_by_name("gcob") # None /\ who.ruid \in {"gcob", "root"}
is_gcob_user(who) == account_by_name("gcob") # None /\ who.euid = "gcob"

role_from(explicit, serverEnv) ==
    CASE explicit = "client" -> "client"
      [] explicit = "server" -> "server"
      [] OTHER -> IF serverEnv THEN "server" ELSE "client"
=============================================================================
