----------------------------- MODULE CertStatus -----------------------------
(***************************************************************************)
(* The commands that only look: gcob certs list, show and verify           *)
(* (src/cli/certs.rs), as operators on what a directory holds.  What they  *)
(* print is a mark per file; the text around it is left out, and so is     *)
(* what they only print and do not count (SANs, equality of CA files).     *)
(***************************************************************************)
EXTENDS CertIssue

File == {"ca", "server", "server_key", "client", "client_key", "csr"}
Absent == [kind |-> "absent"]
KeyPem(key, mode) == [key |-> key, mode |-> mode]
KeyFile == {"server_key", "client_key"}

\* Every target but a CA, which is taken not to expire, has a day.
parse_cert(file, content, now) ==
    [is_ca |-> file = "ca",
     days_remaining |-> IF file = "ca" THEN Validity ELSE days_until_expiry(content, now)]

\* A key with a bit for group or other would be insecure; none is published.
print_cert_status(dir, files, now) ==
    [f \in files |->
        IF dir[f] = Absent THEN "not found"
        ELSE IF f \in KeyFile
             THEN IF dir[f].mode = "0400" THEN "read-only" ELSE "restricted"
        ELSE IF parse_cert(f, dir[f], now).days_remaining > 0 THEN "valid" ELSE "expired"]

\* The client files, and with --server those of HAProxy; none without access.
\* (Keys of CLN, which no command here writes, are left out.)
handle_list(who, server, serverEnv, dir, hap, now) ==
    IF ~check_gcob_access(who) \/ (server /\ ~serverEnv) THEN None
    ELSE {print_cert_status(dir, {"ca", "client", "client_key"}, now)} \cup
         (IF server THEN {print_cert_status(hap, {"ca", "server", "client"}, now)} ELSE {})

\* One certificate, the server's if none is named.
handle_show(who, file, dir, now) ==
    IF check_gcob_access(who) /\ dir[file] # Absent
    THEN {parse_cert(file, dir[file], now).days_remaining > 0} ELSE None

-----------------------------------------------------------------------------
(* verify: a sequence of results, of which the passed ones are counted.    *)

verify_ca_section(dir) == <<dir["ca"] # Absent>>
verify_api_section(dir) == <<dir["ca"] # Absent>>

\* Signed by the CA next to it, and not expired.
Chained(dir, file, now) ==
    /\ dir[file] # Absent
    /\ dir["ca"] # Absent
    /\ verify_signed_by(dir[file], dir["ca"].ca, now) = [signed |-> TRUE, expired |-> FALSE]

verify_client_section(dir, now) ==
    << dir["ca"] # Absent,
       Chained(dir, "client", now),
       dir["client_key"] # Absent /\ dir["client_key"].mode = "0400" >>

verify_haproxy_section(hap, now) ==
    << hap["ca"] # Absent, Chained(hap, "server", now), Chained(hap, "client", now) >>

\* An Option: the CA and the modes of the keys in --cln-dir, if that exists.
verify_cln_section(source) ==
    IF source = None THEN <<>>
    ELSE <<The(source).ca, The(source).caKey = "0400", The(source).serverKey = "0400">>

handle_verify(who, target, serverEnv, dir, hap, source, now) ==
    LET onServer == verify_haproxy_section(hap, now) \o verify_cln_section(source)
    IN  IF ~check_gcob_access(who) THEN <<>>
        ELSE CASE target = "ca" -> verify_ca_section(dir)
               [] target = "server" -> IF serverEnv THEN onServer ELSE <<>>
               [] target = "client" -> verify_client_section(dir, now)
               [] OTHER -> verify_client_section(dir, now) \o
                           (IF serverEnv THEN verify_api_section(dir) \o onServer ELSE <<>>)
=============================================================================
