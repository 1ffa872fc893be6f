---------------------------- MODULE ServerStart ----------------------------
(***************************************************************************)
(* gcob serve from the command line to the listening server: main.rs,      *)
(* handle_serve (src/cli/server.rs), ClnConfig (src/certs/mtls_certs.rs),  *)
(* ClnClient::connect (src/cln/client.rs), Limits (src/grpc/limits.rs) and *)
(* run (src/grpc/server.rs), while an operator runs the commands of        *)
(* Deployment.  Files are read one by one, after one look at all of them.  *)
(*                                                                         *)
(* External: the TLS handshake of the first call to CLN (getinfo), made    *)
(* with CLN itself or with HAProxy, which in turn calls CLN with its own   *)
(* certificate.  A server that may not start leaves no trace.              *)
(***************************************************************************)
EXTENDS Deployment

CONSTANTS
    Limit,         \* names of limits
    DefaultLimit,  \* their defaults
    LimitEnv,      \* settings of the variables: Options of an integer
    MaxStarts      \* bound: attempts to start

ASSUME ServerStartAssumption ==
    /\ \A l \in Limit : DefaultLimit[l] > 0
    /\ MaxStarts \in Nat

VARIABLE
    start     \* progress: phase, directory, files read, limits, attempts, and
              \* whether a command has changed the directory meanwhile

vars == <<deployment, start>>

Down(n) == [phase |-> "down", dir |-> "none", got |-> <<>>, limits |-> None,
            mixed |-> FALSE, starts |-> n]

StartInit == Init /\ start = Down(0)

-----------------------------------------------------------------------------
(* Limits: a variable that is set must hold a positive integer; -1 stands  *)
(* for what does not parse.                                                *)

parse(value, default) ==
    IF value = None THEN {default} ELSE {v \in value : v > 0}

\* None if one of the variables is invalid.
from_lookup(env) ==
    IF \E l \in Limit : parse(env[l], DefaultLimit[l]) = None THEN None
    ELSE {[l \in Limit |-> The(parse(env[l], DefaultLimit[l]))]}

-----------------------------------------------------------------------------
Order == <<"ca", "client", "client_key", "server", "server_key", "ca">>

\* CLN_CERT_DIR, or the admin's ~/.certs.
resolve_cert_dir(e) == OrElse(e.dir, default_cert_dir(e.who))

\* A key must be owner-only, as every published key is (see SecureDir).
validate_cert(d, f) ==
    /\ Exists(d, f)
    /\ f \in KeyFile => disk[d][f].mode \in {"0400", "0600"}

validate_all(d) == \A i \in 1..Len(Order) : validate_cert(d, Order[i])

\* In development mode another user is only warned about.
validate_user(e) == is_gcob_user(e.who) \/ e.dev

ServeEnv == [who : {o.who : o \in Option}, dev : BOOLEAN, dir : {None, {"srv"}},
             limits : [Limit -> LimitEnv]]

handle_serve ==
    /\ start.phase = "down"
    /\ start.starts < MaxStarts
    /\ require_server
    /\ \E e \in ServeEnv :
         /\ validate_user(e)
         /\ from_lookup(e.limits) # None
         /\ \E d \in resolve_cert_dir(e) :
              /\ validate_all(d)
              /\ start' = [phase |-> "reading", dir |-> d, got |-> <<>>, mixed |-> FALSE,
                           limits |-> from_lookup(e.limits), starts |-> start.starts + 1]
    /\ UNCHANGED deployment

\* read_secure_file of the next file; a missing one ends the start.
read_secure_file(count0, file) ==
    /\ start.phase = "reading"
    /\ Len(start.got) = count0
    /\ start' = IF Exists(start.dir, file)
                THEN [start EXCEPT !.got = Append(@, disk[start.dir][file]),
                                   !.phase = IF count0 = 2 THEN "getinfo"
                                             ELSE IF count0 = 5 THEN "tls" ELSE @]
                ELSE Down(start.starts)
    /\ UNCHANGED deployment

\* What HAProxy needs to answer and to reach CLN, or CLN by itself.
PeerWorks ==
    conf.peer = "haproxy" =>
        /\ Chained(disk["haproxy"], "server", now)
        /\ Chained(disk["haproxy"], "client", now)
        /\ disk["haproxy"]["ca"].ca = cln

\* Mutual TLS: each side accepts the certificate of the other.
Handshake(ca, client, key) ==
    /\ PeerWorks
    /\ ca.ca = cln
    /\ client.key = key.key
    /\ client.eku = "client"
    /\ verify_signed_by(client, cln, now) = [signed |-> TRUE, expired |-> FALSE]

\* Mutant of connect: the channel is left to connect when it is first used.
connect_Lazy ==
    /\ start.phase = "getinfo"
    /\ start' = [start EXCEPT !.phase = "reading"]
    /\ UNCHANGED deployment

\* connect_lazy, and at once a call of getinfo over the channel.
connect ==
    /\ start.phase = "getinfo"
    /\ start' = IF Handshake(start.got[1], start.got[2], start.got[3])
                THEN [start EXCEPT !.phase = "reading"] ELSE Down(start.starts)
    /\ UNCHANGED deployment

\* tls_config refuses a key that is not the certificate's; then it listens.
run ==
    /\ start.phase = "tls"
    /\ start' = IF start.got[4].key = start.got[5].key
                THEN [start EXCEPT !.phase = "up"] ELSE Down(start.starts)
    /\ UNCHANGED deployment

Stop ==
    /\ start.phase = "up"
    /\ start' = Down(start.starts)
    /\ UNCHANGED deployment

\* A command goes on while a server starts or runs.  To start takes less
\* than a day.
Command ==
    /\ Operator
    /\ start.phase \in {"reading", "getinfo", "tls"} => now' = now
    /\ start' = [start EXCEPT !.mixed =
                    @ \/ (start.phase \in {"reading", "getinfo", "tls"} /\
                          disk'[start.dir] # disk[start.dir])]

Serve ==
    \/ handle_serve
    \/ \E i \in 1..Len(Order) : read_secure_file(i - 1, Order[i])
    \/ connect \/ run \/ Stop

Next == Command \/ Serve

Spec == StartInit /\ [][Next]_vars

-----------------------------------------------------------------------------
\* A start in directory d would succeed, if nothing is changed meanwhile.
Startable(d) ==
    /\ validate_all(d)
    /\ Handshake(disk[d]["ca"], disk[d]["client"], disk[d]["client_key"])
    /\ disk[d]["server"].key = disk[d]["server_key"].key

\* The service user, who may look.
Viewer == [ruid |-> "gcob", euid |-> "gcob", sudo |-> ""]

\* gcob certs verify, of one target and without --cln-dir.
Verify(target, d) ==
    handle_verify(Viewer, target, haproxy, disk[d], disk["haproxy"], None, now)

\* The phases of a start, and those after its first look at the files.
Phase == {"down", "reading", "getinfo", "tls", "up"}
Starting == start.phase \in {"reading", "getinfo", "tls"}

(***************************************************************************)
(* Types; and as many files have been read as the phase says.              *)
(***************************************************************************)
TypeOK ==
    /\ start \in [phase : Phase, dir : {"none"} \cup ServerDir, mixed : BOOLEAN,
                  got : Seq(ToSet(start.got)), limits : {start.limits}, starts : 0..MaxStarts]
    /\ start.phase # "down" => start.dir \in ServerDir
    /\ Len(start.got) \in CASE start.phase = "down" -> {0}
                            [] start.phase = "reading" -> 0..5
                            [] start.phase = "getinfo" -> {3}
                            [] OTHER -> {6}

\* What was read is what is there, as long as no command has changed it; and
\* when CLN has answered, no file of an older CA is there.
ReadExact ==
    Starting /\ ~start.mixed =>
        /\ \A i \in 1..Len(start.got) :
              Exists(start.dir, Order[i]) /\ start.got[i] = disk[start.dir][Order[i]]
        /\ Len(start.got) >= 3 /\ start.phase # "getinfo" =>
              /\ start.got[2].ca = start.got[1].ca
              /\ Exists(start.dir, "server") =>
                    disk[start.dir]["server"].ca = start.got[1].ca

(***************************************************************************)
(* A server that listens serves one generation of certificates: its key is *)
(* that of its certificate, and the CA it trusts has signed it and its     *)
(* client certificate.  Nothing checks the server certificate's issuer:    *)
(* after a command that died between two files, it is the call of getinfo  *)
(* that must refuse.  A command that was writing the directory during the  *)
(* start is excepted: its files are not read at one instant.               *)
(***************************************************************************)
UpIsCoherent ==
    start.phase = "up" /\ ~start.mixed =>
        /\ start.got[4].key = start.got[5].key
        /\ start.got[1] = start.got[6]
        /\ \A i \in {2, 4} : start.got[i].ca = start.got[6].ca

(***************************************************************************)
(* Invalid or zero values fail startup instead of silently disabling a     *)
(* control: every limit of a server that starts or listens is positive, as *)
(* long as it runs and whatever was set.                                   *)
(***************************************************************************)
NoControlDisabled ==
    start.phase # "down" => \A l \in Limit : The(start.limits)[l] > 0

(***************************************************************************)
(* The invariant of a start, and inductive: what the commands leave, what  *)
(* has been read of it, and so a server that listens has certificates of   *)
(* one generation and every control in force.                              *)
(***************************************************************************)
ServerInv ==
    DeploymentInv /\ TypeOK /\ ReadExact /\ UpIsCoherent /\ NoControlDisabled

(***************************************************************************)
(* What init or renew leaves when it succeeds is what serve and verify     *)
(* want: as long as CLN keeps the CA and nothing has expired, the server   *)
(* can start in that directory, and verify passes every certificate, on    *)
(* the server and in HAProxy's directory.                                  *)
(***************************************************************************)
SuccessServes ==
    \A d \in {"admin", "srv"} :
        /\ health[d] = "good"
        /\ disk[d]["server"].ca = cln
        /\ now <= disk[d]["client"].until
        => /\ PeerWorks => Startable(d)
           /\ Chained(disk[d], "client", now)
           /\ Chained(disk[d], "server", now)
           /\ health["haproxy"] = "good" /\ disk["haproxy"]["client"].until >= now =>
                Verify("server", d) = <<TRUE, TRUE, TRUE>>

(***************************************************************************)
(* Renewing without flags keeps the identity of the installed server       *)
(* certificate: the same names, whatever the host says of itself.          *)
(***************************************************************************)
RenewKeepsIdentity ==
    job # NoJob /\ job.cmd = "renew" /\ job.keep # <<>> =>
        \A i \in 1..Len(job.plan) :
            job.plan[i].file = "server" => job.plan[i].content.sans = job.keep

(***************************************************************************)
(* A client certificate that answers the present request of a client host  *)
(* works there: it goes with the key on that host, is for clients only,    *)
(* and verify passes while it is valid, if the CA that came with it is the *)
(* one that signed it.  A client_init that died halfway is excepted.       *)
(***************************************************************************)
AnsweredRequestWorks ==
    LET home == disk["client"] IN
    /\ health["client"] = "good"
    /\ Exists("client", "client")
    /\ home["client"].key = home["csr"].key
    => /\ home["client_key"].key = home["client"].key
       /\ home["client"].eku = "client"
       /\ home["ca"].ca = home["client"].ca /\ now <= home["client"].until =>
            Verify("client", "client") = <<TRUE, TRUE, TRUE>>

(***************************************************************************)
(* renew judges a directory by the days left of server.pem and opens no    *)
(* other file.  Where the last command succeeded that is enough, whatever  *)
(* died before it and whoever wrote the files: when renew finds nothing    *)
(* due, verify passes both certificates for more than RenewDays to come,   *)
(* and list and show call valid what they print of them.                   *)
(***************************************************************************)
NothingDueIsSpared ==
    \A d \in ServerDir : health[d] = "good" /\ StillValid(d) =>
        /\ \A f \in {"server", "client"} :
              /\ Chained(disk[d], f, now + RenewDays + 1)
              /\ handle_show(Viewer, f, disk[d], now) = {TRUE}
        /\ \E marks \in handle_list(Viewer, FALSE, haproxy, disk[d], disk["haproxy"], now) :
              marks["client"] = "valid"
=============================================================================
