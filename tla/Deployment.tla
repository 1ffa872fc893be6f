----------------------------- MODULE Deployment -----------------------------
(***************************************************************************)
(* The commands of an operator and the certificates they leave on a host:  *)
(* gcob init, gcob certs renew, gcob sign, gcob-client init, and the       *)
(* commands that only look (list, show, verify).  CertPublish has the      *)
(* renames of publish_files, its rollback and concurrent commands; here    *)
(* one command runs at a time, what the files hold is followed through     *)
(* many of them, and a command can die between any two files.              *)
(*                                                                         *)
(* A command that is refused changes no file; directories are in SecureDir *)
(* and here only as whether HAProxy's exists, which makes a host a server. *)
(***************************************************************************)
EXTENDS CertStatus

CONSTANTS
    Conf,          \* the configurations
    Option,        \* the options of commands
    HostName,      \* what the host says of its name: an Option
    Addresses,     \* and of its addresses
    MaxCommands,   \* bound: commands that write
    MaxDay,        \* bound: days
    MaxCaChanges   \* bound: changes of CLN's CA

VARIABLES
    disk,       \* the files of each directory
    conf,       \* GCOB_ADMIN_USER, GCOB_ROLE, and whom CLN_NODE_URI names
    haproxy,    \* HAProxy's certificate directory exists
    cln,        \* the CA of CLN, numbered in the order it makes them
    now,        \* the day
    count,      \* commands so far
    job,        \* the command that is writing
    health      \* observation: how the last command left each directory

deployment == <<disk, conf, haproxy, cln, now, count, job, health>>

\* The admin's ~/.certs, a directory given to init and in CLN_CERT_DIR, that
\* of HAProxy, the output of sign, and the ~/.certs of a client host.
Dir == {"admin", "srv", "haproxy", "out", "client"}
NoJob == [cmd |-> "none"]

\* Who calls (real, effective and sudo user), --hostname and --ip, the
\* directory given to init, and the flags.
Options == [who : [ruid : STRING, euid : STRING, sudo : STRING],
            flags : [host : SUBSET Identities, ip : SUBSET Identities],
            dir : SUBSET {"srv"}, force : BOOLEAN, rotate : BOOLEAN,
            initca : BOOLEAN, loopback : BOOLEAN, expected : SUBSET (0..MaxCaChanges)]

ASSUME DeploymentAssumption ==
    /\ Conf \subseteq [admin : {"", "admin"}, role : {"auto", "client", "server"},
                       peer : {"cln", "haproxy"}]
    /\ \A o \in Option : o \in Options
    /\ HostName \in SUBSET Identities /\ Addresses \in Seq(Identities)
    /\ {MaxCommands, MaxDay, MaxCaChanges} \subseteq Nat

Put(dir, file, content) == [dir |-> dir, file |-> file, content |-> content]
Exists(d, f) == disk[d][f] # Absent

Init ==
    /\ disk = [d \in Dir |-> [f \in File |-> Absent]]
    /\ conf \in Conf
    /\ haproxy = FALSE
    /\ cln = 0
    /\ now = 0
    /\ count = 0
    /\ job = NoJob
    /\ health = [d \in Dir |-> "none"]

-----------------------------------------------------------------------------
\* The host has one person's account, of that name.
default_cert_dir(who) == detect_admin_account(who, conf.admin) \cap {"admin"}

\* The role of a host whose GRPC_BIND_ADDR is set (is_server_env).
require_server == role_from(conf.role, haproxy) = "server"

\* A command begins to write.  Each makes new keys.
Begin(cmd, dir, aside, keep, plan) ==
    /\ job' = [cmd |-> cmd, dir |-> dir, aside |-> aside, keep |-> keep,
               at |-> 1, plan |-> plan]
    /\ count' = count + 1
    /\ health' = [d \in Dir |->
                    IF \E i \in 1..Len(plan) : plan[i].dir = d THEN "busy" ELSE health[d]]

Idle == job = NoJob /\ count < MaxCommands
Key(role) == <<count + 1, role>>

-----------------------------------------------------------------------------
(* gcob init.                                                              *)

InitIdentity(o) ==
    LET id == resolve_server_identity(o.flags, HostName, Addresses)
    IN  [id EXCEPT !.ip = OrElse(@, IF o.loopback THEN {Loopback} ELSE None)]

\* CA pinning: neither installed CA may silently change.
Pinned(o, d) ==
    o.rotate \/ \A x \in {"haproxy", d} : Exists(x, "ca") => disk[x]["ca"].ca = cln

\* The files of init, in the order in which they are published.
init_plan(d, host, ip) ==
    LET server == generate_server_cert(cln, Key("server"), host, ip, now)
        client == generate_client_cert(cln, Key("api"), host, now)
        bundle == generate_client_cert(cln, Key("haproxy"), host, now)
    IN  << Put("haproxy", "ca", [ca |-> cln]),
           Put("haproxy", "server", server),
           Put("haproxy", "client", bundle),
           Put(d, "ca", [ca |-> cln]),
           Put(d, "server", server),
           Put(d, "server_key", KeyPem(Key("server"), "0600")),
           Put(d, "client", client),
           Put(d, "client_key", KeyPem(Key("api"), "0600")) >>

\* The staged server and client certificates pass verify_issued_cert.
StagedOk(host, ip) ==
    /\ verify_issued_cert(
          generate_server_cert(cln, Key("server"), host, ip, now), Key("server"),
          cln, {san_token(host), san_token(ip)}, "server", now)
    /\ verify_issued_cert(
          generate_client_cert(cln, Key("api"), host, now), Key("api"),
          cln, {san_token(host)}, "client", now)

\* Directories are prepared first; HAProxy's then makes the host a server.
provision_server(o, d, host, ip) ==
    LET plan == init_plan(d, host, ip) IN
    /\ account_by_name("haproxy") # None
    /\ account_by_name("gcob") # None
    /\ haproxy' = TRUE
    /\ \/ /\ Pinned(o, d)
          /\ StagedOk(host, ip)
          /\ o.force \/ \A i \in 1..Len(plan) : ~Exists(plan[i].dir, plan[i].file)
          /\ Begin("init", d, TRUE, <<>>, plan)
       \/ UNCHANGED <<count, job, health>>  \* refused later, dry run, or declined

handle_init_server(o) ==
    LET id == InitIdentity(o) IN
    /\ Idle
    /\ check_gcob_access(o.who)
    /\ id.ip # None
    /\ validate_hostname(The(id.host), o.loopback)
    /\ validate_unicast_ip(The(id.ip), o.loopback)
    /\ \E d \in OrElse(o.dir, default_cert_dir(o.who)) :
         provision_server(o, d, The(id.host), The(id.ip))
    /\ UNCHANGED <<disk, conf, cln, now>>

-----------------------------------------------------------------------------
(* gcob certs renew, always in the default directory.                      *)

\* The server certificate has more than RenewDays left.
StillValid(d) ==
    Exists(d, "server") /\ days_until_expiry(disk[d]["server"], now) > RenewDays

\* Mutant of RenewIdentity: what the host says of itself is preferred.
RenewIdentity_Detects(o, d) ==
    resolve_server_identity(o.flags, HostName, Addresses)

\* Flags, or else the names in the certificate that is installed.
RenewIdentity(o, d) ==
    LET old == IF Exists(d, "server") THEN san_identities(disk[d]["server"])
               ELSE [host |-> None, ip |-> None]
    IN  [host |-> OrElse(o.flags.host, old.host), ip |-> OrElse(o.flags.ip, old.ip)]

\* A change of the CA needs --rotate-ca, a first one --init-ca.
MayUseCa(o, d) ==
    IF Exists(d, "ca") THEN disk[d]["ca"].ca = cln \/ o.rotate ELSE o.initca

\* Mutant of renew_plan: the CA is installed only where there is none.
renew_plan_KeepsCa(d, host, ip) ==
    << Put(d, "server", generate_server_cert(cln, Key("server"), host, ip, now)),
       Put(d, "server_key", KeyPem(Key("server"), "0600")),
       Put(d, "client", generate_client_cert(cln, Key("api"), host, now)),
       Put(d, "client_key", KeyPem(Key("api"), "0600")) >>
    \o (IF Exists(d, "ca") THEN <<>> ELSE <<Put(d, "ca", [ca |-> cln])>>)

\* Mutant of renew_plan: only what renew looks at is renewed.
renew_plan_ServerOnly(d, host, ip) ==
    << Put(d, "server", generate_server_cert(cln, Key("server"), host, ip, now)),
       Put(d, "server_key", KeyPem(Key("server"), "0600")) >>
    \o (IF disk[d]["ca"] = [ca |-> cln] THEN <<>> ELSE <<Put(d, "ca", [ca |-> cln])>>)

\* The CA comes last, if it is missing or another.  HAProxy's files are not
\* renewed.
renew_plan(d, host, ip) ==
    LET pairs == << Put(d, "server", generate_server_cert(cln, Key("server"), host, ip, now)),
                    Put(d, "server_key", KeyPem(Key("server"), "0600")),
                    Put(d, "client", generate_client_cert(cln, Key("api"), host, now)),
                    Put(d, "client_key", KeyPem(Key("api"), "0600")) >>
    IN  IF disk[d]["ca"] = [ca |-> cln] THEN pairs ELSE Append(pairs, Put(d, "ca", [ca |-> cln]))

renew_certificates(o, d) ==
    LET id == RenewIdentity(o, d) IN
    /\ account_by_name("gcob") # None
    /\ id.host # None /\ id.ip # None
    /\ validate_hostname(The(id.host), o.loopback)
    /\ validate_unicast_ip(The(id.ip), o.loopback)
    /\ MayUseCa(o, d)
    /\ StagedOk(The(id.host), The(id.ip))
    /\ Begin("renew", d, TRUE,
             IF o.flags = [host |-> None, ip |-> None] /\ Exists(d, "server")
             THEN disk[d]["server"].sans ELSE <<>>,
             renew_plan(d, The(id.host), The(id.ip)))

handle_renew(o) ==
    /\ Idle
    /\ require_server
    /\ check_gcob_access(o.who)
    /\ \E d \in default_cert_dir(o.who) :
         /\ o.force \/ ~StillValid(d)
         /\ renew_certificates(o, d)
    /\ UNCHANGED <<disk, conf, haproxy, cln, now>>

-----------------------------------------------------------------------------
(* gcob-client init, gcob sign, and back to the client.                    *)

\* Mutant of generate_csr: a key that exists is kept.
generate_csr_KeepsKey(names) ==
    <<Put("client", "csr", [key |-> Key("csr"), sans |-> names])>> \o
    (IF Exists("client", "client_key") THEN <<>>
     ELSE <<Put("client", "client_key", KeyPem(Key("csr"), "0600"))>>)

\* The CSR first, then the key; afterwards run makes it read-only.
generate_csr(names) ==
    << Put("client", "csr", [key |-> Key("csr"), sans |-> names]),
       Put("client", "client_key", KeyPem(Key("csr"), "0600")),
       Put("client", "client_key", KeyPem(Key("csr"), "0400")) >>

client_init(o) ==
    LET id == resolve_identity(o.flags, [host |-> None, ip |-> None], HostName, Addresses)
        names == <<San(The(id.host))>> \o
                   (IF id.ip = None THEN <<>> ELSE <<San(The(id.ip))>>)
    IN
    /\ Idle
    /\ detect_admin_account(o.who, "") # None
    /\ o.force \/ ~Exists("client", "csr")
    /\ Begin("client_init", "client", FALSE, <<>>, generate_csr(names))
    /\ UNCHANGED <<disk, conf, haproxy, cln, now>>

\* The CSR has been sent to the server.  --expected-ca-fingerprint may pin
\* the CA.
sign_csr_file(o) ==
    LET csr == disk["client"]["csr"]
        host == The(o.flags.host)
        cert == sign_csr(cln, csr, host, now)
    IN
    /\ validate_hostname(host, FALSE)
    /\ Exists("client", "csr")
    /\ o.expected \in {None, {cln}}
    /\ current_account(o.who) # None
    /\ Exists("out", "client") => o.force
    /\ verify_signed_csr(cert, csr, cln, {san_token(host)}, now)
    /\ Begin("sign", "out", TRUE, <<>>, <<Put("out", "client", cert)>>)

handle_sign(o) ==
    /\ Idle
    /\ require_server
    /\ check_gcob_access(o.who)
    /\ o.flags.host # None
    /\ sign_csr_file(o)
    /\ UNCHANGED <<disk, conf, haproxy, cln, now>>

\* The operator sends CLN's ca.pem and the new client.pem to the client.
Deliver ==
    /\ job = NoJob
    /\ Exists("out", "client")
    /\ disk' = [disk EXCEPT !["client"]["client"] = disk["out"]["client"],
                            !["client"]["ca"] = [ca |-> cln]]
    /\ UNCHANGED <<conf, haproxy, cln, now, count, job, health>>

-----------------------------------------------------------------------------
(* Writing, time, and CLN.                                                 *)

Target == job.plan[job.at]

\* publish_files renames the old file to a backup first.
MoveAside ==
    /\ job # NoJob
    /\ job.aside
    /\ Exists(Target.dir, Target.file)
    /\ disk' = [disk EXCEPT ![Target.dir][Target.file] = Absent]
    /\ UNCHANGED <<conf, haproxy, cln, now, count, job, health>>

\* A staged file is renamed to its target; write_atomic replaces it.
Place ==
    /\ job # NoJob
    /\ job.aside => ~Exists(Target.dir, Target.file)
    /\ disk' = [disk EXCEPT ![Target.dir][Target.file] = Target.content]
    /\ \/ /\ job.at < Len(job.plan)
          /\ job' = [job EXCEPT !.at = @ + 1]
          /\ UNCHANGED health
       \/ /\ job.at = Len(job.plan)
          /\ job' = NoJob
          /\ health' = [d \in Dir |-> IF health[d] = "busy" THEN "good" ELSE health[d]]
    /\ UNCHANGED <<conf, haproxy, cln, now, count>>

Die ==
    /\ job # NoJob
    /\ job' = NoJob
    /\ health' = [d \in Dir |-> IF health[d] = "busy" THEN "torn" ELSE health[d]]
    /\ UNCHANGED <<disk, conf, haproxy, cln, now, count>>

Tick ==
    /\ job = NoJob
    /\ now < MaxDay
    /\ now' = now + 1
    /\ UNCHANGED <<disk, conf, haproxy, cln, count, job, health>>

\* CLN makes a new CA when it finds none; it never returns to an old one.  A
\* command loads the CA once: a change during a command counts as after it.
ChangeCa ==
    /\ job = NoJob
    /\ cln < MaxCaChanges
    /\ cln' = cln + 1
    /\ UNCHANGED <<disk, conf, haproxy, now, count, job, health>>

Operator ==
    \/ \E o \in Option : \/ handle_init_server(o)
                         \/ handle_renew(o)
                         \/ client_init(o)
                         \/ handle_sign(o)
    \/ Deliver \/ MoveAside \/ Place \/ Die \/ Tick \/ ChangeCa
-----------------------------------------------------------------------------
(* Why: what files hold, and what a command under way has done.            *)

\* The directories of certificates that a server may start from.
ServerDir == {"admin", "srv"}

Names == Seq([kind : {"dns", "ip"}, name : Spelling])
Keys == (1..MaxCommands) \X {"server", "api", "haproxy", "csr"}
Pem == [key : Keys, mode : {"0400", "0600"}]
Leaves(eku) ==
    [ca : 0..MaxCaChanges, key : Keys, sans : Names, eku : {eku}, until : 0..MaxDay + Validity]

\* What a file of each name may hold.  A server certificate ends with an address.
Holds(file, content) ==
    /\ file = "ca" => content \in [ca : 0..MaxCaChanges]
    /\ file \in KeyFile => content \in Pem
    /\ file = "csr" => content \in [key : Keys, sans : Names]
    /\ file = "client" => content \in Leaves("client")
    /\ file = "server" => /\ content \in Leaves("server")
                          /\ Len(content.sans) \in 1..2
                          /\ content.sans[Len(content.sans)].kind = "ip"

\* No file has a CA that CLN does not have yet, a server certificate is no older
\* than the client certificate beside it, and a client host's comes with a CA.
FilesTyped ==
    /\ DOMAIN disk = Dir /\ \A d \in Dir : DOMAIN disk[d] = File
    /\ \A d \in Dir, f \in File : Exists(d, f) => Holds(f, disk[d][f])
    /\ \A d \in Dir, f \in {"ca", "server", "client"} :
          Exists(d, f) => disk[d][f].ca <= cln
    /\ \A d \in ServerDir :
          Exists(d, "server") /\ Exists(d, "client") =>
              disk[d]["client"].ca <= disk[d]["server"].ca
    /\ Exists("client", "client") => Exists("client", "ca")

\* The files of init and of renew, in the order of their plans.
InitFiles(d) ==
    << <<"haproxy", "ca">>, <<"haproxy", "server">>, <<"haproxy", "client">>, <<d, "ca">>,
       <<d, "server">>, <<d, "server_key">>, <<d, "client">>, <<d, "client_key">> >>
RenewFiles(d) ==
    << <<d, "server">>, <<d, "server_key">>, <<d, "client">>, <<d, "client_key">> >>
RotateFiles(d) ==
    << <<d, "server">>, <<d, "server_key">>, <<d, "client">>, <<d, "client_key">>, <<d, "ca">> >>
ClientFiles == << <<"client", "csr">>, <<"client", "client_key">>, <<"client", "client_key">> >>

Where(n) == <<job.plan[n].dir, job.plan[n].file>>
Lists(files) ==
    Len(job.plan) = Len(files) /\ \A n \in 1..Len(files) : Where(n) = files[n]

\* What a command writes is of this day, of CLN's present CA, and has its keys.
Made(e) ==
    /\ Holds(e.file, e.content)
    /\ e.file \in {"ca", "server", "client"} => e.content.ca = cln
    /\ e.file \in {"server", "client"} => e.content.until = now + Validity
    /\ e.dir \in ServerDir => /\ e.file \in {"server", "server_key"} =>
                                    e.content.key = <<count, "server">>
                              /\ e.file \in {"client", "client_key"} =>
                                    e.content.key = <<count, "api">>
    /\ e.dir = "client" => e.content.key = <<count, "csr">>

\* The files before the present one are in place, unless they come again.
InPlace(n) ==
    (\A m \in n + 1..Len(job.plan) : Where(m) # Where(n)) =>
        disk[job.plan[n].dir][job.plan[n].file] = job.plan[n].content

JobTyped ==
    job # NoJob =>
        /\ job \in [cmd : {"init", "renew", "client_init", "sign"}, dir : Dir,
                    aside : BOOLEAN, keep : {job.keep}, at : 1..Len(job.plan),
                    plan : Seq(ToSet(job.plan))]
        /\ job.cmd = "init" => job.dir \in ServerDir /\ Lists(InitFiles(job.dir))
        /\ job.cmd = "renew" =>
              /\ job.dir \in ServerDir
              /\ \/ Lists(RenewFiles(job.dir)) /\ disk[job.dir]["ca"] = [ca |-> cln]
                 \/ Lists(RotateFiles(job.dir))
        /\ job.cmd = "client_init" =>
              /\ job.dir = "client" /\ ~job.aside /\ Lists(ClientFiles)
              /\ job.plan[3].content.mode = "0400"
        /\ job.cmd = "sign" => job.dir = "out" /\ Lists(<< <<"out", "client">> >>)
        /\ job.cmd # "client_init" => "gcob" \in Account

JobExact ==
    job # NoJob =>
        /\ \A n \in 1..Len(job.plan) : Made(job.plan[n])
        /\ \A n \in 1..job.at - 1 : InPlace(n)

\* What a command leaves in each directory when it succeeds.
Generation(d, files) ==
    /\ \A f \in files : Exists(d, f)
    /\ \A f \in {"server", "client"} :
          disk[d][f].ca = disk[d]["ca"].ca /\ disk[d][f].until = disk[d]["server"].until
Healthy(d) ==
    /\ d \in ServerDir => /\ Generation(d, File \ {"csr"})
                          /\ disk[d]["server_key"].key = disk[d]["server"].key
                          /\ disk[d]["client_key"].key = disk[d]["client"].key
    /\ d = "haproxy" => haproxy /\ Generation(d, {"ca", "server", "client"})
    /\ d = "client" => /\ Exists(d, "csr") /\ Exists(d, "client_key")
                       /\ disk[d]["client_key"].key = disk[d]["csr"].key
                       /\ disk[d]["client_key"].mode = "0400"

HealthExact ==
    /\ health \in [Dir -> {"none", "busy", "good", "torn"}]
    /\ \A d \in Dir : health[d] = "busy" <=> job # NoJob /\ \E e \in ToSet(job.plan) : e.dir = d
    /\ \A d \in Dir : health[d] = "good" => Healthy(d)
    /\ job # NoJob /\ job.cmd = "init" => haproxy
    /\ (\E d \in {"admin", "srv", "haproxy"} : health[d] # "none") => "gcob" \in Account
    /\ (\E d \in {"out", "client"} : Exists(d, "client")) => "gcob" \in Account

(***************************************************************************)
(* What the operator's commands keep up, also when they die between two    *)
(* files: every file holds what its name says, a command under way has     *)
(* written what it planned so far, and one that succeeded leaves one       *)
(* generation of certificates.                                             *)
(***************************************************************************)
DeploymentInv ==
    /\ FilesTyped
    /\ haproxy \in BOOLEAN /\ cln \in 0..MaxCaChanges
    /\ now \in 0..MaxDay /\ count \in 0..MaxCommands
    /\ JobTyped /\ JobExact /\ HealthExact
=============================================================================
