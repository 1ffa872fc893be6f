------------------------- MODULE ServerStartProofs -------------------------
(***************************************************************************)
(* Proofs about Deployment and ServerStart for any accounts, options,      *)
(* days and numbers of commands.                                           *)
(***************************************************************************)
EXTENDS ServerStart, SequenceTheorems, WellFoundedInduction, TLAPS

(***************************************************************************)
(* Bounds and periods are numbers.                                         *)
(***************************************************************************)
LEMMA Bounds ==
    /\ MaxCommands \in Nat /\ MaxDay \in Nat /\ MaxCaChanges \in Nat
    /\ Validity \in Nat /\ RenewDays \in Nat /\ MaxStarts \in Nat
<1>1. MaxCommands \in Nat /\ MaxDay \in Nat /\ MaxCaChanges \in Nat
  BY DeploymentAssumption
<1> QED
  BY <1>1, CertIssueAssumption, ServerStartAssumption

(***************************************************************************)
(* What is chosen from an Option is in it.                                 *)
(***************************************************************************)
LEMMA Chosen ==
    ASSUME NEW option, option # None
    PROVE  The(option) \in option
<1>1. \E v \in option : TRUE
  BY DEF None
<1> QED
  BY <1>1 DEF The

(***************************************************************************)
(* A file of each name, once there, is not Absent.                         *)
(***************************************************************************)
LEMMA HeldIsThere ==
    ASSUME NEW f \in File, NEW c, Holds(f, c)
    PROVE  c # Absent
<1>1. CASE f = "ca"
  BY <1>1 DEF Holds, Absent
<1>2. CASE f \in KeyFile
  BY <1>2 DEF Holds, Absent, KeyFile, Pem
<1>3. CASE f = "csr"
  BY <1>3 DEF Holds, Absent, KeyFile
<1>4. CASE f = "client"
  BY <1>4 DEF Holds, Absent, KeyFile, Leaves
<1>5. CASE f = "server"
  BY <1>5 DEF Holds, Absent, KeyFile, Leaves
<1> QED
  BY <1>1, <1>2, <1>3, <1>4, <1>5 DEF File, KeyFile

(***************************************************************************)
(* A set of natural numbers that is not empty has a least element.         *)
(***************************************************************************)
LEMMA LeastIsIn ==
    ASSUME NEW I, I \subseteq Nat, I # {}
    PROVE  Min(I) \in I /\ \A i \in I : Min(I) <= i
<1>1. IsWellFoundedOn(OpToRel(<, Nat), Nat)
  BY NatLessThanWellFounded
<1>2. PICK i \in I : \A j \in I : ~(<<j, i>> \in OpToRel(<, Nat))
  BY <1>1, WFMin
<1>3. \A j \in I : i <= j
  <2> TAKE j \in I
  <2>1. i \in Nat /\ j \in Nat /\ ~(j < i)
    BY <1>2 DEF OpToRel
  <2> QED
    BY <2>1
<1> QED
  BY <1>3 DEF Min

-----------------------------------------------------------------------------
(* Identities.                                                             *)

(***************************************************************************)
(* What the host says of its address is an identity, if it has one.        *)
(***************************************************************************)
LEMMA DetectedType == detect_ip(Addresses) \in SUBSET Identities
<1> DEFINE I == {i \in 1..Len(Addresses) : Addresses[i].class # "loopback"}
<1>1. Addresses \in Seq(Identities)
  BY DeploymentAssumption
<1>2. CASE I = {}
  BY <1>2 DEF detect_ip, None
<1>3. CASE I # {}
  <2>1. I \subseteq Nat
    BY <1>1
  <2>2. Min(I) \in I
    BY <1>3, <2>1, LeastIsIn
  <2>3. Addresses[Min(I)] \in Identities
    BY <1>1, <2>2
  <2>4. detect_ip(Addresses) = {Addresses[Min(I)]}
    BY <1>3, <2>3 DEF detect_ip
  <2> QED
    BY <2>3, <2>4
<1> QED
  BY <1>2, <1>3

(***************************************************************************)
(* The identity of a server is made of the options, of what the host says  *)
(* and of two that are always there.                                       *)
(***************************************************************************)
LEMMA InitIdentityType ==
    ASSUME NEW o \in Option
    PROVE  /\ InitIdentity(o).host \in SUBSET Identities
           /\ InitIdentity(o).ip \in SUBSET Identities
           /\ InitIdentity(o).host # None
<1>1. /\ o.flags.host \in SUBSET Identities /\ o.flags.ip \in SUBSET Identities
      /\ HostName \in SUBSET Identities
  BY DeploymentAssumption DEF Options
<1>2. Localhost \in Identities /\ Loopback \in Identities
  <2>1. "localhost" \in Spelling /\ "127.0.0.1" \in Spelling
    BY CertIssueAssumption
  <2> QED
    BY <2>1 DEF Localhost, Loopback, Identity, Identities
<1>3. InitIdentity(o).host = OrElse(o.flags.host, OrElse(HostName, {Localhost}))
  BY DEF InitIdentity, resolve_server_identity
<1>4. InitIdentity(o).ip = OrElse(OrElse(o.flags.ip, detect_ip(Addresses)),
                                  IF o.loopback THEN {Loopback} ELSE None)
  BY DEF InitIdentity, resolve_server_identity
<1>5. InitIdentity(o).host \in SUBSET Identities /\ InitIdentity(o).host # None
  BY <1>1, <1>2, <1>3 DEF OrElse, None
<1>6. InitIdentity(o).ip \in SUBSET Identities
  BY <1>1, <1>2, <1>4, DetectedType DEF OrElse, None
<1> QED
  BY <1>5, <1>6

(***************************************************************************)
(* The name and the address in a server certificate: its first, unless     *)
(* that is an address, and its last, or its first if that is an address.   *)
(***************************************************************************)
LEMMA SansOfServer ==
    ASSUME NEW sans \in Names, Len(sans) \in 1..2, sans[Len(sans)].kind = "ip",
           NEW cert, cert.sans = sans
    PROVE  /\ san_identities(cert).host \in SUBSET Identities
           /\ san_identities(cert).ip \in SUBSET Identities
           /\ san_identities(cert).host # None =>
                 /\ Len(sans) = 2
                 /\ San(The(san_identities(cert).host)) = sans[1]
                 /\ San(The(san_identities(cert).ip)) = sans[2]
                 /\ sans[1].kind = "dns"
<1> DEFINE I(kind) == {i \in 1..Len(sans) : sans[i].kind = kind}
           Id(kind, i) == Identity(kind, sans[i].name, sans[i].name,
                                   IF sans[i] = San(Loopback) THEN "loopback" ELSE "usable")
<1>1. \A i \in 1..Len(sans) : sans[i] \in [kind : {"dns", "ip"}, name : Spelling]
  <2> DEFINE N == [kind : {"dns", "ip"}, name : Spelling]
  <2>1. sans \in Seq(N)
    BY DEF Names
  <2> HIDE DEF N
  <2>2. \A i \in 1..Len(sans) : sans[i] \in N
    BY <2>1
  <2> QED
    BY <2>2 DEF N
<1>2. ASSUME NEW kind \in {"dns", "ip"}
      PROVE  \/ I(kind) = {} /\ FirstSan(cert, kind) = None
             \/ Min(I(kind)) \in I(kind) /\ FirstSan(cert, kind) = {Id(kind, Min(I(kind)))}
  <2>1. CASE I(kind) = {}
    BY <2>1 DEF FirstSan
  <2>2. CASE I(kind) # {}
    <3>1. Min(I(kind)) \in I(kind)
      <4>1. I(kind) \subseteq Nat
        OBVIOUS
      <4> HIDE DEF I
      <4> QED
        BY <2>2, <4>1, LeastIsIn
    <3> QED
      BY <2>2, <3>1 DEF FirstSan
  <2> QED
    BY <2>1, <2>2
<1>3. ASSUME NEW kind \in {"dns", "ip"}, NEW i \in I(kind)
      PROVE  /\ Id(kind, i) \in Identities
             /\ San(Id(kind, i)) = sans[i]
             /\ San(The({Id(kind, i)})) = sans[i]
  <2>1. sans[i] = [kind |-> kind, name |-> sans[i].name] /\ sans[i].name \in Spelling
    BY <1>1
  <2>2. The({Id(kind, i)}) = Id(kind, i)
    BY DEF The
  <2>3. Id(kind, i) \in Identities
    BY <2>1 DEF Identity, Identities
  <2>4. San(Id(kind, i)) = sans[i]
    BY <2>1 DEF San, Identity
  <2> QED
    BY <2>2, <2>3, <2>4
<1>4. /\ san_identities(cert).host = FirstSan(cert, "dns")
      /\ san_identities(cert).ip = FirstSan(cert, "ip")
  BY DEF san_identities
<1>5. I("ip") # {}
  BY <1>1
<1> HIDE DEF Id
<1>6. ASSUME NEW kind \in {"dns", "ip"} PROVE FirstSan(cert, kind) \in SUBSET Identities
  <2>1. CASE FirstSan(cert, kind) = None
    BY <2>1 DEF None
  <2>2. CASE FirstSan(cert, kind) # None
    <3>1. Min(I(kind)) \in I(kind) /\ FirstSan(cert, kind) = {Id(kind, Min(I(kind)))}
      BY <1>2, <2>2
    <3>2. Id(kind, Min(I(kind))) \in Identities
      BY <1>3, <3>1
    <3> QED
      BY <3>1, <3>2
  <2> QED
    BY <2>1, <2>2
<1>7. ASSUME FirstSan(cert, "dns") # None
      PROVE  /\ Len(sans) = 2
             /\ San(The(FirstSan(cert, "dns"))) = sans[1]
             /\ San(The(FirstSan(cert, "ip"))) = sans[2]
             /\ sans[1].kind = "dns"
  <2>1. Min(I("dns")) \in I("dns")
    BY <1>2, <1>7
  <2>2. Len(sans) = 2 /\ Min(I("dns")) = 1 /\ sans[1].kind = "dns"
    BY <2>1
  <2>3. Min(I("ip")) \in I("ip")
    BY <1>2, <1>5
  <2>4. Min(I("ip")) = 2
    BY <2>2, <2>3
  <2> QED
    BY <1>2, <1>3, <1>5, <1>7, <2>1, <2>2, <2>3, <2>4
<1> QED
  BY <1>4, <1>6, <1>7

-----------------------------------------------------------------------------
(* Certificates.                                                           *)

(***************************************************************************)
(* A new certificate is what its file holds.                               *)
(***************************************************************************)
LEMMA NewClientCert ==
    ASSUME NEW ca \in 0..MaxCaChanges, NEW key \in Keys, NEW host \in Identities,
           NEW day \in 0..MaxDay, NEW cert, cert = generate_client_cert(ca, key, host, day)
    PROVE  /\ Holds("client", cert)
           /\ cert.ca = ca /\ cert.key = key /\ cert.until = day + Validity
<1>1. San(host) \in [kind : {"dns", "ip"}, name : Spelling]
  BY DEF San, Identities
<1>2. <<San(host)>> \in Names
  <2> DEFINE s == San(host)
             N == [kind : {"dns", "ip"}, name : Spelling]
  <2>1. s \in N
    BY <1>1
  <2> HIDE DEF s, N
  <2>2. <<s>> \in Seq(N)
    BY <2>1
  <2> QED
    BY <2>2 DEF s, N, Names
<1>3. day + Validity \in 0..MaxDay + Validity
  BY Bounds
<1>4. cert = [ca |-> ca, key |-> key, sans |-> <<San(host)>>, eku |-> "client",
              until |-> day + Validity]
  BY DEF generate_client_cert, Leaf
<1>5. cert \in Leaves("client")
  BY <1>2, <1>3, <1>4 DEF Leaves
<1> QED
  BY <1>4, <1>5 DEF Holds, KeyFile

LEMMA NewServerCert ==
    ASSUME NEW ca \in 0..MaxCaChanges, NEW key \in Keys, NEW host \in Identities,
           NEW ip \in Identities, ip.kind = "ip", NEW day \in 0..MaxDay,
           NEW cert, cert = generate_server_cert(ca, key, host, ip, day)
    PROVE  /\ Holds("server", cert)
           /\ cert.ca = ca /\ cert.key = key /\ cert.until = day + Validity
           /\ San(ip) # San(host) => cert.sans = <<San(host), San(ip)>>
<1> DEFINE h == San(host)
           a == San(ip)
           N == [kind : {"dns", "ip"}, name : Spelling]
           sans == IF a = h THEN <<h>> ELSE <<h, a>>
<1>1. h \in N /\ a \in N /\ a.kind = "ip"
  BY DEF San, Identities
<1>2. day + Validity \in 0..MaxDay + Validity
  BY Bounds
<1>3. cert = [ca |-> ca, key |-> key, sans |-> sans, eku |-> "server",
              until |-> day + Validity]
  BY DEF generate_server_cert, Leaf
<1> HIDE DEF h, a, N
<1>4. sans \in Seq(N) /\ Len(sans) \in 1..2 /\ sans[Len(sans)].kind = "ip"
  <2>1. CASE a = h
    <3>1. <<h>> \in Seq(N) /\ Len(<<h>>) = 1 /\ <<h>>[1] = h
      BY <1>1
    <3> QED
      BY <1>1, <2>1, <3>1
  <2>2. CASE a # h
    <3>1. <<h, a>> \in Seq(N) /\ Len(<<h, a>>) = 2 /\ <<h, a>>[2] = a
      BY <1>1
    <3> QED
      BY <1>1, <2>2, <3>1
  <2> QED
    BY <2>1, <2>2
<1>5. a # h => sans = <<h, a>>
  OBVIOUS
<1> HIDE DEF sans
<1>6. cert \in Leaves("server")
  BY <1>2, <1>3, <1>4 DEF Leaves, Names, N
<1>7. Holds("server", cert)
  BY <1>3, <1>4, <1>6 DEF Holds, KeyFile
<1> QED
  BY <1>3, <1>5, <1>7 DEF h, a

LEMMA NewKeyPem ==
    ASSUME NEW key \in Keys, NEW mode \in {"0400", "0600"}
    PROVE  /\ KeyPem(key, mode) \in Pem
           /\ KeyPem(key, mode).key = key /\ KeyPem(key, mode).mode = mode
  BY DEF KeyPem, Pem

-----------------------------------------------------------------------------
(* A command begins, and what a step leaves alone.                         *)

(***************************************************************************)
(* What is on a disk after one file is written.                            *)
(***************************************************************************)
LEMMA OneFileWritten ==
    ASSUME NEW D, DOMAIN D = Dir, \A d \in Dir : DOMAIN D[d] = File,
           NEW dir \in Dir, NEW file \in File, NEW content,
           NEW E, E = [D EXCEPT ![dir][file] = content]
    PROVE  /\ DOMAIN E = Dir /\ \A d \in Dir : DOMAIN E[d] = File
           /\ E[dir][file] = content
           /\ \A d \in Dir, f \in File : d # dir \/ f # file => E[d][f] = D[d][f]
           /\ \A d \in Dir : d # dir => E[d] = D[d]
  OBVIOUS

(***************************************************************************)
(* A directory of which no file changes stays as healthy as it was.        *)
(***************************************************************************)
LEMMA StaysHealthy ==
    ASSUME NEW d \in Dir, Healthy(d), disk'[d] = disk[d], haproxy => haproxy'
    PROVE  Healthy(d)'
  BY DEF Healthy, Generation, Exists

LEMMA FilesStay ==
    ASSUME FilesTyped, UNCHANGED disk, cln <= cln', cln \in Nat, cln' \in Nat
    PROVE  FilesTyped'
<1>1. \A d \in Dir, f \in {"ca", "server", "client"} :
         Exists(d, f) => disk[d][f].ca <= cln'
  <2> SUFFICES ASSUME NEW d \in Dir, NEW f \in {"ca", "server", "client"}, Exists(d, f)
               PROVE  disk[d][f].ca <= cln'
    OBVIOUS
  <2>1. Holds(f, disk[d][f]) /\ disk[d][f].ca <= cln
    BY DEF FilesTyped, File
  <2>2. disk[d][f].ca \in 0..MaxCaChanges
    BY <2>1 DEF Holds, Leaves, KeyFile
  <2> QED
    BY <2>1, <2>2
<1> QED
  BY <1>1 DEF FilesTyped, Exists, Holds

LEMMA BeginKeeps ==
    ASSUME DeploymentInv, job = NoJob, count < MaxCommands,
           NEW cmd \in {"init", "renew", "client_init", "sign"}, NEW dir, NEW aside,
           NEW keep, NEW plan, plan \in Seq(ToSet(plan)), Begin(cmd, dir, aside, keep, plan),
           UNCHANGED <<disk, cln, now>>, haproxy' \in BOOLEAN, haproxy => haproxy',
           cmd = "init" => haproxy', JobTyped',
           \A n \in 1..Len(plan) : Made(plan[n])',
           \A n \in 1..Len(plan) :
              plan[n].dir \in {"admin", "srv", "haproxy"} => "gcob" \in Account
    PROVE  DeploymentInv'
<1>1. /\ job' = [cmd |-> cmd, dir |-> dir, aside |-> aside, keep |-> keep,
                 at |-> 1, plan |-> plan]
      /\ count' = count + 1
      /\ health' = [d \in Dir |-> IF \E i \in 1..Len(plan) : plan[i].dir = d
                                  THEN "busy" ELSE health[d]]
  BY DEF Begin
<1>2. job' # NoJob /\ job'.plan = plan /\ job'.at = 1 /\ job'.cmd = cmd
  BY <1>1 DEF NoJob
<1>3. FilesTyped'
  <2>1. cln \in Nat /\ cln' = cln
    BY DEF DeploymentInv
  <2> QED
    BY <2>1, FilesStay DEF DeploymentInv
<1>4. cln' \in 0..MaxCaChanges /\ now' \in 0..MaxDay /\ count' \in 0..MaxCommands
  BY <1>1, Bounds DEF DeploymentInv
<1>5. JobExact'
  BY <1>2 DEF JobExact
<1>6. HealthExact'
  <2>1. /\ health \in [Dir -> {"none", "busy", "good", "torn"}]
        /\ \A d \in Dir : health[d] # "busy"
        /\ \A d \in Dir : health[d] = "good" => Healthy(d)
        /\ (\E d \in {"admin", "srv", "haproxy"} : health[d] # "none") => "gcob" \in Account
        /\ (\E d \in {"out", "client"} : Exists(d, "client")) => "gcob" \in Account
    BY DEF DeploymentInv, HealthExact
  <2>2. \A d \in Dir : (\E e \in ToSet(plan) : e.dir = d) <=> \E i \in 1..Len(plan) : plan[i].dir = d
    BY DEF ToSet
  <2>3. health' \in [Dir -> {"none", "busy", "good", "torn"}]
    BY <1>1, <2>1
  <2>4. \A d \in Dir : health'[d] = "busy" <=> \E e \in ToSet(plan) : e.dir = d
    BY <1>1, <2>1, <2>2
  <2>5. ASSUME NEW d \in Dir, health'[d] = "good" PROVE Healthy(d)'
    <3>1. health[d] = "good"
      BY <1>1, <2>5
    <3> QED
      BY <2>1, <3>1, StaysHealthy
  <2>6. ASSUME NEW d \in {"admin", "srv", "haproxy"}, health'[d] # "none" PROVE "gcob" \in Account
    BY <1>1, <2>1, <2>6 DEF Dir
  <2>7. \A d \in {"out", "client"} : Exists(d, "client")' <=> Exists(d, "client")
    BY DEF Exists
  <2> QED
    BY <1>2, <2>1, <2>3, <2>4, <2>5, <2>6, <2>7 DEF HealthExact
<1> QED
  BY <1>3, <1>4, <1>5, <1>6 DEF DeploymentInv

-----------------------------------------------------------------------------
(* Steps that no command waits for: a delivery, a death, a day, a CA.      *)

LEMMA DeliverKeeps ==
    ASSUME DeploymentInv, Deliver
    PROVE  DeploymentInv'
<1>1. /\ job = NoJob /\ Exists("out", "client")
      /\ disk' = [disk EXCEPT !["client"]["client"] = disk["out"]["client"],
                              !["client"]["ca"] = [ca |-> cln]]
      /\ UNCHANGED <<haproxy, cln, now, count, job, health>>
  BY DEF Deliver
<1>2. /\ DOMAIN disk = Dir /\ \A d \in Dir : DOMAIN disk[d] = File
      /\ \A d \in Dir, f \in File : Exists(d, f) => Holds(f, disk[d][f])
      /\ cln \in 0..MaxCaChanges /\ cln \in Nat
  BY DEF DeploymentInv, FilesTyped
<1>3. /\ disk'["client"]["client"] = disk["out"]["client"]
      /\ disk'["client"]["ca"] = [ca |-> cln]
      /\ \A d \in Dir, f \in File :
            <<d, f>> \notin {<<"client", "client">>, <<"client", "ca">>} =>
               disk'[d][f] = disk[d][f]
      /\ DOMAIN disk' = Dir /\ \A d \in Dir : DOMAIN disk'[d] = File
      /\ \A d \in Dir : d # "client" => disk'[d] = disk[d]
  <2>1. "client" \in Dir /\ "client" \in File /\ "ca" \in File
    BY DEF Dir, File
  <2>2. PICK E : E = [disk EXCEPT !["client"]["client"] = disk["out"]["client"]]
    OBVIOUS
  <2>3. /\ DOMAIN E = Dir /\ \A d \in Dir : DOMAIN E[d] = File
        /\ E["client"]["client"] = disk["out"]["client"]
        /\ \A d \in Dir, f \in File : d # "client" \/ f # "client" => E[d][f] = disk[d][f]
        /\ \A d \in Dir : d # "client" => E[d] = disk[d]
    BY <1>2, <2>1, <2>2, OneFileWritten
  <2>4. PICK N : N = disk'
    OBVIOUS
  <2>5. N = [E EXCEPT !["client"]["ca"] = [ca |-> cln]]
    BY <1>1, <2>2, <2>4
  <2>6. /\ DOMAIN N = Dir /\ \A d \in Dir : DOMAIN N[d] = File
        /\ N["client"]["ca"] = [ca |-> cln]
        /\ \A d \in Dir, f \in File : d # "client" \/ f # "ca" => N[d][f] = E[d][f]
        /\ \A d \in Dir : d # "client" => N[d] = E[d]
    BY <2>1, <2>3, <2>5, OneFileWritten
  <2> QED
    BY <2>1, <2>3, <2>4, <2>6
<1>4. /\ Holds("client", disk["out"]["client"]) /\ disk["out"]["client"] # Absent
      /\ disk["out"]["client"].ca <= cln
  BY <1>1, <1>2 DEF DeploymentInv, FilesTyped, Dir, File, Exists
<1>5. [ca |-> cln] \in [ca : 0..MaxCaChanges] /\ [ca |-> cln].ca <= cln
  BY <1>2
<1>6. Holds("ca", [ca |-> cln]) /\ [ca |-> cln] # Absent
  <2>1. Holds("ca", [ca |-> cln])
    BY <1>5 DEF Holds, KeyFile
  <2> QED
    BY <2>1, HeldIsThere DEF File
<1>7. FilesTyped'
  <2>1. ASSUME NEW d \in Dir, NEW f \in File, Exists(d, f)'
        PROVE  /\ Holds(f, disk'[d][f])
               /\ f \in {"ca", "server", "client"} => disk'[d][f].ca <= cln
    <3>1. CASE d = "client" /\ f = "client"
      BY <1>3, <1>4, <3>1
    <3>2. CASE d = "client" /\ f = "ca"
      BY <1>3, <1>5, <1>6, <3>2
    <3>3. CASE <<d, f>> \notin {<<"client", "client">>, <<"client", "ca">>}
      BY <1>2, <1>3, <2>1, <3>3 DEF Exists, DeploymentInv, FilesTyped
    <3> QED
      BY <3>1, <3>2, <3>3
  <2>2. ASSUME NEW d \in ServerDir, Exists(d, "server")', Exists(d, "client")'
        PROVE  disk'[d]["client"].ca <= disk'[d]["server"].ca
    <3>1. disk'[d]["client"] = disk[d]["client"] /\ disk'[d]["server"] = disk[d]["server"]
      BY <1>3 DEF ServerDir, Dir, File
    <3> QED
      BY <2>2, <3>1 DEF Exists, DeploymentInv, FilesTyped
  <2>3. Exists("client", "ca")'
    BY <1>3, <1>6 DEF Exists
  <2>4. {"ca", "server", "client"} \subseteq File /\ cln' = cln
    BY <1>1 DEF File
  <2>5. \A d \in Dir, f \in {"ca", "server", "client"} :
           Exists(d, f)' => disk'[d][f].ca <= cln'
    BY <2>1, <2>4
  <2> QED
    BY <1>3, <2>1, <2>2, <2>3, <2>5 DEF FilesTyped
<1>8. HealthExact'
  <2>1. "gcob" \in Account
    BY <1>1 DEF DeploymentInv, HealthExact
  <2>2. ASSUME NEW d \in Dir, Healthy(d) PROVE Healthy(d)'
    <3>1. CASE d = "client"
      <4>1. /\ disk'[d]["csr"] = disk[d]["csr"]
            /\ disk'[d]["client_key"] = disk[d]["client_key"]
        BY <1>3, <3>1 DEF Dir, File
      <4> QED
        BY <2>2, <3>1, <4>1 DEF Healthy, ServerDir, Exists
    <3>2. CASE d # "client"
      BY <1>1, <1>3, <2>2, <3>2, StaysHealthy
    <3> QED
      BY <3>1, <3>2
  <2>3. /\ health' = health /\ job' = job /\ haproxy' = haproxy
    BY <1>1
  <2> QED
    BY <2>1, <2>2, <2>3 DEF DeploymentInv, HealthExact
<1> QED
  BY <1>1, <1>7, <1>8 DEF DeploymentInv, JobTyped, JobExact

LEMMA DieKeeps ==
    ASSUME DeploymentInv, Die
    PROVE  DeploymentInv'
<1>1. /\ job' = NoJob
      /\ health' = [d \in Dir |-> IF health[d] = "busy" THEN "torn" ELSE health[d]]
      /\ UNCHANGED <<disk, haproxy, cln, now, count>>
  BY DEF Die
<1>2. FilesTyped'
  BY <1>1, FilesStay DEF DeploymentInv
<1>3. HealthExact'
  <2>1. HealthExact
    BY DEF DeploymentInv
  <2>2. /\ health' \in [Dir -> {"none", "busy", "good", "torn"}]
        /\ \A d \in Dir : health'[d] # "busy"
        /\ \A d \in Dir : health'[d] = "good" => health[d] = "good"
        /\ \A d \in Dir : health'[d] # "none" => health[d] # "none"
    BY <1>1, <2>1 DEF HealthExact
  <2>3. ASSUME NEW d \in Dir, health'[d] = "good" PROVE Healthy(d)'
    BY <1>1, <2>1, <2>2, <2>3, StaysHealthy DEF HealthExact
  <2>4. \A d \in {"out", "client"} : Exists(d, "client")' <=> Exists(d, "client")
    BY <1>1 DEF Exists
  <2>5. {"admin", "srv", "haproxy"} \subseteq Dir
    BY DEF Dir
  <2> QED
    BY <1>1, <2>1, <2>2, <2>3, <2>4, <2>5 DEF HealthExact
<1> QED
  BY <1>1, <1>2, <1>3 DEF DeploymentInv, JobTyped, JobExact

LEMMA TimePasses ==
    ASSUME DeploymentInv, Tick \/ ChangeCa
    PROVE  DeploymentInv'
<1>1. job = NoJob /\ UNCHANGED <<disk, haproxy, count, job, health>>
  BY DEF Tick, ChangeCa
<1>2. /\ now' \in 0..MaxDay /\ cln' \in 0..MaxCaChanges
      /\ cln \in Nat /\ cln' \in Nat /\ cln <= cln'
  <2>1. now \in 0..MaxDay /\ cln \in 0..MaxCaChanges
    BY DEF DeploymentInv
  <2>2. CASE Tick
    BY <2>1, <2>2, Bounds DEF Tick
  <2>3. CASE ChangeCa
    BY <2>1, <2>3, Bounds DEF ChangeCa
  <2> QED
    BY <2>2, <2>3
<1>3. FilesTyped'
  BY <1>1, <1>2, FilesStay DEF DeploymentInv
<1>4. HealthExact'
  <2>1. HealthExact
    BY DEF DeploymentInv
  <2>2. \A d \in Dir : Healthy(d) => Healthy(d)'
    BY <1>1, StaysHealthy
  <2>3. \A d \in {"out", "client"} : Exists(d, "client")' <=> Exists(d, "client")
    BY <1>1 DEF Exists
  <2> QED
    BY <1>1, <2>1, <2>2, <2>3 DEF HealthExact
<1> QED
  BY <1>1, <1>2, <1>3, <1>4 DEF DeploymentInv, JobTyped, JobExact

-----------------------------------------------------------------------------
(* A command writes.                                                       *)

(***************************************************************************)
(* Where the files of a plan are: a certificate in a server's directory    *)
(* comes after the one of the server, which is not written twice; the      *)
(* client host gets a request and a key only.                              *)
(***************************************************************************)
LEMMA PlanFiles ==
    ASSUME JobTyped, job # NoJob, NEW n \in 1..Len(job.plan)
    PROVE  /\ job.plan[n].dir \in Dir /\ job.plan[n].file \in File
           /\ job.plan[n].dir = "client" => job.plan[n].file \in {"csr", "client_key"}
           /\ job.plan[n].dir = "out" => "gcob" \in Account
           /\ job.plan[n].dir \in ServerDir /\ job.plan[n].file = "client" =>
                 \E m \in 1..n - 1 :
                    /\ Where(m) = <<job.plan[n].dir, "server">>
                    /\ \A k \in m + 1..Len(job.plan) : Where(k) # Where(m)
<1> DEFINE d == job.plan[n].dir
           f == job.plan[n].file
<1>1. Where(n) = <<d, f>>
  BY DEF Where
<1>2. CASE job.cmd = "init"
  <2>1. job.dir \in ServerDir /\ Lists(InitFiles(job.dir))
    BY <1>2 DEF JobTyped
  <2>2. n \in 1..8 /\ Len(job.plan) = 8
    BY <2>1 DEF Lists, InitFiles
  <2>3. /\ Where(1) = <<"haproxy", "ca">> /\ Where(2) = <<"haproxy", "server">>
        /\ Where(3) = <<"haproxy", "client">> /\ Where(4) = <<job.dir, "ca">>
        /\ Where(5) = <<job.dir, "server">> /\ Where(6) = <<job.dir, "server_key">>
        /\ Where(7) = <<job.dir, "client">> /\ Where(8) = <<job.dir, "client_key">>
    BY <2>1 DEF Lists, InitFiles
  <2>4. d \in {"haproxy", "admin", "srv"} /\ f \in File
    BY <1>1, <2>1, <2>2, <2>3 DEF ServerDir, File
  <2>5. ASSUME d \in ServerDir, f = "client"
        PROVE  n = 7 /\ d = job.dir
    BY <1>1, <2>1, <2>2, <2>3, <2>5 DEF ServerDir
  <2>6. \A k \in 6..8 : Where(k) # Where(5)
    BY <2>3
  <2> QED
    BY <2>2, <2>3, <2>4, <2>5, <2>6 DEF Dir
<1>3. CASE job.cmd = "renew"
  <2>1. job.dir \in ServerDir /\ (Lists(RenewFiles(job.dir)) \/ Lists(RotateFiles(job.dir)))
    BY <1>3 DEF JobTyped
  <2>2. /\ Len(job.plan) \in 4..5
        /\ Where(1) = <<job.dir, "server">> /\ Where(2) = <<job.dir, "server_key">>
        /\ Where(3) = <<job.dir, "client">> /\ Where(4) = <<job.dir, "client_key">>
        /\ Len(job.plan) = 5 => Where(5) = <<job.dir, "ca">>
    <3>1. CASE Lists(RenewFiles(job.dir))
      BY <3>1 DEF Lists, RenewFiles
    <3>2. CASE Lists(RotateFiles(job.dir))
      BY <3>2 DEF Lists, RotateFiles
    <3> QED
      BY <2>1, <3>1, <3>2
  <2>3. n \in 1..5 /\ \A k \in 2..Len(job.plan) : k \in 2..5 /\ (k = 5 => Len(job.plan) = 5)
    <3>1. PICK l \in 4..5 : l = Len(job.plan)
      BY <2>2
    <3>2. n \in 1..l
      BY <3>1
    <3>3. \A k \in 2..l : k \in 2..5 /\ (k = 5 => l = 5)
      OBVIOUS
    <3> QED
      BY <3>1, <3>2, <3>3
  <2>4. d = job.dir /\ f \in File
    BY <1>1, <2>2, <2>3 DEF File
  <2>5. ASSUME f = "client"
        PROVE  n = 3
    BY <1>1, <2>2, <2>3, <2>5
  <2>6. \A k \in 2..Len(job.plan) : Where(k) # Where(1)
    <3> SUFFICES ASSUME NEW k \in 2..Len(job.plan) PROVE Where(k) # Where(1)
      OBVIOUS
    <3>1. k = 2 \/ k = 3 \/ k = 4 \/ k = 5
      BY <2>3
    <3>2. k = 5 => Len(job.plan) = 5
      BY <2>3
    <3> QED
      BY <2>2, <3>1, <3>2
  <2> QED
    BY <2>1, <2>2, <2>3, <2>4, <2>5, <2>6 DEF Dir, ServerDir
<1>4. CASE job.cmd = "client_init"
  <2>1. Lists(ClientFiles)
    BY <1>4 DEF JobTyped
  <2>2. n \in 1..3
    BY <2>1 DEF Lists, ClientFiles
  <2>3. Where(1) = <<"client", "csr">> /\ Where(2) = <<"client", "client_key">>
        /\ Where(3) = <<"client", "client_key">>
    BY <2>1 DEF Lists, ClientFiles
  <2>4. d = "client" /\ f \in {"csr", "client_key"}
    BY <1>1, <2>2, <2>3
  <2> QED
    BY <2>4 DEF Dir, ServerDir, File
<1>5. CASE job.cmd = "sign"
  <2>1. Lists(<< <<"out", "client">> >>) /\ "gcob" \in Account
    BY <1>5 DEF JobTyped
  <2>2. n = 1 /\ Where(1) = <<"out", "client">>
    BY <2>1 DEF Lists
  <2> QED
    BY <1>1, <2>1, <2>2 DEF Dir, ServerDir, File
<1> QED
  BY <1>2, <1>3, <1>4, <1>5 DEF JobTyped

(***************************************************************************)
(* A file that is written or moved aside is the one planned, in a          *)
(* directory that is busy; the others stay, and what they hold is right.   *)
(***************************************************************************)
LEMMA TargetChanges ==
    ASSUME DeploymentInv, job # NoJob, NEW content \in {Absent, Target.content},
           disk' = [disk EXCEPT ![Target.dir][Target.file] = content],
           UNCHANGED <<haproxy, cln>>
    PROVE  /\ FilesTyped'
           /\ Target.dir \in Dir /\ Target.file \in File
           /\ disk'[Target.dir][Target.file] = content
           /\ \A d \in Dir, f \in File :
                 d # Target.dir \/ f # Target.file => disk'[d][f] = disk[d][f]
           /\ \A d \in Dir : health[d] = "good" => Healthy(d)'
           /\ \A d \in {"out", "client"} : Exists(d, "client")' => "gcob" \in Account
<1>1. /\ JobTyped /\ JobExact /\ FilesTyped /\ HealthExact
      /\ cln \in Nat /\ cln' = cln
  BY DEF DeploymentInv
<1>2. job.at \in 1..Len(job.plan) /\ Len(job.plan) \in Nat /\ Target = job.plan[job.at]
  BY <1>1 DEF JobTyped, Target
<1>3. /\ Target.dir \in Dir /\ Target.file \in File
      /\ Target.dir = "client" => Target.file \in {"csr", "client_key"}
      /\ Target.dir = "out" => "gcob" \in Account
      /\ Made(Target)
  BY <1>1, <1>2, PlanFiles DEF JobExact
<1>4. DOMAIN disk = Dir /\ \A d \in Dir : DOMAIN disk[d] = File
  BY <1>1 DEF FilesTyped
<1>5. PICK N : N = disk'
  OBVIOUS
<1>6. /\ DOMAIN N = Dir /\ \A d \in Dir : DOMAIN N[d] = File
      /\ N[Target.dir][Target.file] = content
      /\ \A d \in Dir, f \in File :
            d # Target.dir \/ f # Target.file => N[d][f] = disk[d][f]
      /\ \A d \in Dir : d # Target.dir => N[d] = disk[d]
  BY <1>3, <1>4, <1>5, OneFileWritten
<1>7. ASSUME NEW d \in Dir, NEW f \in File, Exists(d, f)'
      PROVE  /\ Holds(f, N[d][f])
             /\ f \in {"ca", "server", "client"} => N[d][f].ca <= cln
  <2>1. CASE d = Target.dir /\ f = Target.file
    <3>1. N[d][f] = Target.content
      BY <1>5, <1>6, <1>7, <2>1 DEF Exists
    <3>2. /\ Holds(f, Target.content)
          /\ f \in {"ca", "server", "client"} => Target.content.ca = cln
      BY <1>3, <2>1 DEF Made
    <3> QED
      BY <1>1, <3>1, <3>2
  <2>2. CASE d # Target.dir \/ f # Target.file
    BY <1>1, <1>5, <1>6, <1>7, <2>2 DEF Exists, FilesTyped
  <2> QED
    BY <2>1, <2>2
<1>8. ASSUME NEW d \in ServerDir, Exists(d, "server")', Exists(d, "client")'
      PROVE  N[d]["client"].ca <= N[d]["server"].ca
  <2>1. d \in Dir /\ {"server", "client"} \subseteq File
    BY DEF ServerDir, Dir, File
  <2>2. CASE Target.dir # d \/ Target.file \notin {"server", "client"}
    <3>1. N[d]["client"] = disk[d]["client"] /\ N[d]["server"] = disk[d]["server"]
      BY <1>6, <2>1, <2>2
    <3> QED
      BY <1>1, <1>5, <1>8, <3>1 DEF Exists, FilesTyped
  <2>3. CASE Target.dir = d /\ Target.file = "server"
    <3>1. N[d]["server"].ca = cln
      BY <1>3, <1>5, <1>6, <1>8, <2>3 DEF Exists, Made
    <3> QED
      BY <1>7, <1>8, <2>1, <3>1
  <2>4. CASE Target.dir = d /\ Target.file = "client"
    <3>1. PICK m \in 1..job.at - 1 :
             /\ Where(m) = <<d, "server">>
             /\ \A k \in m + 1..Len(job.plan) : Where(k) # Where(m)
      BY <1>1, <1>2, <2>4, PlanFiles
    <3>2. m \in 1..Len(job.plan) /\ job.plan[m].dir = d /\ job.plan[m].file = "server"
      BY <1>2, <3>1 DEF Where
    <3>3. Made(job.plan[m]) /\ InPlace(m)
      BY <1>1, <3>2, <3>1 DEF JobExact
    <3>4. disk[d]["server"] = job.plan[m].content
      BY <3>1, <3>2, <3>3 DEF InPlace
    <3>5. disk[d]["server"].ca = cln
      BY <3>2, <3>3, <3>4 DEF Made
    <3>6. N[d]["server"] = disk[d]["server"]
      BY <1>6, <2>1, <2>4
    <3> QED
      BY <1>7, <1>8, <2>1, <3>5, <3>6
  <2> QED
    BY <2>2, <2>3, <2>4
<1>9. ASSUME Exists("client", "client")' PROVE Exists("client", "ca")'
  <2>1. {"client", "ca"} \subseteq File /\ "client" \in Dir
    BY DEF Dir, File
  <2>2. N["client"]["client"] = disk["client"]["client"] /\ N["client"]["ca"] = disk["client"]["ca"]
    BY <1>3, <1>6, <2>1
  <2> QED
    BY <1>1, <1>5, <1>9, <2>2 DEF Exists, FilesTyped
<1>10. FilesTyped'
  <2>1. {"ca", "server", "client"} \subseteq File
    BY DEF File
  <2>2. \A d \in Dir, f \in {"ca", "server", "client"} :
           Exists(d, f)' => disk'[d][f].ca <= cln'
    BY <1>1, <1>5, <1>7, <2>1
  <2> QED
    BY <1>5, <1>6, <1>7, <1>8, <1>9, <2>2 DEF FilesTyped
<1>11. ASSUME NEW d \in Dir, health[d] = "good" PROVE Healthy(d)'
  <2>1. Target \in ToSet(job.plan)
    BY <1>2 DEF ToSet
  <2>2. d # Target.dir
    BY <1>1, <1>11, <2>1 DEF HealthExact
  <2> QED
    BY <1>1, <1>5, <1>6, <1>11, <2>2, StaysHealthy DEF HealthExact
<1>12. ASSUME NEW d \in {"out", "client"}, Exists(d, "client")' PROVE "gcob" \in Account
  <2>1. d \in Dir /\ "client" \in File
    BY DEF Dir, File
  <2>2. CASE d = Target.dir /\ "client" = Target.file
    BY <1>3, <2>2
  <2>3. CASE d # Target.dir \/ "client" # Target.file
    BY <1>1, <1>5, <1>6, <1>12, <2>1, <2>3 DEF Exists, HealthExact
  <2> QED
    BY <2>2, <2>3
<1> QED
  BY <1>3, <1>5, <1>6, <1>10, <1>11, <1>12

(***************************************************************************)
(* A file that will not be written again, once it has been, stays.         *)
(***************************************************************************)
LEMMA WrittenStays ==
    ASSUME DeploymentInv, job # NoJob, NEW content \in {Absent, Target.content},
           disk' = [disk EXCEPT ![Target.dir][Target.file] = content],
           UNCHANGED <<haproxy, cln>>,
           NEW n \in 1..job.at - 1, \A m \in n + 1..Len(job.plan) : Where(m) # Where(n)
    PROVE  disk'[job.plan[n].dir][job.plan[n].file] = job.plan[n].content
<1>1. /\ job.at \in 1..Len(job.plan) /\ Len(job.plan) \in Nat
      /\ Target = job.plan[job.at] /\ JobTyped /\ InPlace(n)
  BY DEF DeploymentInv, JobTyped, JobExact, Target
<1>2. n \in 1..Len(job.plan) /\ job.at \in n + 1..Len(job.plan)
  BY <1>1
<1>3. job.plan[n].dir \in Dir /\ job.plan[n].file \in File
  BY <1>1, <1>2, PlanFiles
<1>4. job.plan[n].dir # Target.dir \/ job.plan[n].file # Target.file
  BY <1>1, <1>2 DEF Where
<1>5. disk'[job.plan[n].dir][job.plan[n].file] = disk[job.plan[n].dir][job.plan[n].file]
  BY <1>3, <1>4, TargetChanges
<1> QED
  BY <1>1, <1>5 DEF InPlace

LEMMA MoveAsideKeeps ==
    ASSUME DeploymentInv, MoveAside
    PROVE  DeploymentInv'
<1>1. /\ job # NoJob
      /\ disk' = [disk EXCEPT ![Target.dir][Target.file] = Absent]
      /\ UNCHANGED <<haproxy, cln, now, count, job, health>>
  BY DEF MoveAside
<1>2. /\ FilesTyped'
      /\ Target.dir \in Dir /\ Target.file \in File
      /\ \A d \in Dir, f \in File :
            d # Target.dir \/ f # Target.file => disk'[d][f] = disk[d][f]
      /\ \A d \in Dir : health[d] = "good" => Healthy(d)'
      /\ \A d \in {"out", "client"} : Exists(d, "client")' => "gcob" \in Account
  BY <1>1, TargetChanges
<1>3. /\ JobTyped /\ JobExact /\ HealthExact
  BY DEF DeploymentInv
<1>4. job.at \in 1..Len(job.plan) /\ Target = job.plan[job.at]
  BY <1>1, <1>3 DEF JobTyped, Target
<1>5. JobTyped'
  <2>1. ASSUME job.cmd = "renew", Lists(RenewFiles(job.dir)), disk[job.dir]["ca"] = [ca |-> cln]
        PROVE  disk'[job.dir]["ca"] = [ca |-> cln]
    <3>1. job.dir \in Dir /\ "ca" \in File
      BY <1>1, <1>3, <2>1 DEF JobTyped, Dir, File
    <3>2. Target.file # "ca"
      <4>1. Len(job.plan) = 4 /\ Where(job.at) = RenewFiles(job.dir)[job.at]
        BY <1>4, <2>1 DEF Lists, RenewFiles
      <4>2. RenewFiles(job.dir)[job.at][2] # "ca"
        BY <1>4, <4>1 DEF RenewFiles
      <4> QED
        BY <1>4, <4>1, <4>2 DEF Where
    <3> QED
      BY <1>2, <2>1, <3>1, <3>2
  <2>2. \A files : Lists(files)' <=> Lists(files)
    BY <1>1 DEF Lists, Where
  <2> QED
    BY <1>1, <1>3, <2>1, <2>2 DEF JobTyped
<1>6. JobExact'
  <2>1. \A n \in 1..Len(job.plan) : Made(job.plan[n])'
    BY <1>1, <1>3 DEF JobExact, Made
  <2>2. \A n \in 1..job.at - 1 : InPlace(n)'
    BY <1>1, WrittenStays DEF InPlace, Where
  <2> QED
    BY <1>1, <2>1, <2>2 DEF JobExact
<1>7. HealthExact'
  BY <1>1, <1>2, <1>3 DEF HealthExact
<1> QED
  BY <1>1, <1>2, <1>5, <1>6, <1>7 DEF DeploymentInv

(***************************************************************************)
(* One generation of certificates in a server's directory is healthy.      *)
(***************************************************************************)
LEMMA OneGeneration ==
    ASSUME NEW d \in ServerDir, NEW ca, NEW until, NEW s, NEW c, NEW N, N = disk'[d],
           Holds("ca", N["ca"]), N["ca"].ca = ca,
           Holds("server", N["server"]), N["server"].ca = ca, N["server"].until = until,
           Holds("client", N["client"]), N["client"].ca = ca, N["client"].until = until,
           Holds("server_key", N["server_key"]), Holds("client_key", N["client_key"]),
           N["server"].key = s, N["server_key"].key = s,
           N["client"].key = c, N["client_key"].key = c
    PROVE  Healthy(d)'
<1>1. \A f \in File \ {"csr"} : Holds(f, N[f])
  BY DEF File
<1>2. \A f \in File \ {"csr"} : Exists(d, f)'
  BY <1>1, HeldIsThere DEF Exists
<1>3. d \notin {"haproxy", "client"}
  BY DEF ServerDir
<1>4. Generation(d, File \ {"csr"})'
  BY <1>2 DEF Generation
<1> QED
  BY <1>3, <1>4 DEF Healthy

(***************************************************************************)
(* When the last file of a plan is in place, the directories of the plan   *)
(* are healthy.                                                            *)
(***************************************************************************)
LEMMA PlanMakesHealthy ==
    ASSUME DeploymentInv, job # NoJob, haproxy' = haproxy,
           \A n \in 1..Len(job.plan) :
              (\A m \in n + 1..Len(job.plan) : Where(m) # Where(n)) =>
                 disk'[job.plan[n].dir][job.plan[n].file] = job.plan[n].content,
           \A d \in Dir, f \in File :
              (\A n \in 1..Len(job.plan) : Where(n) # <<d, f>>) => disk'[d][f] = disk[d][f],
           NEW d \in Dir, \E e \in ToSet(job.plan) : e.dir = d
    PROVE  Healthy(d)'
<1>1. /\ JobTyped /\ Len(job.plan) \in Nat
      /\ \A n \in 1..Len(job.plan) : Made(job.plan[n])
      /\ job.cmd = "init" => haproxy
  BY DEF DeploymentInv, JobTyped, JobExact, HealthExact
<1>2. PICK i \in 1..Len(job.plan) : job.plan[i].dir = d
  BY DEF ToSet
<1> DEFINE New(dir, file) ==
              /\ Holds(file, disk'[dir][file])
              /\ file \in {"ca", "server", "client"} => disk'[dir][file].ca = cln
              /\ file \in {"server", "client"} => disk'[dir][file].until = now + Validity
              /\ dir \in ServerDir => /\ file \in {"server", "server_key"} =>
                                            disk'[dir][file].key = <<count, "server">>
                                      /\ file \in {"client", "client_key"} =>
                                            disk'[dir][file].key = <<count, "api">>
              /\ dir = "client" => disk'[dir][file].key = <<count, "csr">>
<1>3. ASSUME NEW n \in 1..Len(job.plan), \A m \in n + 1..Len(job.plan) : Where(m) # Where(n),
             NEW dir, NEW file, Where(n) = <<dir, file>>
      PROVE  New(dir, file) /\ disk'[dir][file] = job.plan[n].content
  <2>1. /\ job.plan[n].dir = dir /\ job.plan[n].file = file
        /\ disk'[dir][file] = job.plan[n].content
    BY <1>3 DEF Where
  <2> QED
    BY <1>1, <2>1 DEF Made
<1> HIDE DEF New
<1>4. CASE job.cmd = "init"
  <2>1. job.dir \in ServerDir /\ Lists(InitFiles(job.dir))
    BY <1>1, <1>4 DEF JobTyped
  <2>2. Len(job.plan) = 8
    BY <2>1 DEF Lists, InitFiles
  <2>3. /\ Where(1) = <<"haproxy", "ca">> /\ Where(2) = <<"haproxy", "server">>
        /\ Where(3) = <<"haproxy", "client">> /\ Where(4) = <<job.dir, "ca">>
        /\ Where(5) = <<job.dir, "server">> /\ Where(6) = <<job.dir, "server_key">>
        /\ Where(7) = <<job.dir, "client">> /\ Where(8) = <<job.dir, "client_key">>
    BY <2>1 DEF Lists, InitFiles
  <2>4. /\ \A n \in 1..Len(job.plan) : \A m \in n + 1..Len(job.plan) : Where(m) # Where(n)
        /\ 1 \in 1..Len(job.plan) /\ 2 \in 1..Len(job.plan) /\ 3 \in 1..Len(job.plan)
        /\ 4 \in 1..Len(job.plan) /\ 5 \in 1..Len(job.plan) /\ 6 \in 1..Len(job.plan)
        /\ 7 \in 1..Len(job.plan) /\ 8 \in 1..Len(job.plan)
    <3>1. \A n \in 1..8 : \A m \in n + 1..8 : Where(m) # Where(n)
      BY <2>1, <2>3 DEF ServerDir
    <3> QED
      BY <2>2, <3>1
  <2>5. /\ New("haproxy", "ca") /\ New("haproxy", "server") /\ New("haproxy", "client")
        /\ New(job.dir, "ca") /\ New(job.dir, "server") /\ New(job.dir, "server_key")
        /\ New(job.dir, "client") /\ New(job.dir, "client_key")
    BY <1>3, <2>3, <2>4
  <2>6. d \in {"haproxy", job.dir}
    BY <1>2, <2>2, <2>3 DEF Where
  <2>7. CASE d = "haproxy"
    <3>1. \A f \in {"ca", "server", "client"} :
             /\ Holds(f, disk'[d][f]) /\ disk'[d][f].ca = cln
             /\ f # "ca" => disk'[d][f].until = now + Validity
      BY <2>5, <2>7 DEF New
    <3>2. \A f \in {"ca", "server", "client"} : Exists(d, f)'
      BY <3>1, HeldIsThere DEF File, Exists
    <3> QED
      BY <1>1, <1>4, <2>7, <3>1, <3>2 DEF Healthy, Generation, ServerDir
  <2>8. CASE d = job.dir
    BY <2>1, <2>5, <2>8, OneGeneration DEF New
  <2> QED
    BY <2>6, <2>7, <2>8
<1>5. CASE job.cmd = "renew"
  <2>1. /\ job.dir \in ServerDir
        /\ \/ Lists(RenewFiles(job.dir)) /\ disk[job.dir]["ca"] = [ca |-> cln]
           \/ Lists(RotateFiles(job.dir))
    BY <1>1, <1>5 DEF JobTyped
  <2>2. /\ Len(job.plan) = 4 \/ Len(job.plan) = 5
        /\ Where(1) = <<job.dir, "server">> /\ Where(2) = <<job.dir, "server_key">>
        /\ Where(3) = <<job.dir, "client">> /\ Where(4) = <<job.dir, "client_key">>
        /\ Len(job.plan) = 5 => Where(5) = <<job.dir, "ca">>
        /\ Len(job.plan) = 4 => disk[job.dir]["ca"] = [ca |-> cln]
    <3>1. CASE Lists(RenewFiles(job.dir)) /\ disk[job.dir]["ca"] = [ca |-> cln]
      BY <3>1 DEF Lists, RenewFiles
    <3>2. CASE Lists(RotateFiles(job.dir))
      BY <3>2 DEF Lists, RotateFiles
    <3> QED
      BY <2>1, <3>1, <3>2
  <2>3. /\ 1 \in 1..Len(job.plan) /\ 2 \in 1..Len(job.plan)
        /\ 3 \in 1..Len(job.plan) /\ 4 \in 1..Len(job.plan)
        /\ Len(job.plan) = 5 => 5 \in 1..Len(job.plan)
        /\ \A n \in 1..Len(job.plan) : n = 1 \/ n = 2 \/ n = 3 \/ n = 4 \/ (n = 5 /\ Len(job.plan) = 5)
    <3>1. CASE Len(job.plan) = 4
      BY <3>1
    <3>2. CASE Len(job.plan) = 5
      BY <3>2
    <3> QED
      BY <2>2, <3>1, <3>2
  <2>4. \A n \in 1..Len(job.plan) : \A m \in n + 1..Len(job.plan) : Where(m) # Where(n)
    <3> SUFFICES ASSUME NEW n \in 1..Len(job.plan), NEW m \in n + 1..Len(job.plan)
                 PROVE  Where(m) # Where(n)
      OBVIOUS
    <3>1. m \in 1..Len(job.plan) /\ m > n
      BY <1>1
    <3>2. n = 1 \/ n = 2 \/ n = 3 \/ n = 4 \/ (n = 5 /\ Len(job.plan) = 5)
      BY <2>3
    <3>3. m = 1 \/ m = 2 \/ m = 3 \/ m = 4 \/ (m = 5 /\ Len(job.plan) = 5)
      BY <2>3, <3>1
    <3> QED
      BY <2>2, <3>1, <3>2, <3>3
  <2>5. d = job.dir
    BY <1>2, <2>2, <2>3 DEF Where
  <2>6. New(d, "server") /\ New(d, "server_key") /\ New(d, "client") /\ New(d, "client_key")
    BY <1>3, <2>2, <2>3, <2>4, <2>5
  <2>7. Holds("ca", disk'[d]["ca"]) /\ disk'[d]["ca"].ca = cln
    <3>1. CASE Len(job.plan) = 5
      <4>1. New(d, "ca")
        BY <1>3, <2>2, <2>3, <2>4, <2>5, <3>1
      <4> QED
        BY <4>1 DEF New
    <3>2. CASE Len(job.plan) = 4
      <4>1. \A n \in 1..Len(job.plan) : Where(n) # <<d, "ca">>
        BY <2>2, <2>3, <3>2
      <4>2. disk'[d]["ca"] = [ca |-> cln]
        BY <2>2, <2>5, <3>2, <4>1 DEF File
      <4>3. cln \in 0..MaxCaChanges
        BY DEF DeploymentInv
      <4> QED
        BY <4>2, <4>3 DEF Holds, KeyFile
    <3> QED
      BY <2>2, <3>1, <3>2
  <2> QED
    BY <2>1, <2>5, <2>6, <2>7, OneGeneration DEF New
<1>6. CASE job.cmd = "client_init"
  <2>1. Lists(ClientFiles) /\ job.plan[3].content.mode = "0400"
    BY <1>1, <1>6 DEF JobTyped
  <2>2. Len(job.plan) = 3 /\ Where(1) = <<"client", "csr">>
        /\ Where(2) = <<"client", "client_key">> /\ Where(3) = <<"client", "client_key">>
    BY <2>1 DEF Lists, ClientFiles
  <2>3. /\ \A m \in 1 + 1..Len(job.plan) : Where(m) # Where(1)
        /\ \A m \in 3 + 1..Len(job.plan) : Where(m) # Where(3)
        /\ 1 \in 1..Len(job.plan) /\ 3 \in 1..Len(job.plan)
    BY <2>2
  <2>4. d = "client"
    BY <1>2, <2>2 DEF Where
  <2>5. Holds("csr", disk'[d]["csr"]) /\ disk'[d]["csr"].key = <<count, "csr">>
    BY <1>3, <2>2, <2>3, <2>4 DEF New
  <2>6. /\ Holds("client_key", disk'[d]["client_key"])
        /\ disk'[d]["client_key"].key = <<count, "csr">>
        /\ disk'[d]["client_key"].mode = "0400"
    BY <1>3, <2>1, <2>2, <2>3, <2>4 DEF New
  <2>7. Exists(d, "csr")' /\ Exists(d, "client_key")'
    BY <2>5, <2>6, HeldIsThere DEF File, Exists
  <2> QED
    BY <2>4, <2>5, <2>6, <2>7 DEF Healthy, ServerDir
<1>7. CASE job.cmd = "sign"
  <2>1. Lists(<< <<"out", "client">> >>)
    BY <1>1, <1>7 DEF JobTyped
  <2>2. d = "out"
    BY <1>2, <2>1 DEF Lists, Where
  <2> QED
    BY <2>2 DEF Healthy, ServerDir
<1> QED
  BY <1>1, <1>4, <1>5, <1>6, <1>7 DEF JobTyped

LEMMA PlaceKeeps ==
    ASSUME DeploymentInv, Place
    PROVE  DeploymentInv'
<1>1. /\ job # NoJob
      /\ disk' = [disk EXCEPT ![Target.dir][Target.file] = Target.content]
      /\ UNCHANGED <<haproxy, cln, now, count>>
  BY DEF Place
<1>2. /\ FilesTyped'
      /\ Target.dir \in Dir /\ Target.file \in File
      /\ disk'[Target.dir][Target.file] = Target.content
      /\ \A d \in Dir, f \in File :
            d # Target.dir \/ f # Target.file => disk'[d][f] = disk[d][f]
      /\ \A d \in Dir : health[d] = "good" => Healthy(d)'
      /\ \A d \in {"out", "client"} : Exists(d, "client")' => "gcob" \in Account
  BY <1>1, TargetChanges
<1>3. /\ JobTyped /\ JobExact /\ HealthExact
  BY DEF DeploymentInv
<1>4. /\ job.at \in 1..Len(job.plan) /\ Len(job.plan) \in Nat /\ Target = job.plan[job.at]
      /\ job.at \in Nat
  BY <1>1, <1>3 DEF JobTyped, Target
<1>5. ASSUME NEW n \in 1..job.at, \A m \in n + 1..Len(job.plan) : Where(m) # Where(n)
      PROVE  disk'[job.plan[n].dir][job.plan[n].file] = job.plan[n].content
  <2>1. CASE n = job.at
    BY <1>2, <1>4, <2>1
  <2>2. CASE n # job.at
    <3>1. n \in 1..job.at - 1
      BY <1>4, <2>2
    <3> QED
      BY <1>1, <1>5, <3>1, WrittenStays
  <2> QED
    BY <2>1, <2>2
<1>6. CASE /\ job.at < Len(job.plan)
           /\ job' = [job EXCEPT !.at = job.at + 1]
           /\ UNCHANGED health
  <2>1. /\ job'.plan = job.plan /\ job'.cmd = job.cmd /\ job'.dir = job.dir
        /\ job'.at = job.at + 1 /\ job'.aside = job.aside /\ job'.keep = job.keep
        /\ job' # NoJob
    <3>1. job \in [cmd : {"init", "renew", "client_init", "sign"}, dir : Dir,
                   aside : BOOLEAN, keep : {job.keep}, at : 1..Len(job.plan),
                   plan : Seq(ToSet(job.plan))]
      BY <1>1, <1>3 DEF JobTyped
    <3>2. /\ job'.plan = job.plan /\ job'.cmd = job.cmd /\ job'.dir = job.dir
          /\ job'.at = job.at + 1 /\ job'.aside = job.aside /\ job'.keep = job.keep
      BY <1>6, <3>1
    <3>3. job'.cmd # "none"
      BY <3>1, <3>2
    <3> QED
      BY <3>2, <3>3 DEF NoJob
  <2>2. job.at + 1 \in 1..Len(job.plan)
    BY <1>4, <1>6
  <2>3. \A files : Lists(files)' <=> Lists(files)
    BY <2>1 DEF Lists, Where
  <2>4. JobTyped'
    <3>1. job' \in [cmd : {"init", "renew", "client_init", "sign"}, dir : Dir,
                    aside : BOOLEAN, keep : {job.keep}, at : 1..Len(job.plan),
                    plan : Seq(ToSet(job.plan))]
      BY <1>1, <1>3, <1>6, <2>2 DEF JobTyped
    <3>2. ASSUME job.cmd = "renew", Lists(RenewFiles(job.dir)), disk[job.dir]["ca"] = [ca |-> cln]
          PROVE  disk'[job.dir]["ca"] = [ca |-> cln]
      <4>1. job.dir \in Dir /\ "ca" \in File
        BY <1>1, <1>3 DEF JobTyped, File
      <4>2. Target.file # "ca"
        <5>1. Len(job.plan) = 4 /\ Where(job.at) = RenewFiles(job.dir)[job.at]
          BY <1>4, <3>2 DEF Lists, RenewFiles
        <5>2. RenewFiles(job.dir)[job.at][2] # "ca"
          BY <1>4, <5>1 DEF RenewFiles
        <5> QED
          BY <1>4, <5>1, <5>2 DEF Where
      <4> QED
        BY <1>2, <3>2, <4>1, <4>2
    <3> QED
      BY <1>1, <1>3, <2>1, <2>3, <3>1, <3>2 DEF JobTyped
  <2>5. JobExact'
    <3>1. \A n \in 1..Len(job'.plan) : Made(job.plan[n])'
      <4>1. \A e : Made(e)' <=> Made(e)
        BY <1>1 DEF Made
      <4>2. \A n \in 1..Len(job.plan) : Made(job.plan[n])
        BY <1>1, <1>3 DEF JobExact
      <4> QED
        BY <2>1, <4>1, <4>2
    <3>2. \A n \in 1..job'.at - 1 : n \in 1..job.at
      BY <1>4, <2>1
    <3>3. \A n \in 1..job'.at - 1 : InPlace(n)'
      BY <1>5, <2>1, <3>2 DEF InPlace, Where
    <3> QED
      BY <2>1, <3>1, <3>3 DEF JobExact
  <2>6. HealthExact'
    BY <1>1, <1>2, <1>3, <1>6, <2>1 DEF HealthExact
  <2> QED
    BY <1>1, <1>2, <2>4, <2>5, <2>6 DEF DeploymentInv
<1>7. CASE /\ job.at = Len(job.plan)
           /\ job' = NoJob
           /\ health' = [d \in Dir |-> IF health[d] = "busy" THEN "good" ELSE health[d]]
  <2>1. ASSUME NEW d \in Dir, health[d] = "busy" PROVE Healthy(d)'
    <3>1. \E e \in ToSet(job.plan) : e.dir = d
      BY <1>3, <2>1 DEF HealthExact
    <3>2. ASSUME NEW x \in Dir, NEW f \in File,
                 \A n \in 1..Len(job.plan) : Where(n) # <<x, f>>
          PROVE  disk'[x][f] = disk[x][f]
      <4>1. <<Target.dir, Target.file>> # <<x, f>>
        BY <1>4, <3>2 DEF Where
      <4> QED
        BY <1>2, <4>1
    <3> QED
      BY <1>1, <1>5, <1>7, <3>1, <3>2, PlanMakesHealthy
  <2>2. /\ health' \in [Dir -> {"none", "busy", "good", "torn"}]
        /\ \A d \in Dir : health'[d] # "busy"
        /\ \A d \in Dir : health'[d] = "good" => health[d] \in {"good", "busy"}
        /\ \A d \in Dir : health'[d] # "none" => health[d] # "none"
    BY <1>3, <1>7 DEF HealthExact
  <2>3. ASSUME NEW d \in Dir, health'[d] = "good" PROVE Healthy(d)'
    BY <1>2, <2>1, <2>2, <2>3
  <2>4. {"admin", "srv", "haproxy"} \subseteq Dir
    BY DEF Dir
  <2>5. HealthExact'
    BY <1>2, <1>3, <1>7, <2>2, <2>3, <2>4 DEF HealthExact
  <2>6. JobTyped' /\ JobExact'
    BY <1>7 DEF JobTyped, JobExact
  <2> QED
    BY <1>1, <1>2, <2>5, <2>6 DEF DeploymentInv
<1> QED
  BY <1>6, <1>7 DEF Place

-----------------------------------------------------------------------------
(* The plans of the commands.                                              *)

(***************************************************************************)
(* A plan of so many files is a sequence of them.                          *)
(***************************************************************************)
LEMMA Tuples ==
    ASSUME NEW a, NEW b, NEW c, NEW d, NEW e, NEW f, NEW g, NEW h, NEW s
    PROVE  /\ s = <<a>> => s \in Seq(ToSet(s)) /\ Len(s) = 1 /\ s[1] = a
           /\ s = <<a, b, c>> =>
                 s \in Seq(ToSet(s)) /\ Len(s) = 3 /\ s[1] = a /\ s[2] = b /\ s[3] = c
           /\ s = <<a, b, c, d, e, f, g, h>> =>
                 /\ s \in Seq(ToSet(s)) /\ Len(s) = 8
                 /\ s[1] = a /\ s[2] = b /\ s[3] = c /\ s[4] = d
                 /\ s[5] = e /\ s[6] = f /\ s[7] = g /\ s[8] = h
<1>1. ASSUME NEW X, s \in Seq(X) PROVE s \in Seq(ToSet(s))
  BY <1>1 DEF ToSet
<1>2. s = <<a>> => s \in Seq({a})
  OBVIOUS
<1>3. s = <<a, b, c>> => s \in Seq({a, b, c})
  OBVIOUS
<1>4. s = <<a, b, c, d, e, f, g, h>> => s \in Seq({a, b, c, d, e, f, g, h})
  OBVIOUS
<1> QED
  BY <1>1, <1>2, <1>3, <1>4

\* A command that begins to write is one of the four, at its first file.
LEMMA BegunJob ==
    ASSUME NEW cmd \in {"init", "renew", "client_init", "sign"}, NEW dir \in Dir,
           NEW aside \in BOOLEAN, NEW keep, NEW plan,
           plan \in Seq(ToSet(plan)), 1 \in 1..Len(plan), NEW begun,
           begun = [cmd |-> cmd, dir |-> dir, aside |-> aside, keep |-> keep,
                    at |-> 1, plan |-> plan]
    PROVE  begun \in [cmd : {"init", "renew", "client_init", "sign"}, dir : Dir,
                      aside : BOOLEAN, keep : {begun.keep}, at : 1..Len(begun.plan),
                      plan : Seq(ToSet(begun.plan))]
<1>1. begun.keep = keep /\ begun.plan = plan
  OBVIOUS
<1>2. [cmd |-> cmd, dir |-> dir, aside |-> aside, keep |-> keep, at |-> 1, plan |-> plan]
        \in [cmd : {"init", "renew", "client_init", "sign"}, dir : Dir, aside : BOOLEAN,
            keep : {keep}, at : 1..Len(plan), plan : Seq(ToSet(plan))]
  OBVIOUS
<1> QED
  BY <1>1, <1>2

(***************************************************************************)
(* A file that the command which begins is to write.                       *)
(***************************************************************************)
LEMMA PutMade ==
    ASSUME count' = count + 1, UNCHANGED <<cln, now>>, NEW dir, NEW file, NEW content,
           Holds(file, content),
           file \in {"ca", "server", "client"} => content.ca = cln,
           file \in {"server", "client"} => content.until = now + Validity,
           dir \in ServerDir => /\ file \in {"server", "server_key"} => content.key = Key("server")
                                /\ file \in {"client", "client_key"} => content.key = Key("api"),
           dir = "client" => content.key = Key("csr")
    PROVE  Made(Put(dir, file, content))'
  BY DEF Made, Put, Key

(***************************************************************************)
(* The keys of a command that may begin, and the files with them.          *)
(***************************************************************************)
LEMMA NewKeys ==
    ASSUME DeploymentInv, count < MaxCommands
    PROVE  /\ \A role \in {"server", "api", "haproxy", "csr"} : Key(role) \in Keys
           /\ Holds("ca", [ca |-> cln]) /\ [ca |-> cln].ca = cln
           /\ \A key \in Keys, f \in KeyFile, mode \in {"0400", "0600"} :
                 Holds(f, KeyPem(key, mode))
<1>1. count + 1 \in 1..MaxCommands /\ cln \in 0..MaxCaChanges
  BY Bounds DEF DeploymentInv
<1>2. \A role \in {"server", "api", "haproxy", "csr"} : Key(role) \in Keys
  BY <1>1 DEF Key, Keys
<1>3. Holds("ca", [ca |-> cln])
  BY <1>1 DEF Holds, KeyFile
<1>4. ASSUME NEW key \in Keys, NEW f \in KeyFile, NEW mode \in {"0400", "0600"}
      PROVE  Holds(f, KeyPem(key, mode))
  BY NewKeyPem DEF Holds, KeyFile
<1> QED
  BY <1>2, <1>3, <1>4

LEMMA InitBegins ==
    ASSUME DeploymentInv, Idle, NEW d \in ServerDir, NEW host \in Identities,
           NEW ip \in Identities, ip.kind = "ip",
           Begin("init", d, TRUE, <<>>, init_plan(d, host, ip)),
           UNCHANGED <<disk, cln, now>>, haproxy' = TRUE, "gcob" \in Account
    PROVE  DeploymentInv'
<1>1. /\ job = NoJob /\ count < MaxCommands
      /\ cln \in 0..MaxCaChanges /\ now \in 0..MaxDay
  BY DEF Idle, DeploymentInv
<1>2. /\ Key("server") \in Keys /\ Key("api") \in Keys /\ Key("haproxy") \in Keys
      /\ Holds("ca", [ca |-> cln])
      /\ Holds("server_key", KeyPem(Key("server"), "0600"))
      /\ Holds("client_key", KeyPem(Key("api"), "0600"))
  BY <1>1, NewKeys DEF KeyFile
<1>3. PICK server : server = generate_server_cert(cln, Key("server"), host, ip, now)
  OBVIOUS
<1>4. PICK client : client = generate_client_cert(cln, Key("api"), host, now)
  OBVIOUS
<1>5. PICK bundle : bundle = generate_client_cert(cln, Key("haproxy"), host, now)
  OBVIOUS
<1>6. /\ Holds("server", server) /\ server.ca = cln /\ server.key = Key("server")
      /\ server.until = now + Validity
      /\ Holds("client", client) /\ client.ca = cln /\ client.key = Key("api")
      /\ client.until = now + Validity
      /\ Holds("client", bundle) /\ bundle.ca = cln /\ bundle.until = now + Validity
  BY <1>1, <1>2, <1>3, <1>4, <1>5, NewServerCert, NewClientCert
<1>7. PICK plan :
         plan = << Put("haproxy", "ca", [ca |-> cln]), Put("haproxy", "server", server),
                   Put("haproxy", "client", bundle), Put(d, "ca", [ca |-> cln]),
                   Put(d, "server", server),
                   Put(d, "server_key", KeyPem(Key("server"), "0600")),
                   Put(d, "client", client),
                   Put(d, "client_key", KeyPem(Key("api"), "0600")) >>
  OBVIOUS
<1>8. plan = init_plan(d, host, ip)
  BY <1>3, <1>4, <1>5, <1>7 DEF init_plan
<1>9. /\ plan \in Seq(ToSet(plan)) /\ Len(plan) = 8
      /\ plan[1] = Put("haproxy", "ca", [ca |-> cln])
      /\ plan[2] = Put("haproxy", "server", server)
      /\ plan[3] = Put("haproxy", "client", bundle)
      /\ plan[4] = Put(d, "ca", [ca |-> cln])
      /\ plan[5] = Put(d, "server", server)
      /\ plan[6] = Put(d, "server_key", KeyPem(Key("server"), "0600"))
      /\ plan[7] = Put(d, "client", client)
      /\ plan[8] = Put(d, "client_key", KeyPem(Key("api"), "0600"))
  BY <1>7, Tuples
<1>10. /\ job' = [cmd |-> "init", dir |-> d, aside |-> TRUE, keep |-> <<>>,
                  at |-> 1, plan |-> plan]
       /\ count' = count + 1
  BY <1>8 DEF Begin
<1>11. ASSUME NEW n \in 1..Len(plan) PROVE Made(plan[n])'
  <2>1. d # "client" /\ "haproxy" \notin ServerDir
    BY DEF ServerDir
  <2>2. Made(plan[1])' /\ Made(plan[2])' /\ Made(plan[3])'
    BY <1>2, <1>6, <1>9, <1>10, <2>1, PutMade
  <2>3. Made(plan[4])' /\ Made(plan[5])' /\ Made(plan[7])'
    BY <1>2, <1>6, <1>9, <1>10, <2>1, PutMade
  <2>4. Made(plan[6])' /\ Made(plan[8])'
    BY <1>2, <1>9, <1>10, <2>1, PutMade, NewKeyPem
  <2>5. n \in 1..8
    BY <1>9
  <2> QED
    BY <2>2, <2>3, <2>4, <2>5
<1>12. JobTyped'
  <2>1. /\ job'.plan = plan /\ job'.cmd = "init" /\ job'.dir = d /\ job'.keep = <<>>
    BY <1>10
  <2>2. Lists(InitFiles(d))'
    BY <1>9, <2>1 DEF Lists, InitFiles, Where, Put
  <2>3. job' \in [cmd : {"init", "renew", "client_init", "sign"}, dir : Dir,
                  aside : BOOLEAN, keep : {job'.keep}, at : 1..Len(job'.plan),
                  plan : Seq(ToSet(job'.plan))]
    <3>1. d \in Dir
      BY DEF ServerDir, Dir
    <3>2. 1 \in 1..Len(plan)
      BY <1>9
    <3> QED
      BY <1>9, <1>10, <3>1, <3>2, BegunJob
  <2> QED
    BY <2>1, <2>2, <2>3 DEF JobTyped
<1>13. haproxy' \in BOOLEAN
  OBVIOUS
<1> QED
  BY <1>1, <1>8, <1>9, <1>11, <1>12, <1>13, BeginKeeps

LEMMA HandleInitKeeps ==
    ASSUME DeploymentInv, NEW o \in Option, handle_init_server(o)
    PROVE  DeploymentInv' /\ (job' # NoJob => job'.cmd # "renew")
<1> DEFINE id == InitIdentity(o)
<1>1. /\ id.host \in SUBSET Identities /\ id.ip \in SUBSET Identities
      /\ id.host # None /\ id.ip # None
      /\ Idle /\ validate_unicast_ip(The(id.ip), o.loopback)
      /\ UNCHANGED <<disk, conf, cln, now>>
  BY InitIdentityType DEF handle_init_server
<1>2. The(id.host) \in Identities /\ The(id.ip) \in Identities /\ The(id.ip).kind = "ip"
  BY <1>1, Chosen DEF validate_unicast_ip
<1>3. PICK d \in OrElse(o.dir, default_cert_dir(o.who)) :
         provision_server(o, d, The(id.host), The(id.ip))
  BY DEF handle_init_server
<1>4. d \in ServerDir
  <2>1. o.dir \in SUBSET {"srv"}
    BY DeploymentAssumption DEF Options
  <2>2. default_cert_dir(o.who) \subseteq {"admin"}
    BY DEF default_cert_dir
  <2> QED
    BY <2>1, <2>2 DEF OrElse, ServerDir
<1> HIDE DEF id
<1>5. haproxy' = TRUE /\ "gcob" \in Account
  BY <1>3 DEF provision_server, account_by_name, None
<1>6. CASE Begin("init", d, TRUE, <<>>, init_plan(d, The(id.host), The(id.ip)))
  <2>1. DeploymentInv'
    BY <1>1, <1>2, <1>4, <1>5, <1>6, InitBegins
  <2> QED
    BY <1>6, <2>1 DEF Begin
<1>7. CASE UNCHANGED <<count, job, health>>
  <2>1. /\ JobTyped /\ JobExact /\ FilesTyped /\ HealthExact /\ cln \in Nat /\ job = NoJob
    BY <1>1 DEF DeploymentInv, Idle
  <2>2. FilesTyped'
    BY <1>1, <2>1, FilesStay
  <2>3. \A d_1 \in Dir : Healthy(d_1) => Healthy(d_1)'
    BY <1>1, <1>5, StaysHealthy
  <2>4. \A d_1 \in {"out", "client"} : Exists(d_1, "client")' <=> Exists(d_1, "client")
    BY <1>1 DEF Exists
  <2>5. HealthExact'
    BY <1>1, <1>5, <1>7, <2>1, <2>3, <2>4 DEF HealthExact
  <2> QED
    BY <1>1, <1>5, <1>7, <2>1, <2>2, <2>5 DEF DeploymentInv, JobTyped, JobExact
<1> QED
  BY <1>3, <1>6, <1>7 DEF provision_server

(***************************************************************************)
(* Four files, and five.                                                   *)
(***************************************************************************)
LEMMA FourFiles ==
    ASSUME NEW a, NEW b, NEW c, NEW d, NEW s, s = <<a, b, c, d>>
    PROVE  /\ s \in Seq(ToSet(s)) /\ Len(s) = 4
           /\ s[1] = a /\ s[2] = b /\ s[3] = c /\ s[4] = d
<1>1. s \in Seq({a, b, c, d}) /\ Len(s) = 4
  OBVIOUS
<1>2. s[1] = a /\ s[2] = b /\ s[3] = c /\ s[4] = d
  OBVIOUS
<1>3. s \in Seq(ToSet(s))
  BY <1>1 DEF ToSet
<1> QED
  BY <1>1, <1>2, <1>3

LEMMA FiveFiles ==
    ASSUME NEW a, NEW b, NEW c, NEW d, NEW e, NEW p, p = <<a, b, c, d>>
    PROVE  /\ Append(p, e) \in Seq(ToSet(Append(p, e))) /\ Len(Append(p, e)) = 5
           /\ Append(p, e)[1] = a /\ Append(p, e)[2] = b /\ Append(p, e)[3] = c
           /\ Append(p, e)[4] = d /\ Append(p, e)[5] = e
<1>1. PICK X : X = {a, b, c, d, e}
  OBVIOUS
<1>2. PICK q : q = p
  OBVIOUS
<1>3. q \in Seq(X) /\ Len(q) = 4 /\ q[1] = a /\ q[2] = b /\ q[3] = c /\ q[4] = d
  BY <1>1, <1>2
<1>4. PICK t : t = Append(q, e)
  OBVIOUS
<1>5. e \in X
  BY <1>1
<1>6. t \in Seq(X) /\ Len(t) = Len(q) + 1 /\ t[Len(q) + 1] = e
  BY <1>3, <1>4, <1>5, AppendProperties
<1>7. \A i \in 1..Len(q) : t[i] = q[i]
  BY <1>3, <1>4, <1>5
<1>8. Len(t) = 5 /\ t[5] = e /\ t[1] = a /\ t[2] = b /\ t[3] = c /\ t[4] = d
  BY <1>3, <1>6, <1>7
<1>9. t \in Seq(ToSet(t))
  BY <1>6 DEF ToSet
<1>10. Append(p, e) = t
  BY <1>2, <1>4
<1> QED
  BY <1>8, <1>9, <1>10

(***************************************************************************)
(* The identity of a renewal is made of the options and of the installed   *)
(* certificate, whose two names it repeats when no option is given.        *)
(***************************************************************************)
LEMMA RenewIdentityType ==
    ASSUME DeploymentInv, NEW o \in Option, NEW d \in ServerDir
    PROVE  /\ RenewIdentity(o, d).host \in SUBSET Identities
           /\ RenewIdentity(o, d).ip \in SUBSET Identities
           /\ /\ o.flags = [host |-> None, ip |-> None]
              /\ Exists(d, "server")
              /\ RenewIdentity(o, d).host # None
              => LET sans == disk[d]["server"].sans IN
                 /\ sans = <<San(The(RenewIdentity(o, d).host)), San(The(RenewIdentity(o, d).ip))>>
                 /\ San(The(RenewIdentity(o, d).host)) # San(The(RenewIdentity(o, d).ip))
<1>1. o.flags.host \in SUBSET Identities /\ o.flags.ip \in SUBSET Identities
  BY DeploymentAssumption DEF Options
<1>2. CASE Exists(d, "server")
  <2>1. PICK cert : cert = disk[d]["server"]
    OBVIOUS
  <2>2. cert \in Leaves("server") /\ Len(cert.sans) \in 1..2 /\ cert.sans[Len(cert.sans)].kind = "ip"
    BY <1>2, <2>1 DEF DeploymentInv, FilesTyped, Holds, ServerDir, Dir, File
  <2>3. PICK sans \in Names : sans = cert.sans
    BY <2>2 DEF Leaves
  <2>4. PICK old : old = san_identities(cert)
    OBVIOUS
  <2>5. /\ old.host \in SUBSET Identities /\ old.ip \in SUBSET Identities
        /\ old.host # None => /\ Len(sans) = 2
                              /\ San(The(old.host)) = sans[1]
                              /\ San(The(old.ip)) = sans[2]
                              /\ sans[1].kind = "dns"
    BY <2>2, <2>3, <2>4, SansOfServer
  <2>6. /\ RenewIdentity(o, d).host = OrElse(o.flags.host, old.host)
        /\ RenewIdentity(o, d).ip = OrElse(o.flags.ip, old.ip)
    BY <1>2, <2>1, <2>4 DEF RenewIdentity
  <2>7. ASSUME o.flags = [host |-> None, ip |-> None], RenewIdentity(o, d).host # None
        PROVE  /\ sans = <<San(The(RenewIdentity(o, d).host)), San(The(RenewIdentity(o, d).ip))>>
               /\ San(The(RenewIdentity(o, d).host)) # San(The(RenewIdentity(o, d).ip))
    <3>1. RenewIdentity(o, d).host = old.host /\ RenewIdentity(o, d).ip = old.ip
      BY <2>6, <2>7 DEF OrElse
    <3>2. /\ Len(sans) = 2 /\ sans[1].kind = "dns" /\ sans[2].kind = "ip"
          /\ San(The(RenewIdentity(o, d).host)) = sans[1]
          /\ San(The(RenewIdentity(o, d).ip)) = sans[2]
      BY <2>2, <2>3, <2>5, <2>7, <3>1
    <3>3. sans = <<sans[1], sans[2]>>
      BY <3>2 DEF Names
    <3> QED
      BY <3>2, <3>3
  <2>8. /\ OrElse(o.flags.host, old.host) \in SUBSET Identities
        /\ OrElse(o.flags.ip, old.ip) \in SUBSET Identities
    BY <1>1, <2>5 DEF OrElse
  <2> QED
    BY <2>1, <2>3, <2>6, <2>7, <2>8
<1>3. CASE ~Exists(d, "server")
  <2>1. /\ RenewIdentity(o, d).host = OrElse(o.flags.host, None)
        /\ RenewIdentity(o, d).ip = OrElse(o.flags.ip, None)
    BY <1>3 DEF RenewIdentity
  <2> QED
    BY <1>1, <1>3, <2>1 DEF OrElse, None
<1> QED
  BY <1>2, <1>3

LEMMA RenewBegins ==
    ASSUME DeploymentInv, Idle, NEW d \in ServerDir, NEW host \in Identities,
           NEW ip \in Identities, ip.kind = "ip", NEW keep,
           keep # <<>> => keep = <<San(host), San(ip)>> /\ San(host) # San(ip),
           Begin("renew", d, TRUE, keep, renew_plan(d, host, ip)),
           UNCHANGED <<disk, haproxy, cln, now>>, "gcob" \in Account
    PROVE  DeploymentInv' /\ RenewKeepsIdentity'
<1>1. /\ job = NoJob /\ count < MaxCommands /\ haproxy \in BOOLEAN
      /\ cln \in 0..MaxCaChanges /\ now \in 0..MaxDay
  BY DEF Idle, DeploymentInv
<1>2. /\ Key("server") \in Keys /\ Key("api") \in Keys
      /\ Holds("ca", [ca |-> cln])
      /\ Holds("server_key", KeyPem(Key("server"), "0600"))
      /\ Holds("client_key", KeyPem(Key("api"), "0600"))
  BY <1>1, NewKeys DEF KeyFile
<1>3. PICK server : server = generate_server_cert(cln, Key("server"), host, ip, now)
  OBVIOUS
<1>4. PICK client : client = generate_client_cert(cln, Key("api"), host, now)
  OBVIOUS
<1>5. /\ Holds("server", server) /\ server.ca = cln /\ server.key = Key("server")
      /\ server.until = now + Validity
      /\ San(ip) # San(host) => server.sans = <<San(host), San(ip)>>
      /\ Holds("client", client) /\ client.ca = cln /\ client.key = Key("api")
      /\ client.until = now + Validity
  BY <1>1, <1>2, <1>3, <1>4, NewServerCert, NewClientCert
<1>6. PICK a : a = Put(d, "server", server)
  OBVIOUS
<1>7. PICK b : b = Put(d, "server_key", KeyPem(Key("server"), "0600"))
  OBVIOUS
<1>8. PICK c : c = Put(d, "client", client)
  OBVIOUS
<1>9. PICK k : k = Put(d, "client_key", KeyPem(Key("api"), "0600"))
  OBVIOUS
<1>10. PICK e : e = Put(d, "ca", [ca |-> cln])
  OBVIOUS
<1>11. PICK plan : plan = renew_plan(d, host, ip)
  OBVIOUS
<1>12. PICK p : /\ p = <<a, b, c, k>>
                /\ \/ plan = p /\ disk[d]["ca"] = [ca |-> cln]
                   \/ plan = Append(p, e)
  BY <1>3, <1>4, <1>6, <1>7, <1>8, <1>9, <1>10, <1>11 DEF renew_plan
<1>13. /\ plan \in Seq(ToSet(plan))
       /\ plan[1] = a /\ plan[2] = b /\ plan[3] = c /\ plan[4] = k
       /\ \/ Len(plan) = 4 /\ disk[d]["ca"] = [ca |-> cln]
          \/ Len(plan) = 5 /\ plan[5] = e
  <2>1. CASE plan = p /\ disk[d]["ca"] = [ca |-> cln]
    <3>1. /\ plan \in Seq(ToSet(plan)) /\ Len(plan) = 4
          /\ plan[1] = a /\ plan[2] = b /\ plan[3] = c /\ plan[4] = k
      BY <1>12, <2>1, FourFiles
    <3> QED
      BY <2>1, <3>1
  <2>2. CASE plan = Append(p, e)
    <3>1. /\ plan \in Seq(ToSet(plan)) /\ Len(plan) = 5
          /\ plan[1] = a /\ plan[2] = b /\ plan[3] = c /\ plan[4] = k /\ plan[5] = e
      BY <1>12, <2>2, FiveFiles
    <3> QED
      BY <3>1
  <2> QED
    BY <1>12, <2>1, <2>2
<1>14. /\ job' = [cmd |-> "renew", dir |-> d, aside |-> TRUE, keep |-> keep,
                  at |-> 1, plan |-> plan]
       /\ count' = count + 1
  BY <1>11 DEF Begin
<1>15. \A n \in 1..Len(plan) : n = 1 \/ n = 2 \/ n = 3 \/ n = 4 \/ (n = 5 /\ Len(plan) = 5)
  <2>1. CASE Len(plan) = 4
    BY <2>1
  <2>2. CASE Len(plan) = 5
    BY <2>2
  <2> QED
    BY <1>13, <2>1, <2>2
<1>16. ASSUME NEW n \in 1..Len(plan) PROVE Made(plan[n])'
  <2>1. d # "client"
    BY DEF ServerDir
  <2>2. Made(a)' /\ Made(c)' /\ Made(e)'
    BY <1>2, <1>5, <1>6, <1>8, <1>10, <1>14, <2>1, PutMade
  <2>3. Made(b)' /\ Made(k)'
    BY <1>2, <1>7, <1>9, <1>14, <2>1, PutMade, NewKeyPem
  <2> QED
    BY <1>13, <1>15, <2>2, <2>3
<1>17. job'.plan = plan /\ job'.cmd = "renew" /\ job'.dir = d /\ job'.keep = keep
  BY <1>14
<1>18. JobTyped'
  <2>1. \/ Lists(RenewFiles(d))' /\ disk'[d]["ca"] = [ca |-> cln]
        \/ Lists(RotateFiles(d))'
    <3>1. /\ Where(1)' = <<d, "server">> /\ Where(2)' = <<d, "server_key">>
          /\ Where(3)' = <<d, "client">> /\ Where(4)' = <<d, "client_key">>
          /\ Len(plan) = 5 => Where(5)' = <<d, "ca">>
      BY <1>6, <1>7, <1>8, <1>9, <1>10, <1>13, <1>17 DEF Where, Put
    <3>2. CASE Len(plan) = 4 /\ disk[d]["ca"] = [ca |-> cln]
      BY <1>17, <3>1, <3>2 DEF Lists, RenewFiles
    <3>3. CASE Len(plan) = 5
      <4>1. PICK files : files = RotateFiles(d)
        OBVIOUS
      <4>2. /\ Len(files) = 5
            /\ files[1] = <<d, "server">> /\ files[2] = <<d, "server_key">>
            /\ files[3] = <<d, "client">> /\ files[4] = <<d, "client_key">>
            /\ files[5] = <<d, "ca">>
        BY <4>1 DEF RotateFiles
      <4>3. \A n \in 1..5 : Where(n)' = files[n]
        BY <3>1, <3>3, <4>2
      <4> QED
        BY <1>17, <3>3, <4>1, <4>2, <4>3 DEF Lists
    <3> QED
      BY <1>13, <3>2, <3>3
  <2>2. job' \in [cmd : {"init", "renew", "client_init", "sign"}, dir : Dir,
                  aside : BOOLEAN, keep : {job'.keep}, at : 1..Len(job'.plan),
                  plan : Seq(ToSet(job'.plan))]
    <3>1. 1 \in 1..Len(plan)
      <4>1. CASE Len(plan) = 4
        BY <4>1
      <4>2. CASE Len(plan) = 5
        BY <4>2
      <4> QED
        BY <1>13, <4>1, <4>2
    <3>2. d \in Dir
      BY DEF ServerDir, Dir
    <3> QED
      BY <1>13, <1>14, <3>1, <3>2, BegunJob
  <2>3. cln' = cln
    OBVIOUS
  <2> QED
    BY <1>17, <2>1, <2>2, <2>3 DEF JobTyped
<1>19. DeploymentInv'
  BY <1>1, <1>11, <1>13, <1>16, <1>18, BeginKeeps
<1>20. RenewKeepsIdentity'
  <2> SUFFICES ASSUME keep # <<>>, NEW n \in 1..Len(plan), plan[n].file = "server"
               PROVE  plan[n].content.sans = keep
    BY <1>17 DEF RenewKeepsIdentity
  <2>1. n = 1
    BY <1>6, <1>7, <1>8, <1>9, <1>10, <1>13, <1>15 DEF Put
  <2>2. plan[1].content = server
    BY <1>6, <1>13 DEF Put
  <2> QED
    BY <1>5, <2>1, <2>2
<1> QED
  BY <1>19, <1>20

LEMMA HandleRenewKeeps ==
    ASSUME DeploymentInv, NEW o \in Option, handle_renew(o)
    PROVE  DeploymentInv' /\ RenewKeepsIdentity'
<1>1. PICK d \in default_cert_dir(o.who) : renew_certificates(o, d)
  BY DEF handle_renew
<1>2. PICK id : id = RenewIdentity(o, d)
  OBVIOUS
<1>3. PICK keep : keep = IF o.flags = [host |-> None, ip |-> None] /\ Exists(d, "server")
                         THEN disk[d]["server"].sans ELSE <<>>
  OBVIOUS
<1>4. /\ Idle /\ UNCHANGED <<disk, haproxy, cln, now>> /\ "gcob" \in Account
      /\ id.host # None /\ id.ip # None
      /\ validate_unicast_ip(The(id.ip), o.loopback)
      /\ Begin("renew", d, TRUE, keep, renew_plan(d, The(id.host), The(id.ip)))
  BY <1>1, <1>2, <1>3 DEF handle_renew, renew_certificates, account_by_name, None
<1>5. d \in ServerDir
  BY DEF default_cert_dir, ServerDir
<1>6. /\ id.host \in SUBSET Identities /\ id.ip \in SUBSET Identities
      /\ keep # <<>> => /\ keep = <<San(The(id.host)), San(The(id.ip))>>
                        /\ San(The(id.host)) # San(The(id.ip))
  BY <1>2, <1>3, <1>4, <1>5, RenewIdentityType
<1>7. The(id.host) \in Identities /\ The(id.ip) \in Identities /\ The(id.ip).kind = "ip"
  BY <1>4, <1>6, Chosen DEF validate_unicast_ip
<1> QED
  BY <1>4, <1>5, <1>6, <1>7, RenewBegins

LEMMA ClientInitKeeps ==
    ASSUME DeploymentInv, NEW o \in Option, client_init(o)
    PROVE  DeploymentInv' /\ (job' # NoJob => job'.cmd # "renew")
<1>1. PICK id : id = resolve_identity(o.flags, [host |-> None, ip |-> None], HostName, Addresses)
  OBVIOUS
<1>2. PICK names : names = <<San(The(id.host))>> \o
                             (IF id.ip = None THEN <<>> ELSE <<San(The(id.ip))>>)
  OBVIOUS
<1>3. PICK plan : plan = << Put("client", "csr", [key |-> Key("csr"), sans |-> names]),
                            Put("client", "client_key", KeyPem(Key("csr"), "0600")),
                            Put("client", "client_key", KeyPem(Key("csr"), "0400")) >>
  OBVIOUS
<1>4. /\ Idle /\ UNCHANGED <<disk, haproxy, cln, now>>
      /\ Begin("client_init", "client", FALSE, <<>>, plan)
  BY <1>1, <1>2, <1>3 DEF client_init, generate_csr
<1>5. names \in Names
  <2>1. /\ o.flags.host \in SUBSET Identities /\ o.flags.ip \in SUBSET Identities
        /\ HostName \in SUBSET Identities /\ Localhost \in Identities
    <3>1. Localhost \in Identities
      BY CertIssueAssumption DEF Localhost, Identity, Identities
    <3> QED
      BY <3>1, DeploymentAssumption DEF Options
  <2>2. id.host \in SUBSET Identities /\ id.host # None /\ id.ip \in SUBSET Identities
    <3>1. id.host = OrElse(o.flags.host, OrElse(None, OrElse(HostName, {Localhost})))
      BY <1>1 DEF resolve_identity
    <3>2. id.ip = OrElse(o.flags.ip, OrElse(None, detect_ip(Addresses)))
      BY <1>1 DEF resolve_identity
    <3>3. id.host \in SUBSET Identities /\ id.host # None
      BY <2>1, <3>1 DEF OrElse, None
    <3>4. id.ip \in SUBSET Identities
      BY <2>1, <3>2, DetectedType DEF OrElse
    <3> QED
      BY <3>3, <3>4
  <2>3. PICK N : N = [kind : {"dns", "ip"}, name : Spelling]
    OBVIOUS
  <2>4. \A v \in Identities : San(v) \in N
    BY <2>3 DEF San, Identities
  <2>5. PICK h : h = <<San(The(id.host))>>
    OBVIOUS
  <2>6. PICK t : t = IF id.ip = None THEN <<>> ELSE <<San(The(id.ip))>>
    OBVIOUS
  <2>7. The(id.host) \in Identities /\ (id.ip # None => The(id.ip) \in Identities)
    BY <2>2, Chosen
  <2>8. h \in Seq(N) /\ t \in Seq(N)
    <3>1. h \in Seq(N)
      BY <2>4, <2>5, <2>7
    <3>2. t \in Seq(N)
      BY <2>4, <2>6, <2>7
    <3> QED
      BY <3>1, <3>2
  <2>9. h \o t \in Seq(N)
    BY <2>8, ConcatProperties
  <2>10. names = h \o t
    BY <1>2, <2>5, <2>6
  <2> QED
    BY <2>3, <2>9, <2>10 DEF Names
<1>6. /\ job = NoJob /\ count < MaxCommands /\ haproxy \in BOOLEAN
  BY <1>4 DEF Idle, DeploymentInv
<1>7. /\ Key("csr") \in Keys
      /\ Holds("client_key", KeyPem(Key("csr"), "0600"))
      /\ Holds("client_key", KeyPem(Key("csr"), "0400"))
      /\ Holds("csr", [key |-> Key("csr"), sans |-> names])
  <2>1. /\ Key("csr") \in Keys
        /\ Holds("client_key", KeyPem(Key("csr"), "0600"))
        /\ Holds("client_key", KeyPem(Key("csr"), "0400"))
    BY <1>6, NewKeys DEF KeyFile
  <2>2. Holds("csr", [key |-> Key("csr"), sans |-> names])
    BY <1>5, <2>1 DEF Holds, KeyFile
  <2> QED
    BY <2>1, <2>2
<1>8. /\ plan \in Seq(ToSet(plan)) /\ Len(plan) = 3
      /\ plan[1] = Put("client", "csr", [key |-> Key("csr"), sans |-> names])
      /\ plan[2] = Put("client", "client_key", KeyPem(Key("csr"), "0600"))
      /\ plan[3] = Put("client", "client_key", KeyPem(Key("csr"), "0400"))
  BY <1>3, Tuples
<1>9. /\ job' = [cmd |-> "client_init", dir |-> "client", aside |-> FALSE, keep |-> <<>>,
                 at |-> 1, plan |-> plan]
      /\ count' = count + 1
  BY <1>4 DEF Begin
<1>10. /\ job'.plan = plan /\ job'.cmd = "client_init" /\ job'.dir = "client"
       /\ job'.aside = FALSE /\ job'.keep = <<>>
  BY <1>9
<1>11. ASSUME NEW n \in 1..Len(plan)
       PROVE  Made(plan[n])' /\ plan[n].dir = "client"
  <2>1. "client" \notin ServerDir
    BY DEF ServerDir
  <2>2. Made(plan[1])'
    BY <1>4, <1>7, <1>8, <1>9, <2>1, PutMade
  <2>3. Made(plan[2])' /\ Made(plan[3])'
    BY <1>4, <1>7, <1>8, <1>9, <2>1, PutMade, NewKeyPem
  <2>4. n = 1 \/ n = 2 \/ n = 3
    BY <1>8
  <2>5. plan[1].dir = "client" /\ plan[2].dir = "client" /\ plan[3].dir = "client"
    BY <1>8 DEF Put
  <2> QED
    BY <2>2, <2>3, <2>4, <2>5
<1>12. JobTyped'
  <2>1. Lists(ClientFiles)'
    BY <1>8, <1>10 DEF Lists, ClientFiles, Where, Put
  <2>2. job' \in [cmd : {"init", "renew", "client_init", "sign"}, dir : Dir,
                  aside : BOOLEAN, keep : {job'.keep}, at : 1..Len(job'.plan),
                  plan : Seq(ToSet(job'.plan))]
    <3>1. 1 \in 1..Len(plan) /\ "client" \in Dir
      BY <1>8 DEF Dir
    <3> QED
      BY <1>8, <1>9, <3>1, BegunJob
  <2>3. plan[3].content.mode = "0400"
    BY <1>7, <1>8, NewKeyPem DEF Put
  <2> QED
    BY <1>10, <2>1, <2>2, <2>3 DEF JobTyped
<1>13. DeploymentInv'
  BY <1>4, <1>6, <1>8, <1>11, <1>12, BeginKeeps
<1> QED
  BY <1>10, <1>13

LEMMA HandleSignKeeps ==
    ASSUME DeploymentInv, NEW o \in Option, handle_sign(o)
    PROVE  DeploymentInv' /\ (job' # NoJob => job'.cmd # "renew")
<1>1. /\ Idle /\ "gcob" \in Account /\ o.flags.host # None
      /\ sign_csr_file(o) /\ UNCHANGED <<disk, haproxy, cln, now>>
  BY DEF handle_sign, check_gcob_access, account_by_name, None
<1>2. The(o.flags.host) \in Identities
  <2>1. o.flags.host \in SUBSET Identities
    BY DeploymentAssumption DEF Options
  <2> QED
    BY <1>1, <2>1, Chosen
<1>3. disk["client"]["csr"].key \in Keys
  <2>1. Exists("client", "csr")
    BY <1>1 DEF sign_csr_file
  <2>2. Holds("csr", disk["client"]["csr"])
    BY <2>1 DEF DeploymentInv, FilesTyped, Dir, File
  <2> QED
    BY <2>2 DEF Holds
<1>4. PICK cert : cert = sign_csr(cln, disk["client"]["csr"], The(o.flags.host), now)
  OBVIOUS
<1>5. /\ job = NoJob /\ count < MaxCommands /\ haproxy \in BOOLEAN
      /\ cln \in 0..MaxCaChanges /\ now \in 0..MaxDay
  BY <1>1 DEF Idle, DeploymentInv
<1>6. Holds("client", cert) /\ cert.ca = cln /\ cert.until = now + Validity
  BY <1>2, <1>3, <1>4, <1>5, NewClientCert DEF sign_csr
<1>7. PICK plan : plan = <<Put("out", "client", cert)>>
  OBVIOUS
<1>8. plan \in Seq(ToSet(plan)) /\ Len(plan) = 1 /\ plan[1] = Put("out", "client", cert)
  BY <1>7, Tuples
<1>9. Begin("sign", "out", TRUE, <<>>, plan)
  BY <1>1, <1>4, <1>7 DEF sign_csr_file
<1>10. /\ job' = [cmd |-> "sign", dir |-> "out", aside |-> TRUE, keep |-> <<>>,
                  at |-> 1, plan |-> plan]
       /\ count' = count + 1
  BY <1>9 DEF Begin
<1>11. job'.plan = plan /\ job'.cmd = "sign" /\ job'.dir = "out" /\ job'.keep = <<>>
  BY <1>10
<1>12. ASSUME NEW n \in 1..Len(plan) PROVE Made(plan[n])' /\ plan[n].dir = "out"
  <2>1. n = 1
    BY <1>8
  <2>2. Made(plan[1])'
    BY <1>1, <1>6, <1>8, <1>10, PutMade DEF ServerDir
  <2> QED
    BY <1>8, <2>1, <2>2 DEF Put
<1>13. JobTyped'
  <2>1. Lists(<< <<"out", "client">> >>)'
    BY <1>8, <1>11 DEF Lists, Where, Put
  <2>2. job' \in [cmd : {"init", "renew", "client_init", "sign"}, dir : Dir,
                  aside : BOOLEAN, keep : {job'.keep}, at : 1..Len(job'.plan),
                  plan : Seq(ToSet(job'.plan))]
    <3>1. 1 \in 1..Len(plan) /\ "out" \in Dir
      BY <1>8 DEF Dir
    <3> QED
      BY <1>8, <1>10, <3>1, BegunJob
  <2> QED
    BY <1>1, <1>11, <2>1, <2>2 DEF JobTyped
<1>14. DeploymentInv'
  BY <1>1, <1>5, <1>8, <1>9, <1>12, <1>13, BeginKeeps
<1> QED
  BY <1>11, <1>14

(***************************************************************************)
(* What the operator does keeps up what files hold, and the names that a   *)
(* renewal under way repeats.                                              *)
(***************************************************************************)
LEMMA OperatorKeeps ==
    ASSUME DeploymentInv, RenewKeepsIdentity, Operator
    PROVE  DeploymentInv' /\ RenewKeepsIdentity'
<1>1. (job' # NoJob => job'.cmd # "renew") => RenewKeepsIdentity'
  BY DEF RenewKeepsIdentity
<1>2. UNCHANGED job => RenewKeepsIdentity'
  BY DEF RenewKeepsIdentity
<1>3. ASSUME NEW o \in Option, handle_init_server(o)
      PROVE  DeploymentInv' /\ RenewKeepsIdentity'
  BY <1>1, <1>3, HandleInitKeeps
<1>4. ASSUME NEW o \in Option, handle_renew(o)
      PROVE  DeploymentInv' /\ RenewKeepsIdentity'
  BY <1>4, HandleRenewKeeps
<1>5. ASSUME NEW o \in Option, client_init(o)
      PROVE  DeploymentInv' /\ RenewKeepsIdentity'
  BY <1>1, <1>5, ClientInitKeeps
<1>6. ASSUME NEW o \in Option, handle_sign(o)
      PROVE  DeploymentInv' /\ RenewKeepsIdentity'
  BY <1>1, <1>6, HandleSignKeeps
<1>7. CASE Deliver
  BY <1>2, <1>7, DeliverKeeps DEF Deliver
<1>8. CASE MoveAside
  BY <1>2, <1>8, MoveAsideKeeps DEF MoveAside
<1>9. CASE Place
  <2>1. CASE job' = NoJob
    BY <1>1, <1>9, <2>1, PlaceKeeps
  <2>2. CASE job' = [job EXCEPT !.at = @ + 1]
    <3>1. job # NoJob /\ JobTyped
      BY <1>9 DEF Place, DeploymentInv
    <3>2. /\ job'.cmd = job.cmd /\ job'.keep = job.keep /\ job'.plan = job.plan
      BY <2>2, <3>1 DEF JobTyped
    <3>3. RenewKeepsIdentity'
      BY <3>1, <3>2 DEF RenewKeepsIdentity
    <3> QED
      BY <1>9, <3>3, PlaceKeeps
  <2> QED
    BY <1>9, <2>1, <2>2 DEF Place
<1>10. CASE Die
  BY <1>1, <1>10, DieKeeps DEF Die
<1>11. CASE Tick \/ ChangeCa
  BY <1>2, <1>11, TimePasses DEF Tick, ChangeCa
<1> QED
  BY <1>3, <1>4, <1>5, <1>6, <1>7, <1>8, <1>9, <1>10, <1>11 DEF Operator

(***************************************************************************)
(* A step that is not the operator's leaves all of it as it is.            *)
(***************************************************************************)
LEMMA NothingWritten ==
    ASSUME DeploymentInv, RenewKeepsIdentity, UNCHANGED deployment
    PROVE  DeploymentInv' /\ RenewKeepsIdentity'
<1>1. UNCHANGED <<disk, conf, haproxy, cln, now, count, job, health>>
  BY DEF deployment
<1>2. FilesTyped'
  BY <1>1 DEF DeploymentInv, FilesTyped, Exists
<1>3. JobTyped'
  BY <1>1 DEF DeploymentInv, JobTyped, Lists, Where
<1>4. JobExact'
  BY <1>1 DEF DeploymentInv, JobExact, Made, InPlace, Where
<1>5. HealthExact'
  BY <1>1 DEF DeploymentInv, HealthExact, Healthy, Generation, Exists
<1>6. RenewKeepsIdentity'
  BY <1>1 DEF RenewKeepsIdentity
<1> QED
  BY <1>1, <1>2, <1>3, <1>4, <1>5, <1>6 DEF DeploymentInv

(***************************************************************************)
(* Nothing is there, and nothing runs.                                     *)
(***************************************************************************)
LEMMA FirstDay ==
    ASSUME StartInit
    PROVE  ServerInv /\ RenewKeepsIdentity
<1>1. /\ disk = [d \in Dir |-> [f \in File |-> Absent]]
      /\ haproxy = FALSE /\ cln = 0 /\ now = 0 /\ count = 0 /\ job = NoJob
      /\ health = [d \in Dir |-> "none"] /\ start = Down(0)
  BY DEF StartInit, Init
<1>2. \A d \in Dir, f \in File : ~Exists(d, f)
  BY <1>1 DEF Exists
<1>3. FilesTyped
  BY <1>1, <1>2 DEF FilesTyped, Dir, File, ServerDir
<1>4. HealthExact
  <2>1. \A d \in Dir : health[d] = "none"
    BY <1>1
  <2>2. health \in [Dir -> {"none", "busy", "good", "torn"}]
    BY <1>1
  <2>3. \A d \in {"out", "client"} : ~Exists(d, "client")
    BY <1>2 DEF Dir, File
  <2>4. \A d \in {"admin", "srv", "haproxy"} : d \in Dir
    BY DEF Dir
  <2>5. \A d \in Dir : health[d] # "busy" /\ health[d] # "good"
    BY <2>1
  <2>6. ~(\E d \in {"admin", "srv", "haproxy"} : health[d] # "none")
    BY <2>1, <2>4
  <2> QED
    BY <1>1, <2>2, <2>3, <2>5, <2>6, Zenon DEF HealthExact
<1>5. DeploymentInv
  <2>1. JobTyped /\ JobExact
    BY <1>1, Zenon DEF JobTyped, JobExact
  <2>2. /\ haproxy \in BOOLEAN /\ cln \in 0..MaxCaChanges
        /\ now \in 0..MaxDay /\ count \in 0..MaxCommands
    <3>1. 0 \in 0..MaxCaChanges /\ 0 \in 0..MaxDay /\ 0 \in 0..MaxCommands
      BY Bounds
    <3>2. haproxy = FALSE /\ cln = 0 /\ now = 0 /\ count = 0
      BY <1>1
    <3> QED
      BY <3>1, <3>2
  <2> QED
    BY <1>3, <1>4, <2>1, <2>2 DEF DeploymentInv
<1>6. TypeOK
  <2>1. <<>> \in Seq(ToSet(<<>>)) /\ Len(<<>>) = 0
    OBVIOUS
  <2> QED
    BY <1>1, <2>1, Bounds DEF TypeOK, Down, Phase
<1>7. ReadExact /\ UpIsCoherent /\ NoControlDisabled
  BY <1>1 DEF ReadExact, UpIsCoherent, NoControlDisabled, Starting, Down
<1>8. RenewKeepsIdentity
  BY <1>1 DEF RenewKeepsIdentity
<1> QED
  BY <1>5, <1>6, <1>7, <1>8 DEF ServerInv

(***************************************************************************)
(* The types of a start, and what they say of the files it has read.       *)
(***************************************************************************)
LEMMA StartTyped ==
    ASSUME TypeOK
    PROVE  /\ start = [phase |-> start.phase, dir |-> start.dir, mixed |-> start.mixed,
                       got |-> start.got, limits |-> start.limits, starts |-> start.starts]
           /\ start.phase \in Phase /\ start.mixed \in BOOLEAN
           /\ start.got \in Seq(ToSet(start.got)) /\ Len(start.got) \in Nat
           /\ start.starts \in 0..MaxStarts
  BY DEF TypeOK

(***************************************************************************)
(* A command changes nothing of a start but the note that it did.          *)
(***************************************************************************)
LEMMA CommandKeeps ==
    ASSUME ServerInv, RenewKeepsIdentity, Command
    PROVE  ServerInv' /\ RenewKeepsIdentity'
<1>1. DeploymentInv' /\ RenewKeepsIdentity'
  BY OperatorKeeps DEF ServerInv, Command
<1>2. PICK m \in BOOLEAN :
        /\ m <=> start.mixed \/ (Starting /\ disk'[start.dir] # disk[start.dir])
        /\ start' = [start EXCEPT !.mixed = m]
  <2>1. start.mixed \in BOOLEAN
    BY StartTyped DEF ServerInv
  <2> QED
    BY <2>1 DEF Command, Starting
<1>3. /\ start'.phase = start.phase /\ start'.dir = start.dir /\ start'.got = start.got
      /\ start'.limits = start.limits /\ start'.starts = start.starts /\ start'.mixed = m
  BY <1>2, StartTyped DEF ServerInv
<1>4. TypeOK'
  <2>1. start' \in [phase : Phase, dir : {"none"} \cup ServerDir, mixed : BOOLEAN,
                    got : Seq(ToSet(start'.got)), limits : {start'.limits},
                    starts : 0..MaxStarts]
    BY <1>2, <1>3 DEF ServerInv, TypeOK
  <2> QED
    BY <1>3, <2>1 DEF ServerInv, TypeOK
<1>5. ReadExact'
  <2> SUFFICES ASSUME Starting, ~m
               PROVE  ReadExact'
    BY <1>3 DEF ReadExact, Starting
  <2>1. ~start.mixed /\ disk'[start.dir] = disk[start.dir]
    BY <1>2
  <2> QED
    BY <1>3, <2>1 DEF ServerInv, ReadExact, Starting, Exists
<1>6. UpIsCoherent'
  BY <1>2, <1>3 DEF ServerInv, UpIsCoherent
<1>7. NoControlDisabled'
  BY <1>3 DEF ServerInv, NoControlDisabled
<1> QED
  BY <1>1, <1>4, <1>5, <1>6, <1>7 DEF ServerInv

(***************************************************************************)
(* A start that ends leaves no trace.                                      *)
(***************************************************************************)
LEMMA DownKeeps ==
    ASSUME ServerInv, start' = Down(start.starts)
    PROVE  TypeOK' /\ ReadExact' /\ UpIsCoherent' /\ NoControlDisabled'
<1>1. start.starts \in 0..MaxStarts
  BY StartTyped DEF ServerInv
<1>2. <<>> \in Seq(ToSet(<<>>)) /\ Len(<<>>) = 0
  OBVIOUS
<1>3. TypeOK'
  BY <1>1, <1>2 DEF TypeOK, Down, Phase
<1> QED
  BY <1>3 DEF ReadExact, UpIsCoherent, NoControlDisabled, Starting, Down

(***************************************************************************)
(* Limits that are accepted are positive.                                  *)
(***************************************************************************)
LEMMA LimitsPositive ==
    ASSUME NEW env, from_lookup(env) # None, NEW l \in Limit
    PROVE  The(from_lookup(env))[l] > 0
<1>1. parse(env[l], DefaultLimit[l]) # None
  BY DEF from_lookup
<1>2. PICK table : table = [k \in Limit |-> The(parse(env[k], DefaultLimit[k]))]
  OBVIOUS
<1>3. from_lookup(env) = {table}
  BY <1>2 DEF from_lookup
<1>4. The(from_lookup(env)) = table
  BY <1>3 DEF The
<1>5. table[l] \in parse(env[l], DefaultLimit[l])
  BY <1>1, <1>2, Chosen
<1>6. \A v \in parse(env[l], DefaultLimit[l]) : v > 0
  BY ServerStartAssumption DEF parse
<1> QED
  BY <1>4, <1>5, <1>6

LEMMA HandleServeKeeps ==
    ASSUME ServerInv, handle_serve
    PROVE  TypeOK' /\ ReadExact' /\ UpIsCoherent' /\ NoControlDisabled'
<1>1. PICK e \in ServeEnv :
         /\ from_lookup(e.limits) # None
         /\ \E d \in resolve_cert_dir(e) :
              start' = [phase |-> "reading", dir |-> d, got |-> <<>>, mixed |-> FALSE,
                        limits |-> from_lookup(e.limits), starts |-> start.starts + 1]
  BY DEF handle_serve
<1>2. PICK d \in ServerDir :
         start' = [phase |-> "reading", dir |-> d, got |-> <<>>, mixed |-> FALSE,
                   limits |-> from_lookup(e.limits), starts |-> start.starts + 1]
  <2>1. resolve_cert_dir(e) \subseteq ServerDir
    BY DEF ServeEnv, resolve_cert_dir, OrElse, default_cert_dir, ServerDir
  <2> QED
    BY <1>1, <2>1
<1>3. start.starts + 1 \in 0..MaxStarts
  <2>1. start.starts \in 0..MaxStarts /\ start.starts < MaxStarts /\ MaxStarts \in Nat
    BY StartTyped, Bounds DEF ServerInv, handle_serve
  <2> QED
    BY <2>1
<1>4. <<>> \in Seq(ToSet(<<>>)) /\ Len(<<>>) = 0
  OBVIOUS
<1>5. TypeOK'
  BY <1>2, <1>3, <1>4 DEF TypeOK, Phase
<1>6. ReadExact' /\ UpIsCoherent'
  BY <1>2, <1>4 DEF ReadExact, UpIsCoherent, Starting
<1>7. NoControlDisabled'
  BY <1>1, <1>2, LimitsPositive DEF NoControlDisabled
<1> QED
  BY <1>5, <1>6, <1>7

(***************************************************************************)
(* One more file read.                                                     *)
(***************************************************************************)
LEMMA OneMore ==
    ASSUME NEW got, got \in Seq(ToSet(got)), NEW x
    PROVE  LET t == Append(got, x) IN
           /\ t \in Seq(ToSet(t)) /\ Len(t) = Len(got) + 1 /\ t[Len(got) + 1] = x
           /\ \A i \in 1..Len(got) : t[i] = got[i]
<1>1. PICK X : X = ToSet(got) \cup {x}
  OBVIOUS
<1>2. got \in Seq(X) /\ x \in X
  BY <1>1
<1>3. PICK t : t = Append(got, x)
  OBVIOUS
<1>4. t \in Seq(X) /\ Len(t) = Len(got) + 1 /\ t[Len(got) + 1] = x
  BY <1>2, <1>3, AppendProperties
<1>5. \A i \in 1..Len(got) : t[i] = got[i]
  BY <1>2, <1>3
<1>6. t \in Seq(ToSet(t))
  BY <1>4 DEF ToSet
<1> QED
  BY <1>3, <1>4, <1>5, <1>6

(***************************************************************************)
(* The next file is what is there, and nothing changes while it is read.   *)
(***************************************************************************)
LEMMA ReadKeeps ==
    ASSUME ServerInv, NEW n \in 0..5, read_secure_file(n, Order[n + 1])
    PROVE  TypeOK' /\ ReadExact' /\ UpIsCoherent' /\ NoControlDisabled'
<1> DEFINE file == Order[n + 1]
<1>1. start.phase = "reading" /\ Len(start.got) = n /\ UNCHANGED disk
  BY DEF read_secure_file, deployment
<1>2. CASE ~Exists(start.dir, file)
  BY <1>2, DownKeeps DEF read_secure_file
<1>3. CASE Exists(start.dir, file)
  <2>1. PICK x : x = disk[start.dir][file]
    OBVIOUS
  <2>2. PICK t : t = Append(start.got, x)
    OBVIOUS
  <2>3. PICK phase : phase = IF n = 2 THEN "getinfo" ELSE IF n = 5 THEN "tls" ELSE "reading"
    OBVIOUS
  <2>4. start' = [start EXCEPT !.got = t, !.phase = phase]
    BY <1>1, <1>3, <2>1, <2>2, <2>3 DEF read_secure_file
  <2>5. /\ start'.phase = phase /\ start'.dir = start.dir /\ start'.got = t
        /\ start'.limits = start.limits /\ start'.starts = start.starts
        /\ start'.mixed = start.mixed
    BY <2>4, StartTyped DEF ServerInv
  <2>6. /\ t \in Seq(ToSet(t)) /\ Len(t) = n + 1 /\ t[n + 1] = x
        /\ \A i \in 1..n : t[i] = start.got[i]
    <3>1. start.got \in Seq(ToSet(start.got))
      BY StartTyped DEF ServerInv
    <3> QED
      BY <1>1, <2>2, <3>1, OneMore
  <2>7. TypeOK'
    <3>1. start' \in [phase : Phase, dir : {"none"} \cup ServerDir, mixed : BOOLEAN,
                      got : Seq(ToSet(start'.got)), limits : {start'.limits},
                      starts : 0..MaxStarts]
      BY <2>3, <2>4, <2>5, <2>6 DEF ServerInv, TypeOK, Phase
    <3>2. start.dir \in ServerDir
      BY <1>1 DEF ServerInv, TypeOK
    <3>3. Len(t) \in CASE phase = "down" -> {0}
                       [] phase = "reading" -> 0..5
                       [] phase = "getinfo" -> {3}
                       [] OTHER -> {6}
      BY <2>3, <2>6
    <3> QED
      BY <2>5, <3>1, <3>2, <3>3 DEF TypeOK
  <2>8. ReadExact'
    <3> SUFFICES ASSUME ~start.mixed
                 PROVE  ReadExact'
      BY <2>5 DEF ReadExact
    <3>1. /\ \A i \in 1..n : /\ Exists(start.dir, Order[i])
                             /\ start.got[i] = disk[start.dir][Order[i]]
          /\ n >= 3 => /\ start.got[2].ca = start.got[1].ca
                       /\ Exists(start.dir, "server") =>
                             disk[start.dir]["server"].ca = start.got[1].ca
      BY <1>1 DEF ServerInv, ReadExact, Starting
    <3>2. ASSUME NEW i \in 1..n + 1
          PROVE  Exists(start.dir, Order[i]) /\ t[i] = disk[start.dir][Order[i]]
      <4>1. CASE i \in 1..n
        BY <2>6, <3>1, <4>1
      <4>2. CASE i = n + 1
        BY <1>3, <2>1, <2>6, <4>2
      <4> QED
        BY <4>1, <4>2
    <3>3. ASSUME n + 1 >= 3, phase # "getinfo"
          PROVE  /\ t[2].ca = t[1].ca
                 /\ Exists(start.dir, "server") => disk[start.dir]["server"].ca = t[1].ca
      <4>1. n >= 3
        BY <2>3, <3>3
      <4>2. t[1] = start.got[1] /\ t[2] = start.got[2]
        BY <2>6, <4>1
      <4> QED
        BY <3>1, <4>1, <4>2
    <3> QED
      BY <1>1, <2>5, <2>6, <3>2, <3>3 DEF ReadExact, Exists
  <2>9. UpIsCoherent' /\ NoControlDisabled'
    BY <1>1, <2>3, <2>5 DEF ServerInv, UpIsCoherent, NoControlDisabled
  <2> QED
    BY <2>7, <2>8, <2>9
<1> QED
  BY <1>2, <1>3

(***************************************************************************)
(* When CLN has answered, the CA and the client certificate that were read *)
(* are of its present CA; so the server certificate, which is not older,   *)
(* is as well.                                                             *)
(***************************************************************************)
LEMMA ConnectKeeps ==
    ASSUME ServerInv, connect
    PROVE  TypeOK' /\ ReadExact' /\ UpIsCoherent' /\ NoControlDisabled'
<1>1. start.phase = "getinfo" /\ UNCHANGED disk
  BY DEF connect, deployment
<1>2. CASE start' = Down(start.starts)
  BY <1>2, DownKeeps
<1>3. CASE /\ Handshake(start.got[1], start.got[2], start.got[3])
           /\ start' = [start EXCEPT !.phase = "reading"]
  <2>1. /\ start'.phase = "reading" /\ start'.dir = start.dir /\ start'.got = start.got
        /\ start'.limits = start.limits /\ start'.starts = start.starts
        /\ start'.mixed = start.mixed
    BY <1>3, StartTyped DEF ServerInv
  <2>2. Len(start.got) = 3 /\ start.dir \in ServerDir
    BY <1>1 DEF ServerInv, TypeOK
  <2>3. TypeOK'
    <3>1. start' \in [phase : Phase, dir : {"none"} \cup ServerDir, mixed : BOOLEAN,
                      got : Seq(ToSet(start'.got)), limits : {start'.limits},
                      starts : 0..MaxStarts]
      BY <1>3, <2>1 DEF ServerInv, TypeOK, Phase
    <3> QED
      BY <2>1, <2>2, <3>1 DEF TypeOK
  <2>4. ReadExact'
    <3> SUFFICES ASSUME ~start.mixed
                 PROVE  ReadExact'
      BY <2>1 DEF ReadExact
    <3>1. \A i \in 1..3 : /\ Exists(start.dir, Order[i])
                          /\ start.got[i] = disk[start.dir][Order[i]]
      BY <1>1, <2>2 DEF ServerInv, ReadExact, Starting
    <3>2. start.got[1].ca = cln /\ start.got[2].ca = cln
      BY <1>3 DEF Handshake, verify_signed_by
    <3>3. Exists(start.dir, "client") /\ disk[start.dir]["client"].ca = cln
      BY <3>1, <3>2 DEF Order
    <3>4. Exists(start.dir, "server") => disk[start.dir]["server"].ca = cln
      <4> SUFFICES ASSUME Exists(start.dir, "server")
                   PROVE  disk[start.dir]["server"].ca = cln
        OBVIOUS
      <4>1. FilesTyped /\ cln \in Nat /\ start.dir \in Dir
        BY <2>2 DEF ServerInv, DeploymentInv, ServerDir, Dir
      <4>2. Holds("server", disk[start.dir]["server"])
        BY <4>1 DEF FilesTyped, File
      <4>3. disk[start.dir]["server"].ca \in 0..MaxCaChanges
        BY <4>2 DEF Holds, Leaves, KeyFile
      <4>4. /\ disk[start.dir]["client"].ca <= disk[start.dir]["server"].ca
            /\ disk[start.dir]["server"].ca <= cln
        BY <2>2, <3>3, <4>1 DEF FilesTyped
      <4> QED
        BY <3>3, <4>1, <4>3, <4>4
    <3> QED
      BY <1>1, <2>1, <2>2, <3>1, <3>2, <3>4 DEF ReadExact, Exists
  <2>5. UpIsCoherent' /\ NoControlDisabled'
    BY <1>1, <2>1 DEF ServerInv, UpIsCoherent, NoControlDisabled
  <2> QED
    BY <2>3, <2>4, <2>5
<1> QED
  BY <1>2, <1>3 DEF connect

(***************************************************************************)
(* All that a server needs to listen was read of one generation.           *)
(***************************************************************************)
LEMMA RunKeeps ==
    ASSUME ServerInv, run
    PROVE  TypeOK' /\ ReadExact' /\ UpIsCoherent' /\ NoControlDisabled'
<1>1. start.phase = "tls"
  BY DEF run
<1>2. CASE start' = Down(start.starts)
  BY <1>2, DownKeeps
<1>3. CASE /\ start.got[4].key = start.got[5].key
           /\ start' = [start EXCEPT !.phase = "up"]
  <2>1. /\ start'.phase = "up" /\ start'.dir = start.dir /\ start'.got = start.got
        /\ start'.limits = start.limits /\ start'.starts = start.starts
        /\ start'.mixed = start.mixed
    BY <1>3, StartTyped DEF ServerInv
  <2>2. Len(start.got) = 6 /\ start.dir \in ServerDir
    BY <1>1 DEF ServerInv, TypeOK
  <2>3. TypeOK'
    <3>1. start' \in [phase : Phase, dir : {"none"} \cup ServerDir, mixed : BOOLEAN,
                      got : Seq(ToSet(start'.got)), limits : {start'.limits},
                      starts : 0..MaxStarts]
      BY <1>3, <2>1 DEF ServerInv, TypeOK, Phase
    <3> QED
      BY <2>1, <2>2, <3>1 DEF TypeOK
  <2>4. UpIsCoherent'
    <3> SUFFICES ASSUME ~start.mixed
                 PROVE  UpIsCoherent'
      BY <2>1 DEF UpIsCoherent
    <3>1. /\ \A i \in 1..6 : /\ Exists(start.dir, Order[i])
                             /\ start.got[i] = disk[start.dir][Order[i]]
          /\ start.got[2].ca = start.got[1].ca
          /\ Exists(start.dir, "server") =>
                disk[start.dir]["server"].ca = start.got[1].ca
      BY <1>1, <2>2 DEF ServerInv, ReadExact, Starting
    <3>2. start.got[1] = start.got[6] /\ start.got[4].ca = start.got[1].ca
      BY <3>1 DEF Order
    <3> QED
      BY <1>3, <2>1, <3>1, <3>2 DEF UpIsCoherent
  <2>5. ReadExact' /\ NoControlDisabled'
    BY <1>1, <2>1 DEF ServerInv, ReadExact, Starting, NoControlDisabled
  <2> QED
    BY <2>3, <2>4, <2>5
<1> QED
  BY <1>2, <1>3 DEF run

LEMMA StepKeeps ==
    ASSUME ServerInv, RenewKeepsIdentity, [Next]_vars
    PROVE  ServerInv' /\ RenewKeepsIdentity'
<1>1. CASE Command
  BY <1>1, CommandKeeps
<1>2. CASE Serve
  <2>1. UNCHANGED deployment
    BY <1>2 DEF Serve, handle_serve, read_secure_file, connect, run, Stop
  <2>2. TypeOK' /\ ReadExact' /\ UpIsCoherent' /\ NoControlDisabled'
    <3>1. CASE handle_serve
      BY <3>1, HandleServeKeeps
    <3>2. ASSUME NEW i \in 1..Len(Order), read_secure_file(i - 1, Order[i])
          PROVE  TypeOK' /\ ReadExact' /\ UpIsCoherent' /\ NoControlDisabled'
      <4>1. Len(Order) = 6
        BY DEF Order
      <4>2. i - 1 \in 0..5 /\ (i - 1) + 1 = i
        BY <4>1
      <4> QED
        BY <3>2, <4>2, ReadKeeps
    <3>3. CASE connect
      BY <3>3, ConnectKeeps
    <3>4. CASE run
      BY <3>4, RunKeeps
    <3>5. CASE Stop
      BY <3>5, DownKeeps DEF Stop
    <3> QED
      BY <1>2, <3>1, <3>2, <3>3, <3>4, <3>5 DEF Serve
  <2> QED
    BY <2>1, <2>2, NothingWritten DEF ServerInv
<1>3. CASE UNCHANGED vars
  <2>1. UNCHANGED deployment /\ start' = start /\ UNCHANGED disk
    BY <1>3 DEF vars, deployment
  <2>2. TypeOK' /\ ReadExact' /\ UpIsCoherent' /\ NoControlDisabled'
    BY <2>1 DEF ServerInv, TypeOK, ReadExact, UpIsCoherent, NoControlDisabled,
                Starting, Exists
  <2> QED
    BY <2>1, <2>2, NothingWritten DEF ServerInv
<1> QED
  BY <1>1, <1>2, <1>3 DEF Next

(***************************************************************************)
(* Whatever commands were run, and died, while whatever servers started:   *)
(* every file holds what its name says, a command under way has written    *)
(* what it planned, one that succeeded leaves one generation, and a server *)
(* that listens has certificates of one generation and every control in    *)
(* force.  And a renewal without flags repeats the names of the installed  *)
(* server certificate.                                                     *)
(***************************************************************************)
THEOREM Invariance == Spec => [](ServerInv /\ RenewKeepsIdentity)
<1>1. StartInit => ServerInv /\ RenewKeepsIdentity
  BY FirstDay
<1>2. (ServerInv /\ RenewKeepsIdentity) /\ [Next]_vars => (ServerInv /\ RenewKeepsIdentity)'
  BY StepKeeps
<1> QED
  BY <1>1, <1>2, PTL DEF Spec

(***************************************************************************)
(* A renewal without flags keeps the identity of the certificate that is   *)
(* installed, whatever the host says of itself.                            *)
(***************************************************************************)
THEOREM IdentityIsKept == Spec => []RenewKeepsIdentity
  BY Invariance, PTL

(***************************************************************************)
(* A server that listens has one generation of certificates, if no command *)
(* was writing them while it started; and every control is in force.       *)
(***************************************************************************)
THEOREM OneGenerationServed == Spec => [](UpIsCoherent /\ NoControlDisabled)
<1>1. ServerInv => UpIsCoherent /\ NoControlDisabled
  BY DEF ServerInv
<1> QED
  BY <1>1, Invariance, PTL

-----------------------------------------------------------------------------
(* What a healthy directory is good for.                                   *)

\* A certificate of the CA beside it is chained to it until it expires.
LEMMA ChainedByCa ==
    ASSUME NEW dir, NEW f, NEW n, dir["ca"] # Absent, dir[f] # Absent,
           dir[f].ca = dir["ca"].ca, ~(n > dir[f].until)
    PROVE  Chained(dir, f, n)
<1>1. (dir[f].ca = dir["ca"].ca) = TRUE /\ (n > dir[f].until) = FALSE
  OBVIOUS
<1>2. verify_signed_by(dir[f], dir["ca"].ca, n) = [signed |-> TRUE, expired |-> FALSE]
  BY <1>1, Zenon DEF verify_signed_by
<1> QED
  BY <1>2 DEF Chained

LEMMA VerifySucceeds ==
    ASSUME DeploymentInv, health["haproxy"] = "good", disk["haproxy"]["client"].until >= now,
           NEW d
    PROVE  Verify("server", d) = <<TRUE, TRUE, TRUE>>
<1>1. /\ now \in Int /\ haproxy /\ Generation("haproxy", {"ca", "server", "client"})
      /\ "gcob" \in Account /\ FilesTyped
  BY DEF DeploymentInv, HealthExact, Healthy, Dir
<1>2. /\ Exists("haproxy", "ca") /\ Exists("haproxy", "server") /\ Exists("haproxy", "client")
      /\ disk["haproxy"]["server"].ca = disk["haproxy"]["ca"].ca
      /\ disk["haproxy"]["client"].ca = disk["haproxy"]["ca"].ca
      /\ disk["haproxy"]["client"].until = disk["haproxy"]["server"].until
  BY <1>1 DEF Generation
<1>3. disk["haproxy"]["client"].until \in Int
  <2>1. Holds("client", disk["haproxy"]["client"])
    BY <1>1, <1>2 DEF FilesTyped, Dir, File
  <2> QED
    BY <2>1, Bounds DEF Holds, Leaves
<1>4. ~(now > disk["haproxy"]["client"].until)
  BY <1>1, <1>3
<1>5. /\ Chained(disk["haproxy"], "server", now)
      /\ Chained(disk["haproxy"], "client", now)
  BY <1>2, <1>4, ChainedByCa DEF Exists
<1>6. verify_haproxy_section(disk["haproxy"], now) = <<TRUE, TRUE, TRUE>>
  <2>1. (disk["haproxy"]["ca"] # Absent) = TRUE
    BY <1>2 DEF Exists
  <2>2. /\ Chained(disk["haproxy"], "server", now) = TRUE
        /\ Chained(disk["haproxy"], "client", now) = TRUE
    BY <1>5 DEF Chained
  <2> QED
    BY <2>1, <2>2, Zenon DEF verify_haproxy_section
<1>7. verify_cln_section(None) = <<>>
  BY DEF verify_cln_section
<1>8. <<TRUE, TRUE, TRUE>> \o <<>> = <<TRUE, TRUE, TRUE>>
  OBVIOUS
<1>9. check_gcob_access(Viewer)
  BY <1>1 DEF check_gcob_access, Viewer, account_by_name, None
<1> QED
  BY <1>1, <1>6, <1>7, <1>8, <1>9 DEF Verify, handle_verify

(***************************************************************************)
(* What init or renew leaves when it succeeds is what serve and verify     *)
(* want: as long as CLN keeps the CA and nothing has expired, the server   *)
(* can start there, and verify passes every certificate.                   *)
(***************************************************************************)
THEOREM SuccessIsServed == Spec => []SuccessServes
<1>1. DeploymentInv => SuccessServes
  <2> SUFFICES ASSUME DeploymentInv, NEW d \in {"admin", "srv"}, health[d] = "good",
                      disk[d]["server"].ca = cln, now <= disk[d]["client"].until
               PROVE  /\ PeerWorks => Startable(d)
                      /\ Chained(disk[d], "client", now)
                      /\ Chained(disk[d], "server", now)
                      /\ health["haproxy"] = "good" /\ disk["haproxy"]["client"].until >= now =>
                           Verify("server", d) = <<TRUE, TRUE, TRUE>>
    BY DEF SuccessServes
  <2>1. /\ d \in Dir /\ d \in ServerDir /\ FilesTyped /\ now \in Int
        /\ Generation(d, File \ {"csr"})
        /\ disk[d]["server_key"].key = disk[d]["server"].key
        /\ disk[d]["client_key"].key = disk[d]["client"].key
    BY DEF DeploymentInv, HealthExact, Healthy, Dir, ServerDir
  <2>2. /\ \A f \in File \ {"csr"} : Exists(d, f) /\ Holds(f, disk[d][f])
        /\ disk[d]["server"].ca = disk[d]["ca"].ca
        /\ disk[d]["client"].ca = disk[d]["ca"].ca
        /\ disk[d]["client"].until = disk[d]["server"].until
    BY <2>1 DEF Generation, FilesTyped
  <2>3. /\ disk[d]["client"].eku = "client" /\ disk[d]["client"].until \in Int
        /\ \A f \in KeyFile : disk[d][f].mode \in {"0400", "0600"}
    <3>1. Holds("client", disk[d]["client"]) /\ \A f \in KeyFile : Holds(f, disk[d][f])
      BY <2>2 DEF File, KeyFile
    <3> QED
      BY <3>1, Bounds DEF Holds, Leaves, Pem
  <2>4. ~(now > disk[d]["client"].until)
    BY <2>1, <2>3
  <2>5. Exists(d, "ca") /\ Exists(d, "server") /\ Exists(d, "client")
    BY <2>2 DEF File
  <2>6. Chained(disk[d], "client", now) /\ Chained(disk[d], "server", now)
    BY <2>2, <2>4, <2>5, ChainedByCa DEF Exists
  <2>7. ASSUME PeerWorks PROVE Startable(d)
    <3>1. validate_all(d)
      <4>1. \A f \in File \ {"csr"} : validate_cert(d, f)
        BY <2>2, <2>3 DEF validate_cert
      <4>2. \A i \in 1..Len(Order) : Order[i] \in File \ {"csr"}
        BY DEF Order, File
      <4> QED
        BY <4>1, <4>2 DEF validate_all
    <3>2. verify_signed_by(disk[d]["client"], cln, now) = [signed |-> TRUE, expired |-> FALSE]
      BY <2>2, <2>6 DEF Chained
    <3>3. Handshake(disk[d]["ca"], disk[d]["client"], disk[d]["client_key"])
      BY <2>1, <2>2, <2>3, <2>7, <3>2 DEF Handshake
    <3> QED
      BY <2>1, <3>1, <3>3 DEF Startable
  <2> QED
    BY <2>6, <2>7, VerifySucceeds
<1> QED
  BY <1>1, Invariance, PTL DEF ServerInv

(***************************************************************************)
(* A client certificate that answers the present request of a client host  *)
(* works there.                                                            *)
(***************************************************************************)
THEOREM AnswerWorks == Spec => []AnsweredRequestWorks
<1>1. DeploymentInv => AnsweredRequestWorks
  <2> DEFINE home == disk["client"]
  <2> SUFFICES ASSUME DeploymentInv, health["client"] = "good", Exists("client", "client"),
                      home["client"].key = home["csr"].key
               PROVE  /\ home["client_key"].key = home["client"].key
                      /\ home["client"].eku = "client"
                      /\ home["ca"].ca = home["client"].ca /\ now <= home["client"].until =>
                           Verify("client", "client") = <<TRUE, TRUE, TRUE>>
    BY DEF AnsweredRequestWorks
  <2>1. /\ FilesTyped /\ now \in Int /\ "gcob" \in Account
        /\ Exists("client", "client_key")
        /\ home["client_key"].key = home["csr"].key
        /\ home["client_key"].mode = "0400"
    BY DEF DeploymentInv, HealthExact, Healthy, Dir
  <2>2. Exists("client", "ca") /\ Holds("client", home["client"])
    BY <2>1 DEF FilesTyped, Dir, File
  <2>3. home["client"].eku = "client" /\ home["client"].until \in Int
    BY <2>2, Bounds DEF Holds, Leaves
  <2>4. ASSUME home["ca"].ca = home["client"].ca, now <= home["client"].until
        PROVE  Verify("client", "client") = <<TRUE, TRUE, TRUE>>
    <3>1. ~(now > home["client"].until)
      BY <2>1, <2>3, <2>4
    <3>2. Chained(home, "client", now)
      BY <2>2, <2>4, <3>1, ChainedByCa DEF Exists
    <3>3. /\ (home["ca"] # Absent) = TRUE /\ Chained(home, "client", now) = TRUE
          /\ (home["client_key"] # Absent /\ home["client_key"].mode = "0400") = TRUE
      BY <2>1, <2>2, <3>2 DEF Exists, Chained
    <3>4. verify_client_section(home, now) = <<TRUE, TRUE, TRUE>>
      BY <3>3, Zenon DEF verify_client_section
    <3>5. check_gcob_access(Viewer)
      BY <2>1 DEF check_gcob_access, Viewer, account_by_name, None
    <3> QED
      BY <3>4, <3>5 DEF Verify, handle_verify
  <2> QED
    BY <2>1, <2>3, <2>4
<1> QED
  BY <1>1, Invariance, PTL DEF ServerInv

(***************************************************************************)
(* Where the last command succeeded, renew spares nothing that is due: if  *)
(* server.pem has more than RenewDays left, both certificates are chained  *)
(* to the CA beside them until then, and list and show call them valid.    *)
(***************************************************************************)
THEOREM NothingDueSpared == Spec => []NothingDueIsSpared
<1>1. DeploymentInv => NothingDueIsSpared
  <2> SUFFICES ASSUME DeploymentInv, NEW d \in ServerDir, health[d] = "good", StillValid(d)
               PROVE  /\ \A f \in {"server", "client"} :
                            /\ Chained(disk[d], f, now + RenewDays + 1)
                            /\ handle_show(Viewer, f, disk[d], now) = {TRUE}
                      /\ \E marks \in handle_list(Viewer, FALSE, haproxy, disk[d],
                                                  disk["haproxy"], now) :
                            marks["client"] = "valid"
    BY DEF NothingDueIsSpared
  <2>1. /\ FilesTyped /\ now \in Int /\ Generation(d, File \ {"csr"})
        /\ check_gcob_access(Viewer)
    <3>1. /\ FilesTyped /\ now \in Int /\ Generation(d, File \ {"csr"})
          /\ "gcob" \in Account
      BY DEF DeploymentInv, HealthExact, Healthy, Dir, ServerDir
    <3> QED
      BY <3>1 DEF check_gcob_access, Viewer, account_by_name, None
  <2>2. disk[d]["server"].until \in Int
    <3>1. Exists(d, "server")
      BY <2>1 DEF Generation, File
    <3>2. Holds("server", disk[d]["server"])
      BY <2>1, <3>1 DEF FilesTyped, Dir, ServerDir, File
    <3> QED
      BY <3>2, Bounds DEF Holds, Leaves
  <2>3. disk[d]["server"].until - now > RenewDays
    BY <2>1, <2>2, Bounds DEF StillValid, days_until_expiry
  <2>4. ASSUME NEW f \in {"server", "client"}
        PROVE  /\ Exists(d, "ca") /\ Exists(d, f)
               /\ disk[d][f].ca = disk[d]["ca"].ca
               /\ disk[d][f].until = disk[d]["server"].until
               /\ ~(now + RenewDays + 1 > disk[d][f].until)
               /\ parse_cert(f, disk[d][f], now).days_remaining > 0
    <3>1. /\ Exists(d, "ca") /\ Exists(d, f)
          /\ disk[d][f].ca = disk[d]["ca"].ca
          /\ disk[d][f].until = disk[d]["server"].until
      BY <2>1 DEF Generation, File
    <3>2. ~(now + RenewDays + 1 > disk[d][f].until) /\ disk[d][f].until - now > 0
      BY <2>1, <2>2, <2>3, <3>1, Bounds
    <3>3. days_until_expiry(disk[d][f], now) > 0
      BY <2>1, <2>2, <3>1, <3>2 DEF days_until_expiry
    <3> QED
      BY <3>1, <3>2, <3>3 DEF parse_cert
  <2>5. ASSUME NEW f \in {"server", "client"}
        PROVE  /\ Chained(disk[d], f, now + RenewDays + 1)
               /\ handle_show(Viewer, f, disk[d], now) = {TRUE}
    <3>1. Chained(disk[d], f, now + RenewDays + 1)
      BY <2>4, ChainedByCa DEF Exists
    <3>2. (parse_cert(f, disk[d][f], now).days_remaining > 0) = TRUE /\ disk[d][f] # Absent
      BY <2>4 DEF Exists
    <3>3. handle_show(Viewer, f, disk[d], now) = {TRUE}
      BY <2>1, <3>2, Zenon DEF handle_show
    <3> QED
      BY <3>1, <3>3
  <2>6. \E marks \in handle_list(Viewer, FALSE, haproxy, disk[d], disk["haproxy"], now) :
           marks["client"] = "valid"
    <3> DEFINE marks == print_cert_status(disk[d], {"ca", "client", "client_key"}, now)
    <3>1. marks["client"] = "valid"
      BY <2>4 DEF print_cert_status, KeyFile, Exists
    <3>2. marks \in handle_list(Viewer, FALSE, haproxy, disk[d], disk["haproxy"], now)
      BY <2>1 DEF handle_list
    <3> QED
      BY <3>1, <3>2
  <2> QED
    BY <2>5, <2>6
<1> QED
  BY <1>1, Invariance, PTL DEF ServerInv
=============================================================================
