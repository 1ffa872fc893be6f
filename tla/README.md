# gcob: a TLA+ model, its checks and its proofs

gcob is a gRPC server, in Rust, in front of a Core Lightning (CLN) node. It
authenticates clients by certificate and rune, limits what each may ask for,
passes invoices and payments on to CLN, and streams the node's events to its
clients. It also has the commands that create, renew and sign the certificates
involved. This directory models the server, from its certificates and its start
to the streams it serves and its end, and the commands of an operator, checks
the models with TLC, and proves every safety property that a passing run checks
with TLAPS, for instances of any size.

Paths below are relative to the crate, `src/src/`. The numbered availability
invariants are those of `src/security/availability-invariants.md`.

## 1. Inventory

### Components, their state and operations

| Component | Code | State | Operations |
|---|---|---|---|
| Stream budget | `grpc/stream_limits.rs` | a global semaphore; a mutex-guarded map from fingerprint to a shared semaphore | `acquire`, drop of a `StreamPermit`, `cleanup_idle` (every 300 s) |
| Event router | `events/router.rs` | subscribers by type behind a read-write lock; a counter beside the map; a streak of lost events and a bounded channel per subscriber | `subscribe`, `unsubscribe`, `dispatch` |
| Streaming handlers | `grpc/node_service.rs`, `domain/**` | per request: permit, subscriber id, two channels of 64, a spawned task | seven streaming methods: reserve, call CLN, subscribe, forward, unsubscribe, release |
| Event bridge | `events/subscribers/*` | a queue of 256 events; five tasks that read CLN's notification streams; a dispatcher | open the streams, read, enqueue, dispatch in order of arrival, end, abort |
| Request pipeline | `grpc/interceptors/{identity,admission_layer,auth_layer,auth,rate_limit_layer}.rs` | per request: identity, body read so far | identify, admit, examine header and path, read body, `check_rune`, check quota, serve |
| Rate limiter | `grpc/interceptors/rate_limiter.rs` | a counter with expiry in Redis and a token bucket in memory, per key | `check_rate_limit_with_fallback`, `cleanup` |
| Certificate publication | `cli/atomic.rs`, `cli/provision.rs`, `cli/certs.rs` | the published files, their backups, a lock file per directory | `publish_files`, `rollback`, as `init`, `certs renew` and `sign` use them |
| Certificate commands | `cli/{provision,certs,sign,client_init}.rs` | the certificates and keys of five directories | `init`, `certs renew`, `sign`, `gcob-client init`; `certs list`, `show`, `verify` |
| Certificate generation and inspection | `certs/{detect,generate,inspect}.rs` | none | choose and validate an identity, issue, check chain, names, key and expiry |
| Secure directories and files | `certs/paths.rs`, `certs/mtls_certs.rs` | owner, mode, ACL and kind of the components of a path | `ensure_secure_dir`, `read_secure_file`, `validate_cln_source`, `validate_cert_dir` |
| Start-up and shutdown | `main.rs`, `cli/server.rs`, `grpc/server.rs`, `cln/client.rs` | the files read, the limits, background tasks, handle of the bridge | check role, user and files, read, call `getinfo`, listen, drain, exit |
| Limits, configuration, role | `grpc/limits.rs`, `config.rs`, `role.rs` | none after start-up | read the environment, trust an environment file |
| Event types and texts | `events/types.rs`, `enricher.rs`, `security.rs` | none | none |
| Client command line | `bin/gcob/*` | none | one RPC per command |

### How they interact

A request passes the layers in the order `grpc/server.rs` adds them: identity,
admission, authentication, rate limit, service. Admission and rate limit call
the same limiter with different keys. A streaming method reserves a slot from
the stream budget, may call CLN, subscribes to the router and spawns a task. The
bridge's tasks put CLN's notifications in one queue; one dispatcher takes them
out and calls `dispatch`, which puts them in the channels of the subscribers;
the spawned tasks move them to the response channels that tonic sends from. A
client that goes away drops the future of a handler that still runs, or closes
the response channel of one that has returned. A signal aborts the dispatcher,
not the tasks, and lets open requests end by themselves.

The certificate commands share only the file system with the server and with
each other. A server that starts looks at all its files once and then reads them
one by one; a command publishes them one by one. Where a command may write is
decided by `certs/paths.rs` from mode bits and ACLs, and whether a host is a
server by the directory that `init` prepares for HAProxy.

### What is hard

- *Concurrency.* Handlers run on several threads; `acquire` clones a semaphore
  that `cleanup_idle` may be about to forget; `dispatch` works from a snapshot
  with no lock held; `unsubscribe` and `dispatch` may remove the same subscriber.
- *Ordering.* The outcome of a payment or invoice may be announced before or
  after the handler that waits for it subscribes. Budgets are charged in an order.
- *Failure.* Clients leave in any await; CLN fails before or after it acted;
  Redis may have counted a call whose answer was lost; a rename fails, or the
  process dies, in the middle of a set of files; a rollback fails too.
- *Time.* Refill rounds down; windows expire; certificates expire, CLN may change
  its CA; a path is replaced between its check and its use.
- *Long sequences.* A directory is what several commands left, some of which died
  between two files: what one accepts, the next must not refuse, and what one
  calls good, the server must be able to use.
- *Progress.* A slow client must not stop the dispatcher; a stream that lost its
  subscriber, or whose client is gone, must end; nothing may wait for a budget; a
  full queue must not hold up the end of the server.

`PROJECT.json` lists each of these as a hazard, at its line, with the properties
that would notice it going wrong.

## 2. Modules

| Module | Models | Notes |
|---|---|---|
| `StreamBudget` | what the stream budget promises | abstract: a set of open streams within two bounds |
| `StreamLimits` | stream budget | implements `StreamBudget` |
| `StreamLimitsProofs` | | theorems |
| `EventRouter` | event router | parameterised by dispatchers and bodies |
| `EventRouterProofs` | | theorems |
| `StreamSession` | streaming handlers, queue of the bridge | composes `StreamBudget` and `EventRouter` by INSTANCE |
| `StreamSessionProofs` | | theorems; instantiates `EventRouterProofs` |
| `EventFlow` | what the bridge promises | abstract: one ordered pipe per stream of CLN |
| `EventBridge` | event bridge, shutdown | implements `EventFlow` |
| `EventBridgeProofs` | | theorems |
| `RateLimiter` | rate limiter | one policy; its names let `RequestPipelineProofs` extend both |
| `RequestPipeline` | request pipeline | budgets as numbers; the limiter itself is `RateLimiter` |
| `RequestPipelineProofs` | | theorems about both: the layers and the limiter they ask |
| `Publication` | what a command that writes certificates promises | abstract: a set of files is replaced at once or not at all |
| `CertPublish` | certificate publication | rename by rename, concurrent commands; implements `Publication` |
| `CertPublishProofs` | | theorems |
| `Permissions` | the decisions of `certs/paths.rs` on modes and ACLs, and the kernel's | operators |
| `SecureDir` | `ensure_secure_dir`, `read_secure_file`, `load_env_file` | extends `Permissions` |
| `SecureDirProofs` | | theorems |
| `CertIssue` | identities, certificates, checks on them, accounts, role | operators |
| `CertStatus` | `certs list`, `show`, `verify` | operators; extends `CertIssue` |
| `Deployment` | certificate commands in sequence | extends `CertStatus` |
| `ServerStart` | limits, start of the server | composes itself with `Deployment` by EXTENDS |
| `ServerStartProofs` | | theorems about both: the commands and the start |
| `MC...` | values of the constants for TLC | |

In each module a variable is commented with the state it stands for, an action
has the name of the operation or the step of it, and a mutated copy of a
definition, marked *Mutant of*, precedes it: replacing the definition by its
mutant makes TLC refute the property the mutant belongs to.
Variables marked *observation* record history for the properties and guard
nothing.

**StreamLimits.** Semaphores have identities. `acquire` is split into `Lookup`
(under the map's mutex), `TryGlobal`, `TryClient` and the drops of a refused
attempt; the drop of a permit into `ReleaseGlobal`, `ReleaseClient`,
`ReleaseArc`, in the order in which Rust drops fields; `cleanup_idle` visits one
entry per step and holds the mutex meanwhile. So `is_idle`, which looks at the
reference count and the permits of an entry, races everything that does not need
the mutex.

**EventRouter.** A guard's extent is one step. `Snapshot` takes the list of a
type, `TrySend` sends to one subscriber (`Deliver`, `Full`, `Dead`), `Finish`
removes the doomed. `with_limits` raises limits of 0 to 1. Events carry a number
per type, which only properties look at.

**StreamSession.** Three kinds of request stand for the seven methods: *watch*
(`XpayStream`, `InvoiceWatch`, the three `Watch...`), *invoice* (`InvoiceStream`:
creates, subscribes, sends InvoiceCreated, forwards its own payment only) and
*pay* (`XpayStreamWatch`: pays, decodes the preimage, subscribes, forwards its own
payment only). What a converter drops is modelled, the fields it copies are not.
Both the budget and the router may refuse, the second after CLN has acted
(`JoinRefused`); `LateRefusalIsJustified` says when.
`next_event_or_cancel` is `TakeEvent`, `Hangup` and `EndOfEvents`.

**EventBridge.** A task opens its streams in order, selects among them, sends to
the queue, and returns when one of its streams ends or fails, taking its other
streams along; nothing starts it again. `Send` waits while the queue is full and
fails at once when the receiver is gone. `Shutdown` only asks for the abort:
`Aborted` is where the dispatcher is dropped with its queue, and the tasks are
detached. `Exit` waits for open requests, which nothing but their client ends
(`Leave`). The dispatch of one event, a step here, is `EventRouter`.

**RateLimiter.** Ages replace clocks and saturate where the code no longer tells
values apart. `RedisFails` leaves open whether the script ran. A bucket that is
not in the map is distinct from a full one, so that `cleanup` can be judged.

**RequestPipeline.** A request stands in one of the awaits of the layers, and
`Cancel` may drop it there; a charge or a call already under way may still
happen. A budget is the number of calls the limiter would allow next, and `Refresh`
whatever changes it between calls: refill, expiry, the second budget of a failing
Redis, or the count that a Redis has kept. It may set it to anything up to the limit,
so what is proved of the layers does not depend on the limiter's arithmetic.

**CertPublish.** Each rename and removal of `publish_files` and `rollback` is a
step; a file is the CA it comes from and the execution that made it. Executions
may fail before publishing, at a rename, in a step of the rollback, or crash
anywhere; the CA of CLN may differ between two of them. The client certificates,
which take the same way as the server's, are left out of the plans here;
`Deployment` has them. Executions overlap as the code lets them: the CA is loaded and
compared before the lock is taken, and init locks another directory than renew, so two
can publish the server's files at once. Such executions are *rivals*. Two
observations record what that did: an execution is `stale` if a rival published
between its decision and its own first rename, and `mixed` if a rival published while
it did. They guard nothing. Mapped to `Publication`, a file is the one on the disk,
or, while an execution that is not mixed is in `publish_files`, the one it found
(`Seen`); so all of its renames are one step, taken when it ends, and of mixed
executions every rename is seen (`Clash`, `Meddle`).

**Permissions, SecureDir.** A permission set stands for an octal digit, and a node
for what `lstat` and `getxattr` tell. `Access` is the kernel's decision (POSIX
1003.1e, external); the other operators are the code's, and the properties
compare the two. With an ACL the group digit is the mask, which is why `chmod` on
such a directory would take access from the service user. `ensure_secure_dir` is
one step per system call (`Parent`, `Entry`, `Check`, `Normalise`, `Chown`) and
may die between any two; the reader has `Open`, `CheckFd` and `Read`, and `Swap`
replaces the path meanwhile. A path has two components: what the code does with
the ones before the last is the same for each.

**CertIssue, CertStatus.** An identity is a DNS name or an address with its
normal form, its spelling and whether it is usable; a certificate is issuer, key,
names in order, usage and last day. `san_token` keeps the spelling of an address
and the certificate does not, as in the code. An Option is a set of at most one
element.

**Deployment.** A command is an action with the code's refusals as guards. It
fixes the list of files it will publish (`init_plan` and the like) and then puts
them in place one per step (`MoveAside`, `Place`); `Die` ends it in between. A
refused command changes no file. The day advances, and CLN may replace its CA.

**ServerStart.** `handle_serve` decides role, user, limits and that all files are
there; `read_secure_file` reads the next of six; `connect` is the call of
`getinfo`, over TLS, to CLN or to HAProxy; `run` is the check of the server's key
and the listening socket. Commands of `Deployment` interleave with all of it, on
the assumption that a start takes less than a day.

## 3. Runs

Passing runs (each within about three minutes with two workers):

| Run | Instance | Shows |
|---|---|---|
| `stream_limits` | 4 requests, 3 of one client; 3 semaphores; global 3, per client 2 | both bounds bite at once, a client is forgotten and comes back, a refused attempt unwinds |
| `event_router` | 3 payment and 1 invoice subscriber; caps 3 and 2; channels of 1; 2 drops; 4 dispatches of payment events, 2 of invoice events | the counter and the caps hold while both caps refuse; streaks begin, break and evict; removals collide |
| `session` | one request of each kind, 2 clients; every queue of 1; stream budget 2, router caps 2 and 1 per type; both preimage forms | release on every path; the router, whose cap of a type is 1, refuses a payment that was made only while another running request fills that cap |
| `session_live` | a watch and an invoice request of one type; router cap 1; up to 3 unrelated notifications | four liveness properties under fairness, and of every step that the news of a paid invoice is kept; channels fill and requests are evicted |
| `rate_limiter` | limit 3, window 5 ticks, 7 calls per tick, with and without Redis | bounds per window, no starvation, invisible cleanup |
| `request_pipeline` | 3 requests of one client on two invoice methods or an unknown path; budgets 2, 1; bodies up to 1 byte, frames up to 2 | charges, order of the layers, body limit, decision of every request |
| `cert_publish` | 2 executions of any command with any options, overlapping anywhere; 2 CAs; one second, so that backups have the same name; one failing rollback step | all or nothing: it implements `Publication`; nothing lost; what is installed belongs together and keeps its CA, unless a command was stale or mixed, died or could not roll back |
| `event_bridge` | 2 tasks over 3 streams; a queue of 1; 3 notifications; 1 open request | nothing lost, doubled or reordered before shutdown; the end of one task spares the others; nobody stays blocked; a signal stops the server; the bridge implements `EventFlow` |
| `secure_dir` | 4 users, 2 groups, read and write; any mode and ACL to begin with; 6 calls; 1 replacement | what is handed out is secure for the kernel, a retry is not refused, what is prepared is accepted, a key that is read was checked |
| `server_start` | 2 commands of 13 sets of options; certificates of 1 day, renewed with 0 left; 2 days; 1 change of CA; 1 start; 2 configurations | a listening server has one generation of certificates and no disabled limit; what succeeded can be served; renewal keeps the identity; where renew finds nothing due, nothing else in the directory is |

A type invariant is a conjunct of the invariant a run checks (`IInv`, `SessionInv`,
`LimiterInv`, `PipelineInv`, `PublishInv`, `BridgeInv`, `ServerInv`), except in
`SecureDir`, where it is proved. All of them are inductive, and proved to be.

The limits are small so that they are reached: every capacity of 1 is both the
empty and the full case, and caps of 2 let one member leave while another stays.
Limits differ from each other where the code compares them to different sets
(global against per client or per type). A limit of 3 and a window of 5 make
refill round down. Bounds that only make the state space finite are named in the
modules: `MaxDispatches`, `MaxNoise`, `MaxBurst`, `MaxFailed`, `MaxFrame`,
`MaxTorn`, `MaxNotes`, `MaxSwaps`, `MaxCommands`, `MaxDay`,
`MaxCaChanges`, `MaxStarts`, and the sets of requests and executions. `MaxFailed`
bounds the calls under way, not their number. `EventRouter`'s symmetry permutes
subscribers of one type, that of `cert_publish` executions and CAs; no temporal
formula is checked under either other than properties of single steps and, for
`cert_publish`, a safety specification. `Bound` in `MCCertPublish` limits executions
that are mixed already, of which the properties promise little: they do not die,
and one rolls back only beside one that has succeeded. Three notifications fill a queue of one while both
tasks hold an event. Two commands suffice for one that dies and one that comes
after it; the second day lets a certificate of one day expire, after a day on
which it is still valid but due for renewal; and one start is enough because
`Stop` leaves nothing behind.

Runs that TLC refutes, each with a finding in `PROJECT.json` that quotes the
line of the repository it disagrees with:

| Run | Property | What the counterexample shows |
|---|---|---|
| `session_raw_preimage` | `PaymentOutcomeIsReported` | raw bytes are not hexadecimal text, so a payment that was made is answered with an error |
| `cert_stale_pin` | `QuietMeansCoherent` | two overlapping renewals: leaves of one CA beside another CA |

`cert_publish` and `cert_stale_pin` check the same system. What the second refutes is
what a reader of the lock would expect, coherence whenever nothing runs; what the
first shows, `OrderlyMeansCoherent`, excepts exactly the executions that the lock does
not protect from each other, the stale and the mixed.

Not a finding, but worth knowing: `limit` per `window_seconds` does not mean that
any span of that length sees at most `limit` calls. A fixed window allows the
limit on either side of an expiry and a token bucket a burst plus what it earns;
`WindowBound` states what is guaranteed, fewer than twice the limit for each of
the two budgets.

Read in the code while modelling, and without a run of their own:

- `XpayStreamWatch` subscribes after `xpay` has returned (`grpc/node_service.rs:223`),
  so the event it waits for may already have been dispatched. (With
  `PreimageForm = {"text"}` TLC refutes `PaymentOutcomeIsReported` this way.)
- When a cap of the router is below the stream budget, which `grpc/limits.rs` does
  not exclude, the router may refuse after CLN has acted: the invoice exists, or the
  payment is made, and the client reads RESOURCE_EXHAUSTED. `session` has such a cap;
  `LateRefusalIsJustified` says when this can happen, `RefusedAreHarmless` that it
  cannot with the defaults.
- `init` locks HAProxy's directory (`cli/provision.rs:113`) and `renew` the server's
  (`cli/certs.rs:894`): both can publish the server's files at once, each moving aside
  what the other has placed.
- Backups are named by the second (`cli/atomic.rs`): a command repeated within the
  second of a crash replaces the backup of the first.
- `sign` looks for its target before it holds the lock (`cli/certs.rs:1152`): of two
  that overlap, the second replaces the first's certificate without `--force`.
- `--dry-run` still creates directories and sets their mode and owner.
- `gcob certs --dir` is parsed (`main.rs`) and not used.
- `verify` wants a client key of mode 0400, while `init` and `renew` publish 0600;
  `SuccessServes` therefore asks `verify` about certificates only.
- `list` and `show` print a certificate as expired on its last day
  (`cli/certs.rs:173`, `206`), `verify` passes it (`certs/inspect.rs:142`).
- A renewal whose identity is an address given as host name, or an address in a
  spelling that is not canonical, is refused.
- Nothing renews the certificates in HAProxy's directory; only `init` does.
- `renew` without `--force` looks only at the days left of `server.pem`
  (`cli/certs.rs:1007`): repeated after a crash behind that file, it does nothing, so
  `NothingDueIsSpared` asks that the last command succeeded.
- `gcob-client init` replaces the key when the CSR is missing.

### Fairness

- `StreamLimits`: weak fairness of every step inside `acquire` or a drop, and of
  cleanup. None of them waits except for the mutex, and `server.rs` runs cleanup
  in a loop. Nothing makes a client ask for, or close, a stream.
- `StreamSession`: weak fairness of each task, handler and the dispatcher (the
  tokio scheduler polls what is ready), separately of `Hangup` (`select!` picks
  among ready branches at random), of CLN's answer to a call and of its
  announcement of a payment it made. Nothing makes a client ask, read or leave,
  or anybody pay an invoice; properties that need a reading client assume it in
  their statement (`ClientsRead`).
- `EventBridge`: weak fairness of each task's loop, of the dispatcher, of the abort
  and of the exit; strong fairness of `Send`, because tokio queues the senders
  of a full channel in order of arrival. CLN, the clients and the signal owe
  nothing; `SignalStopsServer` assumes in its statement that clients leave.
- `RequestPipeline`: weak fairness of the server's steps, of CLN's answers (or
  failures) and of the end of a body (or its failure). The code sets no time limit for
  a body; the transport's keepalive ends the connection of a dead peer.

## 4. Proofs

TLAPS checks every theorem for all values of the constants that satisfy the
named assumptions: finite sets, limits that are natural numbers, every request
or subscriber with an owner or a type.

**StreamLimits.** `PerClientBound` is not inductive: it needs that streams of a
client share a semaphore. (TLC checks it as part of `ImplementsBudget`: a stream
opens only where its client has room.) The invariant `IInv` adds: what is available and what
is held make up each budget (`GlobalAccounting`, `ClientAccounting`), no two
clients share a semaphore (`DistinctSemaphores`), and every clone somebody holds
is of the semaphore the map refers to (`ArcsAreCurrent`). The last is what
`is_idle` has to protect: the step for `cleanup_idle` holds because an entry with a single
reference has no holder. The lemma `GotoCounts` says how the set of holders
changes with one request's step; each action then needs arithmetic only. From
`IInv`: `TypeCorrect`, `PerClientBounded`, `CountersExact`, `SemaphoreUnique`
and `Refinement`, under which a stream opens in `StreamBudget` when `TryClient`
succeeds and closes when its permit begins to drop.

**EventRouter.** `IInv` is the type invariant with `CounterExact`, `WithinCaps`
and the fact that a subscriber has a receiver. A removal counts only what is still in
the map, so the counter stays exact for any number of dispatchers; `TypeCorrect`,
`TrackedExact` and `CapsHold` follow. The streak theorems assume one dispatcher,
as in the server (`start_all` has the only caller of `dispatch`). `StreakInv`
relates a dispatch under way to the counters: an id not yet used is fresh, the
event under way is the latest of its type, a subscriber still to be sent to
lags by one, a condemned one has earned it, and one already
dealt with has an exact streak. From it: `StreaksExact`, `LossBounded`,
`EvictionsJustified`. Both invariants were checked with TLC before they were
proved.

**SecureDir.** Three theorems are about operators, for any users, groups,
permissions and ACLs: what `effective_perms_are_owner_only` accepts gives no broad
principal access in the kernel's eyes (`EffectiveSound`), the same of the
environment file (`EnvFileSound`) and of CLN's CA key (`CaKeyIsOwners`). The
inductive invariant `Inv` is the type invariant with `EnsureInv` and `ReadInv`:
what has passed the check stays acceptable to the same call through `chmod` and
`chown` and after a crash, and a descriptor past its check satisfies it. From it:
`TypeCorrect`, `EnsuredSecure`, `Retry`, `Prepared`, `ReadTrusted`; and of single
steps `SymlinksKept` and `NamedUsersKept`.

**StreamSession.** `SessionInv` is `OwnershipInv` and `DeliveryInv`. The first
holds the types, both budgets, the router's `IInv` and, per request, `Owns`: where
in its life it has a permit, a subscriber and a receiver. Nothing is proved of the router again: every step of the server is a
step of the router or leaves it alone (`RouterStep`), so the router's own proof,
instantiated with requests for subscribers, preserves `IInv`; and the theorems
`RouterImplemented` and `StreamsLoseLittle` carry its specification, its bounded
loss and its justified evictions over to the composition, which has the one
dispatcher they need. `BudgetImplemented` says the same of the stream budget,
which `StreamLimits` implements. Two theorems are about refusals: the stream budget
asks before CLN is called, the router after it. A request about to subscribe holds a
permit and is no subscriber, the router counts its subscribers exactly, and each of
them is another request with a permit (`SubscribersAreOthers`). So a refusal that
comes after an effect means that others with permits fill one of the router's caps
(`LateRefusalsJustified`), for any budget and any caps. If the budget fits in both caps
(`BudgetFits`: the defaults are 256 streams, 512 and 256 subscribers, and nothing in
`grpc/limits.rs` enforces it) others are too few, and `RefusedAreHarmless` follows.

`PaidInvoiceIsKept` is the safety half of `PaidInvoiceIsReported`, and
`PaidInvoicesKept` proves it of every step: the news that an invoice was paid
is in the bridge, in the dispatch under way, in the channel of its request, in
the hand of its task or with its client, and moves from one to the next; only
a send to a full channel and an eviction lose it. What makes that inductive is
`DeliveryInv`. Whoever has shown its bolt11 to a client is past its subscription, and
until that client is told it stays subscribed or was evicted for being slow; it
leaves its loop untold only with an empty channel that no sender can fill any more
(`Listens`). The event about a request has the type it subscribed to
(`NewsTyped`), so the snapshot that takes it contains the request. And a dispatch
condemns only those it has already sent to, for a reason that still holds
when it removes them (`Condemned`). That the news arrives in the end needs fairness and
is TLC's (`PaidInvoiceIsReported`).

**RequestPipeline.** The properties compare what a budget has allowed with what
became of the requests it allowed, which is not inductive. `PipelineInv` adds
`LayersPassed`, what a request in each await has behind it, and two accounts that
count requests under way: what has been asked, with those about to ask, is covered
by the admission budget (`AdmissionAccount`); what a method's budget has spent is
covered by requests with an accepted rune, and what has been carried out, or may
still be, by what was spent (`QuotaAccount`). Each step moves one request between
the counted sets. From it: `RunesAskedWithinBudget`, `QuotaNeedsAuthentication`,
`EffectsStayWithinQuota`.

**EventBridge.** `BridgeInv` says that the events of a stream between its task and the
router are exactly the numbers after the last one routed up to the last one
handed over, each once and in order (`ExactFor`), and that a task sends what it read
last. From it `NothingLeftBehind` and, with reads and routings as the steps of
`EventFlow`, `Refinement`: the head of the queue is the next event of its stream.

**CertPublish.** `PublishInv` relates the two lists of `publish_files` to the disk:
each file is the old one, moved aside with a backup, or the new one, according to
the list it is on (`Lists`, `Progress`), and what a command decided when it looked
is still so when it publishes (`Decided`). The second is only true of an execution that
is not stale, the first only of one that is not mixed, and `Knows` says so of each
execution by itself; `ObservedExact` says that the two observations miss no rival and
name nobody who was alone. Nothing is assumed about overlap. Executions that are not
rivals write different files (`RivalsOrApart`), so the step of one leaves what the
other knows as it is, and that of a rival makes it stale or mixed
(`OthersKnow`). `InstalledMatch`, `FailureUndone`, `AnchorsStay` and `Refinement` hold
of any number of overlapping executions, with the exceptions their properties name:
what was stale or mixed when it published, died, or could not roll back. That
these exceptions are needed is what `cert_stale_pin` shows. The assumptions on
constants say only that commands and times are what they are in the code, and that
the mark for a free lock is not an execution.
`Refinement` shows that `Publication` is implemented. A success and a failure come from
`PublishInv`: the last rename finds every other file of the plan replaced and
everything else untouched (`AllPlaced`), a complete rollback finds the old files back
(`RolledBackRestores`). A death needs more, since after a failed step of the
rollback the two lists no longer tell what is on the disk: at every step a file of
the plan is the old one, missing or the new one, and any other is untouched
(`Between`, which is inductive together with `PublishInv`). No step but the last of an execution
that meets no rival is seen (`UnseenStep`). The moment a rival begins to publish beside it,
what both have done so far is seen (`ClashJoins`), and every rename from then on
(`MixedMeddles`).

**ServerStart, Deployment.** `SuccessServes` and its like are about what several
commands left behind, and say nothing of a command under way or dead; so none is
inductive. `DeploymentInv` adds what each file may hold (`FilesTyped`), which plan
each command has and how far it is (`JobTyped`, `JobExact`), and what a directory
holds after a success (`HealthExact`). The decisive part of `FilesTyped` relates
two files of one directory: its server certificate is never older than its client
certificate. It holds across deaths because every plan replaces the first before
the second and moves the old file aside before the new one comes. It is why a
listening server has one generation of certificates although nothing checks the
issuer of the server certificate: CLN's answer to `getinfo` shows that the CA and
the client certificate are the present ones (`ConnectKeeps`), so the server
certificate, no older and never newer than CLN's CA, is as well. `ServerInv` adds
what has been read so far (`ReadExact`). The proof has a lemma for each command
and each kind of step; `PlanMakesHealthy` turns a completed plan into a healthy
directory, by way of the last place of each file in it. From `ServerInv`:
`OneGenerationServed`, `SuccessIsServed`, `AnswerWorks`, `NothingDueSpared`, which needs
that both certificates of a healthy directory end on one day; and with
`RenewIdentityType`, by which a certificate with a DNS name repeats exactly the two
names found in it, `IdentityIsKept`. Assumed are options, host names and addresses
of the right type, over any set `Spelling` of spellings that has the two defaults of
`certs/detect.rs`; positive default limits; and that certificates outlive the threshold
of `renew`.

**RateLimiter.** `LimiterInv` adds to the types four accounts. Two are about a key that
is refused: an empty bucket has waited at least as long as its key has been quiet
(`BucketAccount`), and a call was allowed after a live Redis counter was started, or
less than a window before (`CounterAccount`). From them `RoomAgain`: a key quiet for
two windows, one without Redis, is allowed; and of single steps `ForgettingIsFree`.
The other two are about a key that is allowed, and say it of every span that ends now,
so that a window needs no sum. When a token costs a window and a tick earns the limit,
what a bucket has paid for and what it is worth never exceed a full bucket and what the
span earns (`MemoryAccount`): a refill rounds down and is worth no more than the age it
replaces, and what `cleanup` forgets is worth a full bucket. What Redis allowed is covered
by the counter since it began, and by less than the limit before (`RedisAccount`). From
them `NoDoubleWindow`: no window of any length sees twice the limit from one store.

Each of these invariants was checked with TLC before it was proved.

Only model-checked: liveness and everything else that needs fairness or ENABLED,
which TLAPS does not support.

## 5. Not modelled

- X.509, TLS and protobuf encodings: libraries. A certificate is reduced to what
  the code puts in and asks of it, a handshake to its outcome.
- Parsing of numbers, of lines of the environment file, of the output of `ip` and
  `ifconfig`: reduced to the values they yield, valid or not.
- `ensure_cert_dir` and `validate_cert_dir_target`, which no command calls;
  `setup_gcob_acls` and `chown_recursive`, whose results are among the nodes
  `SecureDir` starts from; default ACLs of a parent directory.
- Event types, recommendation texts, the sanitizer: no state and no control. The
  fields the converters copy.
- The commands of the client program around single RPCs, and its output.
- Several policies under one key, which no caller uses; a Redis that forgets a
  counter before it expires; metrics and log texts.

## 6. Plan

Done: the budget and the router with their proofs, the composition, the limiter,
the pipeline and publication; then the bridge with its abstract specification and
the shutdown, the permission checks with their proofs, the certificate commands
and the start of the server; then the proofs about the composition, the pipeline,
the bridge, publication as an implementation of `Publication`, the limiter, the
commands and the start. Next:

1. `RequestPipeline` and `RateLimiter` together: `EffectsWithinQuota` counts what a
   budget has allowed since the start and `WindowBound` what it allows in a window;
   the effects within a window, some of them allowed before it, are bounded by neither.
2. `Deployment` takes for granted that a plan is put in place in its order and as a
   whole, or cut off by a death. `Publication` states the same of a set of files and is
   proved of `CertPublish`; what is left is to use it in `Deployment` by INSTANCE, with
   the order of a plan, which `FilesTyped` relies on, added to it.

## 7. Running

```
tlc -workers 2 -config MCStreamLimits.cfg MCStreamLimits
tlapm EventRouterProofs.tla
```
