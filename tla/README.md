# TLA+ models of socks5-http

This directory holds TLA+ models of the Rust proxy in `src/`, and the TLC
configurations that check them. The proxy has two parts:

- a data plane: listeners, a protocol demux, HTTP and SOCKS5 front ends,
  authentication against a user directory, and tunnels;
- a control plane: a WebSocket session with a central server. The server
  pushes the directory and sends DisableUser commands. The client pushes
  statistics back.

## Inventory of the system

| Part (spec id) | Source | What changes state | Model |
|---|---|---|---|
| Directory (C1) | `rg-acl/src/auth/dc_auth.rs`, `rg-proxy/src/backend/mod.rs` (check_is_white, http_check_user_auth) | update_all, update_white_list, update_user_info under a RwLock; check_auth reads | `Directory` |
| ACL (C2) | `rg-acl/src/acl/*` | AclCenter's rule: check and update through the AclRule trait; DefaultAclRule is the only rule built | `Acl`, instantiated in `HttpPipeline` (check) and `ControlSession` (AclData update) |
| ConnectionRegistry (C3) | `rg-proxy/src/conn_set.rs`, tunnel part of `dc_server.rs` | add, remove, kill_user, and the kill task | `ConnRegistry` |
| StatsCore / StatsScheduler (C4, C12) | `rg-stat/src/*` | event channel, read-and-clear counters, 60 s collect into broadcast rings | `Stats` |
| Resolver (C5) | `rg-proxy/src/resolver.rs`, `connect_target` | resolve succeeds or fails; connect retries up to RETRY_LIMIT | steps of `HttpPipeline` |
| ProtocolDemux (C6) | `socks5_http/src/lib.rs` | reads (and consumes) one byte | `Demux`, `DemuxEof` in `HttpPipeline` |
| HttpFrontEnd (C7) | `http_impl/src/*`, `rg-proxy/src/util.rs` | parse; 407 challenge and re-read; 401; header strip | `HttpPipeline` |
| Socks5FrontEnd (C8) | `rg-proxy/src/socks5_server/server_auth.rs` | method choice (ServerAuth::new with is_white = true, AuthMethod); the rest of the handler is not in the repository and is modelled from spec.md 4.8 | SOCKS5 branch of `HttpPipeline` (partly) |
| Tunnel (C9) | `rg-proxy/src/backend/mod.rs` io_copy | copy, filter, traffic callback, shutdown select | `ConnRegistry` (end, shutdown), `HttpPipeline` (upload filter, traffic) |
| Listener (C10) | `rg-proxy/src/proxy_server.rs`, `lib.rs` | accept; request/connection stat; spawn | in `Stats` (accept loop) |
| Start-up | `server/src/utils.rs`, `server/src/main.rs` | config defaults, IP range expansion, port assignment, bind loop | `ListenerPlan`, composed into `HttpPipeline` |
| ControlSession (C11) | `server/src/server_client.rs`, `backend/ws_client.rs`, `main.rs` | status flag, reconnect loop, listen task, message handler task | `ControlSession` |
| EmitClient and stat upload | `server/src/emit_client.rs`, `rg-stat/src/lib.rs` (collect_stat's send), `ws_client.rs` emit_stat | broadcast rings, resubscribe, one forwarder per type, merge channel, emit on the session | `StatUpload`, composed into `ControlSession`; refines `BestEffortStats` |
| Config crates, kafka, std_client | `crates/config`, `crates/args`, `crates/kafka`, `backend/std_client.rs` | file paths and unused backends | not modelled |

## How the parts interact

- At start-up `main` reads the IP/port descriptor file once, expands it into
  a list of addresses, binds a listener for each one it can, and then spawns
  the statistics manager, the control client and one accept loop per
  listener. With no listener bound it exits.
- An accepted connection is spawned as its own task. It does these steps in order:
  1. check_is_white, under one read lock of the directory;
  2. demux;
  3. on the HTTP path, parse the request (a 407 challenge and one re-read);
  4. http_check_user_auth, under a second read lock;
  5. ACL, resolve and connect;
  6. registration in ConnStat, then two io_copy loops under one select!;
  7. unregistration.
- The control session forwards each DisableUser into an unbounded channel. The
  kill task reads that channel and runs ConnStat::kill_user.
- The control session applies UserAuth, UserWhiteList and UpdateUser under the
  directory's write lock.
- Statistics go the other way. Every 60 s `collect_stat` sends one snapshot
  per non-empty type on that type's broadcast ring. A forwarder per type
  moves it into one merge channel, EmitClient's loop moves it to the
  channel `ServerClient::run` selects on, and `emit_stat` writes it to
  the session held at that moment.

## Modules

### ConnRegistry

Models ConnStat and the tasks that use it concurrently.

- **Connection tasks** (`Conns`): each is a state machine idle → adding →
  copying → idle. The steps:
  - `Register` is the first DashMap operation of `add`;
  - `PublishSender` is the second;
  - `Release` is the end of the tunnel: the select returns, the task sends on
    its own shutdown_tx, and `remove` runs.
- **The kill task**:
  - `KillTake` is `connections.remove(&user)`;
  - `KillCancel(id)` removes one id's sender and sends the shutdown on it;
  - `KillFinish` ends the kill.
- **DisableUser** appends a user to the kill channel.

The code sends on the collected senders after the loop rather than during
it. A sender whose task has already ended reaches no receiver, so the two
orders reach the same states, up to stuttering.

How ids are modelled: a registration id is the address of `shutdown_tx`
(`dc_server.rs:138`). A new task may take any address no live task holds.
This is how the allocator may reuse the address of an ended task.

Ghost variables:
- `doomedReg` is the set of tunnels of the killed user that were fully
  registered when kill_user took the user's set;
- `doomedAdding` is the set of those tunnels that were half-way through add.

### Directory

Models the four indices of DcAuthenticator as TLA+ functions. Keys that the
code builds with `format!` are tuples of their parts.

- **Actions** (each runs under the write lock, so each is atomic):
  - `UserAuth` is update_all;
  - `UserWhiteList` is update_white_list;
  - `UpdateUser` is update_user_info.
- **Operators for the read side:**
  - `IsWhite` is check_is_white;
  - `CheckAuth` is check_auth;
  - `HttpCheckUserAuth` is http_check_user_auth. It takes is_white as a
    parameter, because the code computes is_white under an earlier lock.
  - The properties quantify over every request
    (listener ip, client ip, username, password).

### Acl

Models `rg-acl/src/acl`. A rule is a record: `DefaultAclRule`, and
`BlackListAclRule` with its three sets. A black-list key
`format!("{}-{}", a, host)` is the pair `<<a, host>>`, because neither a
user id nor an ip contains `-`.
- `Check` is AclRule::check through the trait object; `BlackListCheck` is
  the black list's three lookups.
- `Update` is AclRule::update. Both implementations have an empty body, so
  it returns the rule unchanged.
- Both AclCenters the server builds (`main.rs:51`, `dc_server.rs:39`) hold
  a DefaultAclRule. BlackListAclRule is private to its crate and only its
  empty `Default` is ever built, so `AclRules` has just these two values.

### ControlSession

Models the control client of `server_client.rs` and `ws_client.rs`. The
server pushes frames; each frame carries one message of a small pool
(`MsgPool`) and a sequence number, so the order the server sent is visible.

- **State:**
  - `status` is `BACKEND_STATUS`;
  - `mpc` is the position of `run`'s reconnect loop;
  - `session` is the current session number;
  - `wire[s]` holds the frames in flight on session `s`; `closed[s]` says the
    server closed it;
  - `lpc[s]` and `chan[s]` are session `s`'s listen task and its channel to
    the handler;
  - `hpc[s]` and `hmsg[s]` are session `s`'s `handle_server_message` task
    and the message it holds;
  - `killQ` is the kill channel;
  - `ctl_*` are the indices of the authenticator that `main` creates;
  - `epc` ... `uploaded` are StatUpload's variables (below).
- **Actions:**
  - the server's `ServerSend` and `ServerClose`;
  - the loop steps `Reconnect`, `ReconnectFails`, `KeepSession`, `Listen`,
    `Tick` (a ping), and the BACKEND_STATUS load after each select
    branch: `LoopAgain` or `LoopExit`;
  - `TickStat`, the select's stat branch: StatUpload's `EmitStat` on the
    session held, delivered only if the server has not closed it. Like the
    code, it does not look at the status first;
  - the stat tasks (`StatTask(SU!Tasks)`), which touch nothing of the
    session but `io`;
  - the listen task's `ListenRecv` and `ListenEnd`. `ListenEnd` sets
    `status` false.
  - the handler's steps `HandlerRecv`, `HandlerRecvErr` and `Held`/`HeldIs`;
  - one `Apply*` action per message kind. Each writes a `Directory`
    instance (`Ctl`), the kill channel, or (`ApplyAclData`) the rule `acl`
    of the AclCenter `main` builds, through `ACL!Update`;
  - the handler's `HandlerCheck` of `BACKEND_STATUS`, which ends the
    handler when the status is false.
- **Instances:**
  - `Ctl` is a Directory instance over the `ctl_*` variables. The proxy
    itself reads a different authenticator (see HttpPipeline);
  - `SU` is the StatUpload instance: the EmitClient this ServerClient owns.
- **Ghost variable:** `applied`, the sequence number of the last message
  applied.

### StatUpload

Models the path of a statistics snapshot from `collect_stat` to the
session: `rg-stat/src/lib.rs:49-68`, `emit_client.rs` and `emit_stat` in
`ws_client.rs`. A snapshot is `[type, n]`, where `n` numbers the snapshots
in the order they were collected.

- **State:**
  - `ring[t]` holds the messages of type `t`'s broadcast channel that the
    resubscribed receiver has not read yet. It has room for `Cap`
    messages; the code has 500;
  - `lagged[t]` says that receiver lost a message to the ring's overwrite;
  - `fpc[t]` is the forwarding task of `t`; `epc` says whether
    `EmitClient::run` has started;
  - `merged` is run's unbounded merge channel, and `io` the channel to
    ServerClient;
  - `uploaded` (ghost) holds the snapshots the server received.
- **Actions:**
  - `Run`: resubscribe and spawn the forwarders;
  - `Publish(t)`: one send of collect_stat's loop. A full ring drops its
    oldest message and marks the receiver lagged;
  - `Forward(t)`: recv and send into `merged`;
  - `ForwardLagged(t)`: recv returns Lagged and the loop breaks, so type
    `t` is never forwarded again;
  - `Pump`: run's own loop, from `merged` to `io`;
  - `EmitStat(live)`: ServerClient takes the head of `io` and writes it.
    The server receives it only if `live`.
- **Refinement:** `ImplementsBestEffort` says the module implements
  BestEffortStats under the mapping `InFlight` (below).

### BestEffortStats

The abstract specification of the stat path: spec.md sections 4.12 and 7
call snapshots best-effort. Per type it is a lossy FIFO:
- `Send(t)` numbers the next snapshot; in the same step any snapshots of
  `t` in flight may be lost;
- `Lose(t)` loses some;
- `Deliver(t)` hands the oldest one to the server.

Its actions constrain the primed queue instead of computing it, so the
module serves as a property and is not run on its own. StatUpload
instantiates it as `Abs`. The refinement mapping takes `sent` from
`published` and `delivered` from `uploaded`. It builds `queue[t]` from
`InFlight`: the snapshots of `t` in `io`, then in the merge channel, then
in `t`'s ring.

Under this mapping:
- `Forward`, `Pump` and `Run` are stuttering steps;
- `Publish` is a `Send`; its ring overwrite, or a lost snapshot when no
  forwarder is running, is the loss allowed in that step;
- `ForwardLagged` and a failed emit are `Lose` steps;
- a delivered emit is `Deliver`.

### Stats

Models the statistics path: the accept loop of `ProxyServer::start`, the
HTTP connection task and the `StatisticManager` task.

- **State:**
  - `events` is the unbounded StatEvent channel;
  - `total`, `traffic_info`, `requests` and `alive` are the four counters
    that `main` subscribes (SystemStat is left out);
  - `apc` is the accept loop: waiting, or between the spawn and the -1;
  - `hpc[c]`, `user[c]`, `flow[c]` and `ntraffic[c]` belong to connection
    task `c`;
  - `lastTotal` and `lastUser` are the snapshots of the last collection;
  - `reportedAlive` and `reportedReq` are the running sums of all
    Connection and Request snapshots.
- **Actions:**
  - `Accept(c)` sends Request(None) and Connection(+1) and spawns the task;
  - `AcceptDone` sends Connection(-1);
  - `Authenticated` sends Request(Http or Https);
  - `Traffic` is one traffic callback;
  - `Finish` is any end of the task;
  - `ApplyEvent` is the recv branch of the manager's select;
  - `Collect` is the timer branch. `collect_stat` calls each counter's
    `_collect`, one operator each (`CollectTotal`, `CollectUser`,
    `CollectRequest`, `CollectConnection`). Each reads and clears with
    `fetch_and(0)`, and all of them run in one step because the manager
    task owns every counter.
- There is no bound on the number of collections. The counters are cleared
  on each collection, and every task sends a bounded number of events, so
  the state space is finite. The timer keeps ticking forever, which is why
  the run checks deadlock.

### HttpPipeline

Models one connection task on the HTTP path, from accept to the end of
the tunnel, against a client and a target that are the environment.

- **Bytes.** A request is a sequence over a 12-symbol alphabet:
  - method bytes, a space, the target, and a line end (`N`, for CR LF);
  - `K` and `k`, for Proxy-Authorization in upper and lower case;
  - `A` and `B`, two Basic tokens (`CredOf` decodes them);
  - `a`, any other header byte, and `5`, the SOCKS version byte.
- **Reads.** A read returns any non-empty prefix of what the client has
  sent, so every way the requests can be cut into reads is explored.
- **Task actions:**
  - `Start` is check_is_white;
  - `Demux` and `DemuxEof` are socks5_or_http;
  - `ReadRequest`, `ReadFollowUp` and `ReadEnds` are the read_content loop
    of parse_incomming_request, including the 407 round and the 10 s timeout;
  - `Authenticate` is http_check_user_auth, with 401 on a reject;
  - `Resolve` is resolve_host together with request_stat;
  - `Connect` is connect_target with RETRY_LIMIT;
  - `Forward` writes remove_headers(content) upstream;
  - `Upload` is one read of the upload io_copy: the chunk, the filter and
    the traffic callback;
  - `WriteFails` is a write_all to a target that has reset the
    connection. In `Forward` and in the upload io_copy the `?` returns
    before the traffic callback, and the task ends;
  - `Download` and `TunnelEnd` are the rest of the tunnel.
- **The demux's Version.** socks5_or_http calls `Version::try_from` on the
  byte it read, and `handle_connection` unwraps the result
  (`dc_server.rs:83`). The crate `socks5_protocol` that defines `Version`
  is not in the repository, so the bytes it accepts are the constant
  `VersionBytes`. `DemuxBadVersion` is the panic on any other byte. If
  the crate is like socks5-impl, whose `Version` accepts only 4 and 5,
  every HTTP request panics there and the HTTP front end is unreachable.
  The runs take `VersionBytes = {5, G, C}`, the only kind of build in
  which the HTTP path works, and the client may open with a byte outside
  it.
- **ACL.** `Resolve` is guarded by `ACL!Check` on the proxy's AclCenter
  (`dc_server.rs:39-42`, a DefaultAclRule), so the 403 branch is never
  taken.
- **SOCKS5.** The demux sends a `5` to the SOCKS5 handler. The server
  offers `AuthMethod(Socks5Auth)`: NoAuth (`0`), because `dc_server.rs:85`
  builds ServerAuth with is_white = true. The handler itself
  (`socks5_server::handle_conn`) is not in the repository, so its steps
  come from spec.md 4.8:
  - `S5ReadFails`: a version byte other than 5, or EOF;
  - `S5Greet`: the method byte the client lists must be the offered one
    (`M00` and on to the request), else `MFF`;
  - `S5Request`: CONNECT goes on, any other command gets `R07`;
  - `S5Connect`: `R00` and the tunnel, or a failure reply;
  - `S5TunnelEnd`.
- **Operators:**
  - `RemoveHeaders` is `RECURSIVE StripFrom`, a step-by-step translation of
    `util.rs` remove_headers;
  - `RefStrip` is its reference: drop each complete line that mentions PROXY;
  - `Parse` is HttpRequest::new with get_auth_header.
- **The directory** is `Px`, a Directory instance in its initial state.
  This is the authenticator that `dc_server.rs` builds and that nothing
  writes: `main.rs:52` hands the control client a different one.
- **Composition.** `LP` is a ListenerPlan instance. Its start-up steps
  (`StartUp`) come first, and `Start` and `ClientOpen` wait for the phase
  `serving`.
- **Ghost variables:**
  - `chunks`: every string passed to remove_headers;
  - `wrote`: every request the client wrote.

### ListenerPlan

Models process start-up: `get_config`, `get_local_ip_port` with
`IpRange::all_ips`, and the bind loop of `main`. The `unwrap` panics for a
missing descriptor file or LOCAL_IP (`utils.rs:39-43`) are left out:
`Configs` holds files that were read.

- An address is a tuple of four octets. A listener address is a record
  `[ip, port]`, standing for the `"a.b.c.d:port"` text the code formats and
  parses again.
- **Constants:**
  - `Configs` holds parsed descriptor files. Each file has ranges, extra IPs,
    and PORT_START, PORT_END and OFFSET, where a field may be `NONE` or
    `UNPARSABLE`.
  - `IsLocal` says which addresses the host owns.
- **Operators:**
  - `AllIps` counts up from the range's own address, carrying into the
    third octet modulo 256;
  - `Inner` and `Outer` are the OFFSET reordering;
  - `Panics` is its out-of-bounds case;
  - `PortRange` is `abs_diff + 1`;
  - `LocalIpPort` gives out ports round-robin;
  - `GetPort` is get_port's fallback to 40000 for digits that do not fit
    a u32.
- **Actions:**
  - `GetConfig` applies the defaults;
  - `GetLocalIpPort` computes the plan, or moves to `panicked`;
  - `Bind` and `BindRefused` are one iteration of the bind loop, where
    `BindRefused` means another process holds the address;
  - `StartServers` moves to `serving`, or to `exited` when no listener was
    bound.
- **Ghost variable:** `refused`.

## Runs

| Run | Module (MC) | Checks | Result |
|---|---|---|---|
| `registry` | MCConnRegistry | RegistryOnlyLive, KillReachesRegistered | pass: 129,808 states |
| `kill_during_add` | MCConnRegistry | KillReachesAllStarted | violation |
| `kill_reused_id` | MCConnRegistry | KillIsolation | violation |
| `stale_username` | MCDirectory | OwnIpsOnly | violation |
| `control` | MCControlSession | TypeOK, SessionConsistent, StatUploadBestEffort | pass: 736,044 states (constrained by EventBudget) |
| `stale_handler_spins` | MCControlSession | StaleHandlerEnds | violation |
| `dropped_on_close` | MCControlSession | NoMessageDropped | violation |
| `stale_handler_reorders` | MCControlSession | AppliedInOrder | violation |
| `stats` | MCStats | TypeOK, TrafficRoundAgrees, RequestsCovered | pass: 768,903 states |
| `connection_gauge` | MCStats | ConnectionsCounted | violation |
| `pipeline` | MCHttpPipeline | TypeOK, FilterMatchesReference, AdmittedCredentialsWritten, ListenersCoverPlan, FrontEndEnds | pass: 219,517 states |
| `first_byte_lost` | MCHttpPipeline | LinesForwardedAsWritten | violation |

Every property of a passing run has a mutant in `PROJECT.json`: a
plausible bug in one mapped definition that TLC finds. One example is
`BindStoppingAtFailure`, a bind loop that stops at the first failure
instead of continuing; `ListenersCoverPlan` fails under it.

What the passing runs show, beyond their type invariants:

- `registry`:
  - ConnStat names only live tunnels;
  - kill_user reaches every fully registered tunnel of the user.
  The run checks no type invariant: ConnRegistry's `TypeOK` is kept as
  documentation of the state, but no plausible bug of the Rust code, whose
  types the compiler checks, breaks it.
- `control`:
  - BACKEND_STATUS is false exactly when the held session's reader has
    ended;
  - `StatUploadBestEffort` (a refinement): the stat path implements
    `BestEffortStats`, a lossy FIFO per type. Snapshots are lost (to the
    ring's overwrite, to a forwarder stopped on Lagged, or to an emit on
    a closed session), but the server never receives one that was not
    published, receives none twice, and receives them in collection
    order. This holds through the forwarder, the shared merge channel and
    ServerClient's select, across closes and reconnects.
- `stats`:
  - each collection's total traffic equals the sum of its per-user
    records;
  - the Request(None) count covers the HTTP and HTTPS counts.
- `pipeline`:
  - `ListenersCoverPlan`: every bindable planned address gets a listener.
    A bind loop that stops at its first failure breaks it. Its
    precondition leaves out planned ports above 65535, so it says nothing
    about the port overflow of `utils.rs:93`;
  - `FilterMatchesReference`: remove_headers agrees with its line-by-line
    reference on every chunk. It compares read by read, so it cannot see
    a header line split across two reads; `first_byte_lost`'s property
    can;
  - `AdmittedCredentialsWritten`: only credentials the client wrote, and
    the directory admits, get past authentication;
  - `FrontEndEnds`: the front end always reaches the tunnel or ends,
    because of the 10 s read timeout and RETRY_LIMIT. A missing timeout or
    an endless retry breaks it.

What the violations show:

- **kill_during_add:** the trace is Register → DisableUser → KillTake →
  KillCancel (which finds no sender) → KillFinish → PublishSender. The
  tunnel of a disabled user keeps running, because ConnStat::add is not
  atomic with respect to kill_user.
- **kill_reused_id:**
  1. Tunnel c2 of u1 registers at a1.
  2. KillTake(u1) takes {a1}.
  3. c2 ends.
  4. Tunnel c1 of u2 registers at a1 and publishes its sender.
  5. KillCancel(a1) shuts down u2's tunnel.
- **stale_username:**
  1. UserAuth runs.
  2. UpdateUser renames user 1 from n1 to n2.
  3. The key L1-n1 stays in ip_map, so n1 with the current password is
     still accepted as user 1.
- **stale_handler_spins:** session 1's channel is closed and empty, and
  session 1's handler missed the window in which the status was false:
  `run` reconnected and stored true before the handler's check. This
  needs that race; a handler that reads false in time returns. Session 1's handler then cycles
  HandlerRecvErr → HandlerCheck forever. recv fails at once, the status
  check passes, and the task never returns (`server_client.rs:175`).
- **dropped_on_close:**
  1. The listen task passes two messages to the handler.
  2. The server closes, and `ListenEnd` sets the status false.
  3. The handler applies one message, reads the status and stops.
  4. The DisableUser still in its channel is never applied.
- **stale_handler_reorders:**
  1. Session 1 closes, and `run` reconnects before session 1's handler
     checks the status.
  2. Session 2's handler applies the new UserAuth.
  3. Session 1's handler then applies the older UserAuth still in its
     channel, which enables the user again.
- **connection_gauge:**
  1. c1 is accepted and spawned, and `AcceptDone` sends -1 at once.
  2. With every event applied, the reported deltas plus the uncollected
     counter add up to 0 while c1's tunnel is still open.
  3. Spec section 3 says the gauge is "decremented after handling"
     (`proxy_server.rs:33`).
- **first_byte_lost:** this run assumes a `Version::try_from` that accepts
  the first byte of an HTTP method (see the demux below). The trace is:
  1. start-up;
  2. the client sends `GET / ... Proxy-Authorization: A`;
  3. the demux consumes `G`;
  4. the request is parsed from `ET ...`, admitted, and forwarded.

  The target receives the request line `m s h N` (that is, `ET / HTTP/1.1`),
  which the client never wrote. Spec 4.6 says the byte is replayed.
  Under socks5-impl's `Version` the same request panics at
  `dc_server.rs:83` instead; in neither build is the byte replayed.

  A separate observation, not this run's trace: replaying the byte would
  not make the property hold. In a variant of the module that replays
  it, TLC finds the property violated in 11 steps, because the filter
  works per read and a header split across two reads (`K` at the end of
  one read, `s A N` in the next) reaches the target with the credential
  token.

## Bounds

- `registry`: 2 users, 3 connection tasks, 2 addresses and 2 DisableUser
  messages.
  - Three tasks on two addresses force an address to be reused.
  - Two kills let one kill overlap a registration while the other overlaps
    a release.
- `stale_username`: 1 listener ip, 1 client ip and 2 users.
  - User 1 is stated under two usernames and as disabled.
  - Batches hold up to 2 elements.
- `control`: 2 users, 1 listener ip, 6 messages in the pool (the empty
  UserAuth included), up to 3 frames per session and 2 sessions.
  - Two sessions are the fewest that show a stale handler next to a new one.
  - Three frames let two be queued when the server closes.
  - The stat path has one type, a ring of `Cap` = 1 and 2 snapshots.
    Two snapshots of one type are the fewest that can be reordered or
    repeated, and they overflow a ring of 1, so `ForwardLagged` fires.
    A second type only adds interleavings in the merge channel; order is
    per type, so it is left out.
  - The constraint `EventBudget` (in MCControlSession) lets frames and
    snapshots together number at most 3. Without snapshots the session
    part is explored to MaxFrames = 3 exactly as before. Two snapshots
    come with at most one frame, and any close and reconnect. Without the
    budget the run has 2.8M states and does not finish in 5 minutes.
- `stats`: 2 connections, 2 users, 1 flow key, writes of 1 byte, and 1
  traffic event per connection.
  - Collections can fall between any two events.
- `pipeline`:
  - seven first requests: a plain GET, a GET with the admin pair, a
    CONNECT with another user's pair, a lone byte `a` that `Version`
    rejects, and three SOCKS5 greetings: the standard
    `5 1 0`, and `5 5 1 0` and `5 5 1 2`, which carry a second version
    byte for the demux to consume;
  - two SOCKS5 requests, CONNECT and BIND;
  - one follow-up after a 407, and one pipelined header line;
  - at most 1 response segment;
  - connect retries up to the code's RETRY_LIMIT of 3;
  - every split of the requests into reads.

  The five descriptor files each reach one branch of start-up:
  1. the defaults (OFFSET 2) on a range that is not on the host, plus a
     local extra IP;
  2. `10.0.0.254/30`, which does not start on its network address, with
     PORT_START 65534 and a PORT_END that is `UNPARSABLE`;
  3. a /31 whose carry passes 255 and a /32 that repeats one of its
     addresses, on the single port of the repository's test file;
  4. a /32 with the default OFFSET, which panics;
  5. a reversed port range on a foreign range, which exits.

## Fairness

In `ConnRegistry`, these are weakly fair:
- the second half of add;
- every step of the kill task.

Each of these is code that runs without outside input. The end of a
tunnel is not assumed, not even with a shutdown pending: io_copy awaits
write_all inside its select! arm (`backend/mod.rs:236/239`) and polls the
shutdown receiver only between reads, so a peer that stops reading keeps
a killed tunnel alive. No property claims that a cancelled tunnel ends.

In `ControlSession`, the steps of the client's own tasks are weakly fair:
- the reconnect loop, including the select's 5 s ping tick, which always
  fires, so the status is read again;
- the listen task;
- the handler;
- EmitClient's forwarders and its own loop (`Run`, `Forward`,
  `ForwardLagged`, `Pump`), which are spawned tasks that never wait on
  anything but their channel.

`collect_stat` runs on a 60 s timer and is not assumed to happen.
The select's stat branch is not assumed fair either. Each fairness
conjunct is subscripted by the variables its own task writes, so that a
session step is not required to change the stat variables.

In `HttpPipeline`, the connection task is weakly fair as a whole:
- the runtime polls it whenever a step is enabled;
- every wait in the front end is bounded, by the 10 s read timeout or by
  RETRY_LIMIT.

Start-up needs no fairness, because no liveness property is about it.
Client traffic, new connections, server messages and the target owe
nothing. `stats` checks only invariants and assumes no fairness.

## Observations from the code that no run states

- The proxy authenticates against a DcAuthenticator that nothing writes.
  `main.rs:52` gives the control client a different one, so
  HttpPipeline's `Px` stays empty.
- Allowlist entries are stored under the client ip, but `check_auth`
  looks them up under the local ip (`dc_auth.rs:55`).
- Start-up and the spec (section 6) disagree:
  - `all_ips` counts from the written address, not from the network
    address. `10.0.0.254/30` plans `10.0.1.0` and `10.0.1.1`, and the test
    file's `181.215.18.10/24` plans `181.215.19.0`-`.9`.
  - A carry past 255 wraps within the /16.
  - A /31 or /32 with OFFSET not 0 panics.
  - A reversed or `UNPARSABLE` port range gives ports beyond PORT_END.
  - The network and broadcast addresses of each range are bound too.
- With no listener bound, `main` exits with status 0.
- CONNECT never gets `200 OK`, and the PROXY filter is installed for
  CONNECT tunnels too.
- remove_headers silently drops a line that is not valid UTF-8
  (`util.rs:11`).
- After a 407, `content` is still the first request's bytes.
- The demux read has no timeout.
- Stat upload and the spec disagree in two places:
  - spec.md section 4.12 says a full ring drops the oldest snapshot, and
    snapshots are best-effort. In the code the forwarder breaks on
    `Lagged` (`emit_client.rs:39`), and every later snapshot of that type
    is lost until the process restarts. The control run reaches that
    state (`ForwardLagged` fires), but no run states it as a property.
  - spec.md section 4.11 says send errors set `backend_up` false. In the
    code `emit_stat` and `ping` errors are only logged
    (`server_client.rs:110-118`). A dead session is noticed only by the
    listen task, and snapshots emitted until then are lost.
- SOCKS5 authentication is bypassed. ServerAuth is only ever built with
  is_white = true (`dc_server.rs:85`), so NoAuth is always offered, and
  the demux has consumed the version byte (`lib.rs:25`). A standard
  greeting `05 01 00` therefore fails (spec scenario 3), while a crafted
  `05 05 01 00` gets an unauthenticated tunnel from a client that is not
  on the allowlist (against spec 4.8 and scenario 4). The property
  `Socks5Authenticated` in HttpPipeline states the spec's rule;
  `HttpPipeline_Socks5Authenticated.cfg` checks it, and TLC finds it
  violated in a 14-state trace. It is not a listed run, because all run
  slots are taken. SOCKS5 tunnels also get no ACL check, are not
  registered in ConnStat (DisableUser cannot end them), and send no
  Request stat and no traffic.
- AclData is ignored: both `AclRule::update` bodies are empty, so spec
  4.2's "update replaces the rule set" does not hold. The proxy's
  AclCenter is a separate DefaultAclRule anyway, so 403 is never sent.
- `format_hostname` (`http_impl/src/lib.rs:136-140`) splits on `:`, so an
  IPv6 literal host `[::1]` folds to `[`. It is not called by active
  code.

- Traffic written but not counted: `select!` over the two io_copy halves
  (`dc_server.rs:154`) drops the losing half at its await point. A half
  dropped inside `write_all` has put part of a read on the wire without
  calling the traffic callback. The model writes a read in one step, so
  no run reaches this.

## Not modelled

- Partial writes: a `write_all` is one step, or one failure when the
  target has reset the connection.

- The SOCKS5 handler past the request: address types, UDP ASSOCIATE and
  the tunnel's copy. `socks5_server::handle_conn` is not in the
  repository; its greeting and request steps are modelled from the spec.
- `rg-acl/src/auth/mod.rs`: the Authenticator trait and its no-op
  DefaultAuthenticator, which nothing instantiates.
- The regex helpers that turn the descriptor file's text into fields.
  ListenerPlan starts from parsed records.
- SystemStat sampling (OS reads), the config and args crates, kafka and
  std_client. These are unused or pure I/O.

## Plan for the remaining work

1. An abstract registry (a set of live tunnels per user), refined by
   ConnRegistry.
2. A property of the start-up plan that a passing run can check, beyond
   `ListenersCoverPlan`.
3. A violation run for `Socks5Authenticated` (its cfg is ready), if a run
   is retired to make room under the 12-run cap.
4. A violation run stating spec section 4.12's best-effort drop against
   the forwarder's break on `Lagged`, if one of the existing runs is
   retired to make room under the 12-run cap.
